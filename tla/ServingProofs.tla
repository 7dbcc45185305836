---------------------------- MODULE ServingProofs ----------------------------
(***************************************************************************)
(* The serving path.  Invalidation is never lost: for any number of        *)
(* readers, editors and edits, what the two caches hold of an older        *)
(* definition was put there by something that overlapped the edit.         *)
(*                                                                         *)
(* The result cache by itself: for any queries, sizes, budget and clocks   *)
(* its books are right, a store restores both bounds and evicts what was   *)
(* used longest ago, and what is served as fresh really is, by the two     *)
(* clocks (Clocked).  The lemmas that carry this are about sums over       *)
(* finite sets, by induction on the set, and about what comes before what  *)
(* in a sequence without repetition.                                       *)
(***************************************************************************)
EXTENDS QueryServing, ResultCache, FiniteSetTheorems, SequenceTheorems,
        WellFoundedInduction, TLAPS

\* There is always an identity to spare, so every result gets its own.
LEMMA FreshIdType == TypeOK => FreshId \in Ids
<1> SUFFICES ASSUME TypeOK, \A i \in Ids : i \in HeldIds PROVE FALSE
  BY DEF FreshId
<1> DEFINE held == {run[p].body.id : p \in Runners}
           f == [p \in Runners |-> run[p].body.id]
           last == IF cached = None THEN {} ELSE {cached.body.id}
<1>1. IsFiniteSet(held) /\ Cardinality(held) <= Cardinality(Runners)
  <2>1. f \in Surjection(Runners, held)
    BY DEF Surjection
  <2> QED BY <2>1, FS_Surjection, ServingAssumption
<1>2. IsFiniteSet(last) /\ Cardinality(last) <= 1
  <2>1. CASE cached = None
    BY <2>1, FS_EmptySet
  <2>2. CASE cached # None
    <3>1. last = {cached.body.id}
      BY <2>2
    <3>2. IsFiniteSet({cached.body.id}) /\ Cardinality({cached.body.id}) = 1
      BY FS_Singleton
    <3> HIDE DEF last
    <3> QED BY <3>1, <3>2
  <2> QED BY <2>1, <2>2
<1>3. IsFiniteSet(HeldIds) /\ Cardinality(HeldIds) <= Cardinality(Runners) + 1
  <2>1. HeldIds = held \cup last
    BY DEF HeldIds
  <2>2. /\ IsFiniteSet(held \cup last)
        /\ Cardinality(held \cup last)
             = Cardinality(held) + Cardinality(last) - Cardinality(held \cap last)
    BY <1>1, <1>2, FS_Union
  <2>3. IsFiniteSet(held \cap last)
    BY <1>1, FS_Intersection
  <2>4. /\ Cardinality(held) \in Nat /\ Cardinality(last) \in Nat
        /\ Cardinality(held \cap last) \in Nat /\ Cardinality(Runners) \in Nat
    BY <1>1, <1>2, <2>3, ServingAssumption, FS_CardinalityType
  <2> HIDE DEF held, last
  <2> QED BY <1>1, <1>2, <2>1, <2>2, <2>4
<1>4. Cardinality(Ids) <= Cardinality(HeldIds)
  <2>1. Ids \in SUBSET HeldIds
    OBVIOUS
  <2> QED BY <1>3, <2>1, FS_Subset
<1>5. /\ Cardinality(Ids) \in Nat /\ Cardinality(HeldIds) \in Nat
      /\ Cardinality(Runners) \in Nat
  BY <1>3, ServingAssumption, FS_CardinalityType
<1> QED BY <1>3, <1>4, <1>5, ServingAssumption

LEMMA InitTypeOK == Init => TypeOK
BY DEF Init, TypeOK, Zero, Versions, Kinds, IdleRun, IdleEdit, Body

Run == [at : {"idle", "queued", "arrived", "loaded", "evaluated", "built",
              "responding", "rendering"},
        body : Body, fromCache : BOOLEAN]
Entry == [body : Body, fresh : BOOLEAN, late : SUBSET Kinds]
RenderedEntry == [id : Ids, fromCache : BOOLEAN, charts : Nat, late : BOOLEAN]

LEMMA StartedRun == TypeOK => IdleRun \in Run /\ \A p : StartRun(p) \in Run
<1> SUFFICES ASSUME TypeOK PROVE IdleRun \in Run /\ \A p : StartRun(p) \in Run
  OBVIOUS
<1>1. IdleRun \in Run
  BY DEF IdleRun, Run, Body, Zero, Versions, Kinds
<1>2. [IdleRun.body EXCEPT !.made["sql"] = db["sql"]] \in Body
  BY <1>1 DEF Run, Body, Versions, Kinds, TypeOK
<1>3. ASSUME NEW p PROVE StartRun(p) \in Run
  BY <1>1, <1>2 DEF StartRun, Run
<1> QED BY <1>1, <1>3

LEMMA RunnerType == ASSUME TypeOK, NEW p \in Runners, RunnerStep(p) PROVE TypeOK'
<1>1. run[p] \in Run /\ db \in Versions /\ run[p].body \in Body
  BY DEF TypeOK, Run
<1>2. CASE Evaluate(p)
  <2>1. [run[p] EXCEPT !.at = "evaluated", !.body.made["rules"] = db["rules"]] \in Run
    BY <1>1 DEF Run, Body, Versions, Kinds
  <2>2. run' \in [Runners -> Run]
    BY <1>2, <2>1 DEF Evaluate, TypeOK, Run
  <2> QED BY <1>2, <2>2 DEF Evaluate, TypeOK, Run
<1>3. CASE Build(p)
  <2>1. [run[p] EXCEPT !.at = "built", !.body.made["charts"] = db["charts"],
                       !.body.id = FreshId] \in Run
    BY <1>1, FreshIdType DEF Run, Body, Versions, Kinds
  <2>2. run' \in [Runners -> Run]
    BY <1>3, <2>1 DEF Build, TypeOK, Run
  <2> QED BY <1>3, <2>2 DEF Build, TypeOK, Run
<1>4. CASE RunFails(p)
  BY <1>4, StartedRun DEF RunFails, TypeOK, Run
<1>5. CASE Store(p)
  <2>1. Behind(run[p].body.made) \in SUBSET Kinds
    BY DEF Behind
  <2>2. [body |-> run[p].body, fresh |-> TRUE, late |-> Behind(run[p].body.made)] \in Entry
    BY <1>1, <2>1 DEF Entry
  <2>3. cached' = None \/ cached' \in Entry
    BY <1>5, <2>2 DEF Store
  <2>4. run' \in [Runners -> Run]
    BY <1>5, StartedRun DEF Store, TypeOK, Run
  <2> QED BY <1>5, <2>3, <2>4 DEF Store, TypeOK, Run, Entry, RenderedUnchanged
<1>6. CASE Respond(p)
  <2>1. run' \in [Runners -> Run]
    BY <1>6, StartedRun DEF Respond, TypeOK, Run
  <2> QED BY <1>6, <2>1 DEF Respond, TypeOK, Run, RenderedUnchanged
<1>7. CASE StoreRendered(p)
  <2>1. run' \in [Runners -> Run]
    BY <1>7, StartedRun DEF StoreRendered, TypeOK, Run
  <2>2. ASSUME NEW y \in rendered' PROVE y \in RenderedEntry
    <3>1. CASE y \in rendered
      BY <3>1 DEF TypeOK, RenderedEntry
    <3>2. CASE y \notin rendered
      \* The new entry: served only while its identity is one that was built.
      <4>1. /\ y = [id |-> run[p].body.id, fromCache |-> run[p].fromCache,
                    charts |-> run[p].body.made["charts"],
                    late |-> run[p].body.made["charts"] < db["charts"]]
            /\ CanBeServed(y)'
        BY <1>7, <2>2, <3>2 DEF StoreRendered
      <4>2. y.id # 0
        BY <4>1 DEF CanBeServed, Renders, RenderKey
      <4> QED BY <1>1, <4>1, <4>2 DEF RenderedEntry, Run, Body, Versions, Kinds
    <3> QED BY <3>1, <3>2
  <2> QED BY <1>7, <2>1, <2>2 DEF StoreRendered, TypeOK, Run, RenderedEntry
<1> QED BY <1>2, <1>3, <1>4, <1>5, <1>6, <1>7 DEF RunnerStep

LEMMA ReaderType == ASSUME TypeOK, NEW p \in Readers, ReaderStep(p) PROVE TypeOK'
<1>1. run \in [Runners -> Run] /\ p \in Runners /\ Refresher \in Runners
  BY DEF TypeOK, Run, Runners
<1>2. CASE Arrive(p)
  <2>1. [StartRun(p) EXCEPT !.at = "arrived"] \in Run
    BY StartedRun DEF Run
  <2>2. run' \in [Runners -> Run]
    BY <1>1, <1>2, <2>1 DEF Arrive
  <2> QED BY <1>2, <2>2 DEF Arrive, TypeOK, Run
<1>3. CASE PollHit(p)
  <2> DEFINE answer == [at |-> "responding", body |-> cached.body, fromCache |-> TRUE]
             answered == [run EXCEPT ![p] = answer]
  <2>1. answer \in Run
    BY <1>3 DEF PollHit, TypeOK, Run
  <2>2. answered \in [Runners -> Run]
    BY <1>1, <2>1
  <2>3. [answered[Refresher] EXCEPT !.at = "queued"] \in Run
    BY <1>1, <2>2 DEF Run
  <2>4. [answered EXCEPT ![Refresher].at = "queued"] \in [Runners -> Run]
    BY <1>1, <2>2, <2>3
  <2>5. run' \in [Runners -> Run]
    BY <1>3, <2>2, <2>4 DEF PollHit
  <2> QED BY <1>3, <2>5 DEF PollHit, TypeOK, Run
<1>4. CASE PollMiss(p)
  <2>1. run' \in [Runners -> Run]
    BY <1>1, <1>4 DEF PollMiss, Run
  <2> QED BY <1>4, <2>1 DEF PollMiss, TypeOK, Run, RenderedUnchanged
<1>5. CASE ForceRun(p)
  <2>1. run' \in [Runners -> Run]
    BY <1>1, <1>5 DEF ForceRun, Run
  <2> QED BY <1>5, <2>1 DEF ForceRun, TypeOK, Run
<1> QED BY <1>2, <1>3, <1>4, <1>5 DEF ReaderStep

LEMMA EditType == ASSUME TypeOK, NEW e \in Editors, EditStep(e) PROVE TypeOK'
<1>1. CASE Invalidate(e)
  BY <1>1 DEF Invalidate, TypeOK, RenderedUnchanged
<1>2. CASE Reread(e)
  <2>1. db["charts"] \in Nat
    BY DEF TypeOK, Versions, Kinds
  <2> QED BY <1>2, <2>1, ZenonT(40) DEF Reread, TypeOK
<1>3. CASE Patch(e)
  <2>1. cached' = None \/ cached' \in Entry
    <3> SUFFICES ASSUME cached # None, cached' # None PROVE cached' \in Entry
      BY <1>3 DEF Patch
    <3>1. cached \in Entry /\ cached.body \in Body /\ editor[e].seen \in Nat
      BY DEF TypeOK, Entry
    <3>2. [cached.body EXCEPT !.made["charts"] = editor[e].seen] \in Body
      BY <3>1 DEF Body, Versions, Kinds
    <3>3. (cached.late \ {"charts"})
            \cup (IF editor[e].seen < db["charts"] THEN {"charts"} ELSE {}) \in SUBSET Kinds
      BY <3>1 DEF Entry, Kinds
    <3> QED BY <1>3, <3>1, <3>2, <3>3 DEF Patch, Entry
  <2> QED BY <1>3, <2>1 DEF Patch, TypeOK, Entry, RenderedUnchanged
<1>4. CASE PurgeRendered(e)
  BY <1>4 DEF PurgeRendered, TypeOK, IdleEdit, Kinds
<1> QED BY <1>1, <1>2, <1>3, <1>4 DEF EditStep

LEMMA NextTypeOK == TypeOK /\ [Next]_vars => TypeOK'
<1> SUFFICES ASSUME TypeOK, [Next]_vars PROVE TypeOK'
  OBVIOUS
<1>1. CASE RefreshStarts
  <2>1. run' \in [Runners -> Run]
    BY <1>1, StartedRun DEF RefreshStarts, TypeOK, Run
  <2> QED BY <1>1, <2>1 DEF RefreshStarts, TypeOK, Run
<1>2. CASE ScheduledRun
  <2>1. run' \in [Runners -> Run]
    BY <1>2, StartedRun DEF ScheduledRun, TypeOK, Run
  <2> QED BY <1>2, <2>1 DEF ScheduledRun, TypeOK, Run
<1>3. ASSUME NEW e \in Editors, NEW k \in Kinds, Commit(e, k) PROVE TypeOK'
  <2>1. db' \in Versions
    BY <1>3 DEF Commit, TypeOK, Versions
  <2> QED BY <1>3, <2>1 DEF Commit, TypeOK
<1>4. CASE Expire
  BY <1>4 DEF Expire, TypeOK
<1>5. CASE EvictResult
  BY <1>5 DEF EvictResult, TypeOK, RenderedUnchanged
<1>6. CASE EvictRendered
  BY <1>6 DEF EvictRendered, TypeOK
<1>7. CASE UNCHANGED vars
  BY <1>7 DEF vars, TypeOK
<1> QED BY <1>1, <1>2, <1>3, <1>4, <1>5, <1>6, <1>7, RunnerType, ReaderType, EditType
        DEF Next

\* Threads, caches and editors keep their shapes, and every stored result has
\* an identity of its own to be asked for by.
THEOREM TypeCorrect == Spec => []TypeOK
<1>1. Init => TypeOK
  BY InitTypeOK
<1>2. TypeOK /\ [Next]_vars => TypeOK'
  BY NextTypeOK
<1> QED BY <1>1, <1>2, PTL DEF Spec

-----------------------------------------------------------------------------
(* What the caches hold of an older definition.                             *)

\* Only an edit of the charts reads back and redraws.
RedrawsCharts == \A e \in Editors : editor[e].at = "reread" => editor[e].kind = "charts"
ServingInv == TypeOK /\ RedrawsCharts /\ OldOnlyIfOverlapped

\* A step that leaves the definition and the cached result alone, and ends no
\* edit before its result cache step, keeps the invariant.
LEMMA CacheUntouched ==
  ASSUME OldOnlyIfOverlapped, db' = db,
         cached' = cached \/ cached' = None,
         \A k \in Kinds : Pending(k) => Pending(k)'
  PROVE  OldOnlyIfOverlapped'
BY DEF OldOnlyIfOverlapped, Behind

LEMMA RunnerOverlap ==
  ASSUME ServingInv, NEW p \in Runners, RunnerStep(p) PROVE OldOnlyIfOverlapped'
<1>1. db' = db /\ editor' = editor
  BY DEF RunnerStep, Evaluate, Build, RunFails, Store, Respond, StoreRendered
<1>2. \A k \in Kinds : Pending(k) => Pending(k)'
  BY <1>1 DEF Pending
<1>3. CASE Store(p)
  BY <1>1, <1>3 DEF Store, OldOnlyIfOverlapped, Behind
<1>4. CASE ~Store(p)
  <2>1. cached' = cached
    BY <1>4 DEF RunnerStep, Evaluate, Build, RunFails, Respond, StoreRendered
  <2> QED BY <1>1, <1>2, <2>1, CacheUntouched DEF ServingInv
<1> QED BY <1>3, <1>4

LEMMA EditOverlap ==
  ASSUME ServingInv, NEW e \in Editors, EditStep(e)
  PROVE  RedrawsCharts' /\ OldOnlyIfOverlapped'
<1>1. db' = db /\ editor \in [Editors -> [at : {"idle", "committed", "reread", "purging"},
                                          kind : Kinds, seen : Nat]]
  BY DEF ServingInv, TypeOK, EditStep, Invalidate, Reread, Patch, PurgeRendered
<1>2. CASE Invalidate(e)
  BY <1>1, <1>2 DEF Invalidate, ServingInv, RedrawsCharts, OldOnlyIfOverlapped
<1>3. CASE Reread(e)
  <2>1. \A k \in Kinds : Pending(k) => Pending(k)'
    BY <1>1, <1>3 DEF Reread, Pending
  <2>2. RedrawsCharts'
    BY <1>1, <1>3 DEF Reread, ServingInv, RedrawsCharts
  <2>3. cached' = cached
    BY <1>3 DEF Reread
  <2> QED BY <1>1, <2>1, <2>2, <2>3, CacheUntouched DEF ServingInv
<1>4. CASE Patch(e)
  <2>1. RedrawsCharts'
    BY <1>1, <1>4 DEF Patch, ServingInv, RedrawsCharts
  <2>2. editor[e].at = "reread" /\ editor[e].kind = "charts"
    BY <1>4 DEF Patch, ServingInv, RedrawsCharts
  <2>3. \A k \in Kinds \ {"charts"} : Pending(k) => Pending(k)'
    BY <1>1, <1>4, <2>2 DEF Patch, Pending
  <2>4. ASSUME cached # None, cached' # None, NEW k \in Behind(cached.body.made)'
        PROVE  Pending(k)' \/ k \in cached'.late
    <3>1. /\ cached \in Entry /\ cached.body \in Body /\ cached.body.made \in Versions
          /\ k \in Kinds
      BY <2>4 DEF ServingInv, TypeOK, Entry, Body, Behind
    <3>2. cached' = [cached EXCEPT
                !.body.made["charts"] = editor[e].seen,
                !.late = (@ \ {"charts"})
                         \cup IF editor[e].seen < db["charts"] THEN {"charts"} ELSE {}]
      BY <1>4, <2>4 DEF Patch
    <3>3. /\ cached'.late = (cached.late \ {"charts"})
                   \cup (IF editor[e].seen < db["charts"] THEN {"charts"} ELSE {})
          /\ cached'.body.made = [cached.body.made EXCEPT !["charts"] = editor[e].seen]
      BY <3>1, <3>2 DEF Entry, Body
    <3>4. CASE k = "charts"
      BY <1>1, <2>4, <3>1, <3>3, <3>4 DEF Behind, Versions
    <3>5. CASE k # "charts"
      <4>1. k \in Behind(cached.body.made)
        BY <1>1, <2>4, <3>1, <3>3, <3>5 DEF Behind, Versions
      <4>2. Pending(k) \/ k \in cached.late
        BY <2>4, <4>1 DEF ServingInv, OldOnlyIfOverlapped
      <4> QED BY <2>3, <3>1, <3>3, <3>5, <4>2
    <3> QED BY <3>4, <3>5
  <2>5. cached = None => cached' = None
    BY <1>4 DEF Patch
  <2> QED BY <2>1, <2>4, <2>5 DEF OldOnlyIfOverlapped
<1>5. CASE PurgeRendered(e)
  <2>1. \A k \in Kinds : Pending(k) => Pending(k)'
    BY <1>1, <1>5 DEF PurgeRendered, Pending
  <2>2. RedrawsCharts'
    BY <1>1, <1>5 DEF PurgeRendered, IdleEdit, ServingInv, RedrawsCharts
  <2>3. cached' = cached
    BY <1>5 DEF PurgeRendered
  <2> QED BY <1>1, <2>1, <2>2, <2>3, CacheUntouched DEF ServingInv
<1> QED BY <1>2, <1>3, <1>4, <1>5 DEF EditStep

LEMMA CommitOverlap ==
  ASSUME ServingInv, NEW e \in Editors, NEW k \in Kinds, Commit(e, k)
  PROVE  RedrawsCharts' /\ OldOnlyIfOverlapped'
<1>1. /\ db \in Versions /\ cached' = cached
      /\ editor \in [Editors -> [at : {"idle", "committed", "reread", "purging"},
                                 kind : Kinds, seen : Nat]]
  BY DEF ServingInv, TypeOK, Commit
<1>2. RedrawsCharts'
  BY <1>1 DEF Commit, ServingInv, RedrawsCharts
<1>3. Pending(k)' /\ \A j \in Kinds : Pending(j) => Pending(j)'
  BY <1>1 DEF Commit, Pending
<1>4. \A made : \A j \in Behind(made)' : j = k \/ j \in Behind(made)
  BY <1>1 DEF Commit, Behind, Versions
<1>5. \A made : Behind(made) \in SUBSET Kinds
  BY DEF Behind
<1> QED BY <1>1, <1>2, <1>3, <1>4, <1>5 DEF ServingInv, OldOnlyIfOverlapped

LEMMA NextServingInv == ServingInv /\ [Next]_vars => ServingInv'
<1> SUFFICES ASSUME ServingInv, [Next]_vars PROVE ServingInv'
  OBVIOUS
<1>1. TypeOK'
  BY NextTypeOK DEF ServingInv
<1>2. CASE \E p \in Runners : RunnerStep(p)
  <2>1. editor' = editor
    BY <1>2 DEF RunnerStep, Evaluate, Build, RunFails, Store, Respond, StoreRendered
  <2> QED BY <1>1, <1>2, <2>1, RunnerOverlap DEF ServingInv, RedrawsCharts
<1>3. CASE \E e \in Editors : EditStep(e) \/ \E k \in Kinds : Commit(e, k)
  BY <1>1, <1>3, EditOverlap, CommitOverlap DEF ServingInv
<1>4. CASE Expire
  BY <1>1, <1>4 DEF Expire, ServingInv, TypeOK, RedrawsCharts, OldOnlyIfOverlapped,
                    Behind, Pending
<1>5. CASE \/ \E p \in Readers : ReaderStep(p)
           \/ RefreshStarts \/ ScheduledRun \/ EvictResult \/ EvictRendered
           \/ UNCHANGED vars
  <2>1. db' = db /\ editor' = editor /\ (cached' = cached \/ cached' = None)
    BY <1>5 DEF ReaderStep, Arrive, PollHit, PollMiss, ForceRun, RefreshStarts,
                ScheduledRun, EvictResult, EvictRendered, vars
  <2>2. \A k \in Kinds : Pending(k) => Pending(k)'
    BY <2>1 DEF Pending
  <2>3. OldOnlyIfOverlapped'
    BY <2>1, <2>2, CacheUntouched DEF ServingInv
  <2> QED BY <1>1, <2>1, <2>3 DEF ServingInv, RedrawsCharts
<1> QED BY <1>2, <1>3, <1>4, <1>5 DEF Next

\* Nothing the result cache held before an edit outlives the edit: what is
\* older was stored by a run or a redraw that overlapped it.
THEOREM InvalidationReachesCache == Spec => []OldOnlyIfOverlapped
<1>1. Init => ServingInv
  <2>1. Init => RedrawsCharts /\ OldOnlyIfOverlapped
    BY DEF Init, IdleEdit, RedrawsCharts, OldOnlyIfOverlapped
  <2> QED BY <2>1, InitTypeOK DEF ServingInv
<1>2. ServingInv /\ [Next]_vars => ServingInv'
  BY NextServingInv
<1>3. ServingInv => OldOnlyIfOverlapped
  BY DEF ServingInv
<1> QED BY <1>1, <1>2, <1>3, PTL DEF Spec

-----------------------------------------------------------------------------
(* What the encoded responses hold of an older chart mapping.               *)

LEMMA NextRenderedOverlap ==
  TypeOK /\ RenderedOldOnlyIfOverlapped /\ [Next]_vars => RenderedOldOnlyIfOverlapped'
<1> SUFFICES ASSUME TypeOK, RenderedOldOnlyIfOverlapped, [Next]_vars
             PROVE  RenderedOldOnlyIfOverlapped'
  OBVIOUS
<1>1. editor \in [Editors -> [at : {"idle", "committed", "reread", "purging"},
                              kind : Kinds, seen : Nat]]
  BY DEF TypeOK
<1>2. ASSUME NEW e \in Editors, NEW k \in Kinds, Commit(e, k)
      PROVE  RenderedOldOnlyIfOverlapped'
  <2>1. Purging'
    BY <1>1, <1>2 DEF Commit, Purging
  <2> QED BY <2>1 DEF RenderedOldOnlyIfOverlapped
<1>3. ASSUME NEW e \in Editors, PurgeRendered(e) PROVE RenderedOldOnlyIfOverlapped'
  BY <1>3 DEF PurgeRendered, RenderedOldOnlyIfOverlapped
<1>4. ASSUME db' = db, rendered' \subseteq rendered, Purging => Purging'
      PROVE  RenderedOldOnlyIfOverlapped'
  BY <1>4 DEF RenderedOldOnlyIfOverlapped
<1>5. ASSUME NEW e \in Editors, EditStep(e), ~PurgeRendered(e)
      PROVE  RenderedOldOnlyIfOverlapped'
  <2>1. db' = db /\ rendered' \subseteq rendered
    BY <1>5 DEF EditStep, Invalidate, Reread, Patch, RenderedUnchanged
  <2>2. Purging'
    BY <1>1, <1>5 DEF EditStep, Invalidate, Reread, Patch, Purging
  <2> QED BY <1>4, <2>1, <2>2
<1>6. ASSUME NEW p \in Runners, StoreRendered(p) PROVE RenderedOldOnlyIfOverlapped'
  <2>1. db' = db /\ editor' = editor
    BY <1>6 DEF StoreRendered
  <2>2. ASSUME NEW y \in rendered', y \notin rendered, y.charts < db["charts"] PROVE y.late
    <3>1. y = [id |-> run[p].body.id, fromCache |-> run[p].fromCache,
               charts |-> run[p].body.made["charts"],
               late |-> run[p].body.made["charts"] < db["charts"]]
      BY <1>6, <2>2 DEF StoreRendered
    <3> QED BY <2>2, <3>1
  <2> QED BY <2>1, <2>2 DEF RenderedOldOnlyIfOverlapped, Purging
<1>7. ASSUME NEW p \in Runners, RunnerStep(p), ~StoreRendered(p)
      PROVE  RenderedOldOnlyIfOverlapped'
  <2>1. db' = db /\ editor' = editor /\ rendered' \subseteq rendered
    BY <1>7 DEF RunnerStep, Evaluate, Build, RunFails, Store, Respond, RenderedUnchanged
  <2> QED BY <1>4, <2>1 DEF Purging
<1>8. CASE \/ \E p \in Readers : ReaderStep(p)
           \/ RefreshStarts \/ ScheduledRun \/ Expire \/ EvictResult \/ EvictRendered
           \/ UNCHANGED vars
  <2>1. db' = db /\ editor' = editor /\ rendered' \subseteq rendered
    BY <1>8 DEF ReaderStep, Arrive, PollHit, PollMiss, ForceRun, RefreshStarts, Expire,
                ScheduledRun, EvictResult, EvictRendered, RenderedUnchanged, vars
  <2> QED BY <1>4, <2>1 DEF Purging
<1> QED BY <1>2, <1>3, <1>5, <1>6, <1>7, <1>8 DEF Next

\* A chart edit leaves behind no response it found: bytes with an older
\* mapping come from a request that was encoding them while it went on.
THEOREM PurgeReachesRendered == Spec => []RenderedOldOnlyIfOverlapped
<1>1. Init => TypeOK /\ RenderedOldOnlyIfOverlapped
  BY InitTypeOK DEF Init, RenderedOldOnlyIfOverlapped
<1>2. TypeOK /\ RenderedOldOnlyIfOverlapped /\ [Next]_vars
        => (TypeOK /\ RenderedOldOnlyIfOverlapped)'
  BY NextTypeOK, NextRenderedOverlap
<1> QED BY <1>1, <1>2, PTL DEF Spec

-----------------------------------------------------------------------------
(* The result cache: sums over finite sets.                                *)

\* What holds of a finite set whenever it holds of all its strict subsets,
\* holds of every finite set.
LEMMA SetInduction ==
  ASSUME NEW S, IsFiniteSet(S), NEW Good,
         \A T \in SUBSET S : (\A U \in SUBSET T : U # T => U \in Good) => T \in Good
  PROVE  SUBSET S \subseteq Good
<1> SUFFICES ASSUME (SUBSET S) \ Good # {} PROVE FALSE
  OBVIOUS
<1>1. IsWellFoundedOn(StrictSubsetOrdering(S), SUBSET S)
  <2>1. IsWellFoundedOn(StrictSubsetOrdering(S), FiniteSubsetsOf(S))
    BY FS_StrictSubsetOrderingWellFounded
  <2>2. FiniteSubsetsOf(S) = SUBSET S
    BY FS_FiniteSubsetsOfFinite
  <2> QED BY ONLY <2>1, <2>2
<1>2. PICK T \in (SUBSET S) \ Good :
        \A U \in (SUBSET S) \ Good : ~ (<<U, T>> \in StrictSubsetOrdering(S))
  <2> DEFINE bad == (SUBSET S) \ Good
  <2>1. bad \subseteq SUBSET S /\ bad # {}
    OBVIOUS
  <2> HIDE DEF bad
  <2>2. \E T \in bad : \A U \in bad : ~ (<<U, T>> \in StrictSubsetOrdering(S))
    BY <1>1, <2>1, WFMin
  <2> QED BY <2>2 DEF bad
<1>3. \A U \in SUBSET T : U # T => U \in Good
  BY <1>2 DEF StrictSubsetOrdering
<1> QED BY <1>2, <1>3

\* The member a fold of the community modules takes first.
One(S) == CHOOSE x \in S : TRUE
\* g gives every subset of S its sum, the way that fold does.
IsSum(e, S, g) ==
  g = [s \in SUBSET S |-> IF s = {} THEN 0 ELSE e[One(s)].size + g[s \ {One(s)}]]

LEMMA WeighIsSum == \A e, S : Weigh(e, S) = (CHOOSE g : IsSum(e, S, g))[S]
BY Zenon DEF Weigh, MapThenSumSet, MapThenFoldSet, IsSum, One

LEMMA SumAt ==
  ASSUME NEW e, NEW S, NEW g, IsSum(e, S, g), NEW s, s \subseteq S
  PROVE  g[s] = IF s = {} THEN 0 ELSE e[One(s)].size + g[s \ {One(s)}]
<1>1. s \in SUBSET S
  OBVIOUS
<1> QED BY <1>1, Zenon DEF IsSum

\* There is one such function: on what two have in common they agree.
LEMMA SumsAgree ==
  ASSUME NEW e, NEW S, NEW T, NEW g, NEW h, NEW W, IsFiniteSet(W),
         IsSum(e, S, g), IsSum(e, T, h), W \subseteq S, W \subseteq T
  PROVE  g[W] = h[W]
<1> DEFINE Good == {U \in SUBSET W : g[U] = h[U]}
<1>1. ASSUME NEW U \in SUBSET W, \A V \in SUBSET U : V # U => V \in Good
      PROVE  U \in Good
  <2>1. /\ g[U] = IF U = {} THEN 0 ELSE e[One(U)].size + g[U \ {One(U)}]
        /\ h[U] = IF U = {} THEN 0 ELSE e[One(U)].size + h[U \ {One(U)}]
    <3>1. U \subseteq S /\ U \subseteq T
      OBVIOUS
    <3> QED BY <3>1, SumAt
  <2>2. CASE U = {}
    BY <2>1, <2>2
  <2>3. CASE U # {}
    <3>1. One(U) \in U
      BY <2>3 DEF One
    <3>2. g[U \ {One(U)}] = h[U \ {One(U)}]
      BY <1>1, <3>1
    <3> QED BY <2>1, <2>3, <3>2
  <2> QED BY <2>2, <2>3
<1> HIDE DEF Good
<1>2. SUBSET W \subseteq Good
  BY <1>1, SetInduction
<1> QED BY <1>2 DEF Good

\* ... and there is one, for every finite set.
LEMMA SumExists ==
  ASSUME NEW e, NEW S, IsFiniteSet(S)
  PROVE  \E g : IsSum(e, S, g)
<1> DEFINE Good == {T \in SUBSET S : \E g : IsSum(e, T, g)}
<1>1. ASSUME NEW T \in SUBSET S, \A U \in SUBSET T : U # T => U \in Good
      PROVE  T \in Good
  <2> DEFINE H(U) == CHOOSE g : IsSum(e, U, g)
             f == [s \in SUBSET T |-> IF s = {} THEN 0
                     ELSE e[One(s)].size + H(s \ {One(s)})[s \ {One(s)}]]
  <2>1. ASSUME NEW U \in SUBSET T, U # T PROVE IsSum(e, U, H(U))
    <3>1. \E g : IsSum(e, U, g)
      BY <1>1, <2>1
    <3> QED BY <3>1
  <2>2. ASSUME NEW s \in SUBSET T, s # {}
        PROVE  f[s \ {One(s)}] = H(s \ {One(s)})[s \ {One(s)}]
    <3> DEFINE u == s \ {One(s)}
    <3>1. One(s) \in s
      BY <2>2 DEF One
    <3>2. u \in SUBSET T /\ u # T /\ IsFiniteSet(u)
      BY <3>1, FS_Subset
    <3>3. H(u)[u] = IF u = {} THEN 0 ELSE e[One(u)].size + H(u)[u \ {One(u)}]
      <4>1. IsSum(e, u, H(u)) /\ u \subseteq u
        BY <2>1, <3>2
      <4> HIDE DEF H, u, f
      <4> QED BY <4>1, SumAt
    <3>4. f[u] = IF u = {} THEN 0 ELSE e[One(u)].size + H(u \ {One(u)})[u \ {One(u)}]
      BY <3>2
    <3>5. CASE u = {}
      BY <3>3, <3>4, <3>5
    <3>6. CASE u # {}
      <4> DEFINE v == u \ {One(u)}
      <4>1. One(u) \in u
        BY <3>6 DEF One
      <4>2. v \subseteq u /\ v \in SUBSET T /\ v # T /\ IsFiniteSet(v)
        BY <3>2, <4>1, FS_Subset
      <4>3. IsSum(e, u, H(u)) /\ IsSum(e, v, H(v))
        BY <2>1, <3>2, <4>2
      <4> HIDE DEF H, v, u, f
      <4>4. H(u)[v] = H(v)[v]
        BY <4>2, <4>3, SumsAgree
      <4>5. H(u)[u] = e[One(u)].size + H(u)[v]
        BY <3>3, <3>6 DEF v
      <4>6. f[u] = e[One(u)].size + H(v)[v]
        BY <3>4, <3>6 DEF v
      <4>7. f[u] = H(u)[u]
        BY <4>4, <4>5, <4>6
      <4> QED BY <4>7 DEF u
    <3> QED BY <3>5, <3>6
  <2>3. \A s \in SUBSET T : f[s] = IF s = {} THEN 0 ELSE e[One(s)].size + f[s \ {One(s)}]
    <3> SUFFICES ASSUME NEW s \in SUBSET T
                 PROVE f[s] = IF s = {} THEN 0 ELSE e[One(s)].size + f[s \ {One(s)}]
      OBVIOUS
    <3>1. f[s] = IF s = {} THEN 0 ELSE e[One(s)].size + H(s \ {One(s)})[s \ {One(s)}]
      OBVIOUS
    <3> HIDE DEF f, H
    <3> QED BY <2>2, <3>1
  <2>4. f = [s \in SUBSET T |-> f[s]]
    OBVIOUS
  <2> HIDE DEF f
  <2>5. IsSum(e, T, f)
    BY Zenon, <2>3, <2>4 DEF IsSum
  <2> QED BY <2>5
<1> HIDE DEF Good
<1>2. SUBSET S \subseteq Good
  BY <1>1, SetInduction
<1> QED BY <1>2 DEF Good

\* The recursion of the sum.
LEMMA WeighAt ==
  ASSUME NEW e, NEW S, IsFiniteSet(S)
  PROVE  Weigh(e, S) = IF S = {} THEN 0 ELSE e[One(S)].size + Weigh(e, S \ {One(S)})
<1> DEFINE g == CHOOSE g : IsSum(e, S, g)
           T == S \ {One(S)}
           h == CHOOSE h : IsSum(e, T, h)
<1>1. IsFiniteSet(T) /\ T \subseteq S
  BY FS_Subset
<1>2. IsSum(e, S, g) /\ IsSum(e, T, h)
  BY <1>1, SumExists
<1>3. Weigh(e, S) = g[S] /\ Weigh(e, T) = h[T]
  BY WeighIsSum
<1> HIDE DEF g, h
<1>4. g[S] = IF S = {} THEN 0 ELSE e[One(S)].size + g[T]
  BY <1>2, SumAt
<1>5. g[T] = h[T]
  BY <1>1, <1>2, SumsAgree
<1> QED BY <1>3, <1>4, <1>5

\* Every entry of S has a size.
Weighty(e, S) == \A x \in S : e[x].size \in Nat

LEMMA WeighNat ==
  ASSUME NEW e, NEW S, IsFiniteSet(S), Weighty(e, S)
  PROVE  Weigh(e, S) \in Nat
<1> DEFINE Good == {T \in SUBSET S : Weigh(e, T) \in Nat}
<1>1. ASSUME NEW T \in SUBSET S, \A U \in SUBSET T : U # T => U \in Good
      PROVE  T \in Good
  <2>1. Weigh(e, T) = IF T = {} THEN 0 ELSE e[One(T)].size + Weigh(e, T \ {One(T)})
    BY WeighAt, FS_Subset
  <2>2. CASE T # {}
    <3>1. One(T) \in T
      BY <2>2 DEF One
    <3>2. e[One(T)].size \in Nat /\ Weigh(e, T \ {One(T)}) \in Nat
      BY <1>1, <3>1 DEF Weighty
    <3> QED BY <2>1, <2>2, <3>2
  <2> QED BY <2>1, <2>2
<1> HIDE DEF Good
<1>2. SUBSET S \subseteq Good
  BY <1>1, SetInduction
<1> QED BY <1>2 DEF Good

\* One more entry adds its own weight.
LEMMA WeighAdd ==
  ASSUME NEW e, NEW S, IsFiniteSet(S), NEW x, x \in S, Weighty(e, S)
  PROVE  Weigh(e, S) = Weigh(e, S \ {x}) + e[x].size
<1> DEFINE Good == {T \in SUBSET S : \A y \in T : Weigh(e, T) = Weigh(e, T \ {y}) + e[y].size}
<1>1. ASSUME NEW T \in SUBSET S, \A U \in SUBSET T : U # T => U \in Good, NEW y \in T
      PROVE  Weigh(e, T) = Weigh(e, T \ {y}) + e[y].size
  <2> DEFINE c == One(T)
  <2>1. c \in T
    BY DEF One
  <2>2. IsFiniteSet(T) /\ IsFiniteSet(T \ {c}) /\ IsFiniteSet(T \ {y}) /\ IsFiniteSet((T \ {y}) \ {c})
    BY FS_Subset
  <2>3. Weigh(e, T) = e[c].size + Weigh(e, T \ {c})
    BY <2>1, <2>2, WeighAt
  <2>4. /\ e[c].size \in Nat /\ e[y].size \in Nat
        /\ Weigh(e, T \ {c}) \in Nat /\ Weigh(e, (T \ {y}) \ {c}) \in Nat
    BY <2>1, <2>2, WeighNat DEF Weighty
  <2> HIDE DEF c
  <2>5. CASE c = y
    BY <2>3, <2>4, <2>5
  <2>6. CASE c # y
    <3>1. Weigh(e, T \ {c}) = Weigh(e, (T \ {c}) \ {y}) + e[y].size
      <4>1. T \ {c} \in SUBSET T /\ T \ {c} # T /\ y \in T \ {c}
        BY <2>1, <2>6
      <4> QED BY <1>1, <4>1
    <3>2. Weigh(e, T \ {y}) = Weigh(e, (T \ {y}) \ {c}) + e[c].size
      <4>1. T \ {y} \in SUBSET T /\ T \ {y} # T /\ c \in T \ {y}
        BY <2>1, <2>6
      <4> QED BY <1>1, <4>1
    <3>3. (T \ {y}) \ {c} = (T \ {c}) \ {y}
      OBVIOUS
    <3>4. Weigh(e, T \ {c}) = Weigh(e, (T \ {y}) \ {c}) + e[y].size
      BY <3>1, <3>3
    <3> QED BY ONLY <2>3, <2>4, <3>2, <3>4
  <2> QED BY <2>5, <2>6
<1> HIDE DEF Good
<1>2. \A T \in SUBSET S : (\A U \in SUBSET T : U # T => U \in Good) => T \in Good
  BY <1>1 DEF Good
<1>3. SUBSET S \subseteq Good
  BY <1>2, SetInduction
<1> QED BY <1>3 DEF Good

\* The sum is over what the entries weigh and nothing else.
LEMMA WeighSame ==
  ASSUME NEW e, NEW f, NEW S, IsFiniteSet(S), \A x \in S : e[x].size = f[x].size
  PROVE  Weigh(e, S) = Weigh(f, S)
<1> DEFINE Good == {T \in SUBSET S : Weigh(e, T) = Weigh(f, T)}
<1>1. ASSUME NEW T \in SUBSET S, \A U \in SUBSET T : U # T => U \in Good
      PROVE  T \in Good
  <2>1. /\ Weigh(e, T) = IF T = {} THEN 0 ELSE e[One(T)].size + Weigh(e, T \ {One(T)})
        /\ Weigh(f, T) = IF T = {} THEN 0 ELSE f[One(T)].size + Weigh(f, T \ {One(T)})
    BY WeighAt, FS_Subset
  <2>2. CASE T # {}
    <3>1. One(T) \in T
      BY <2>2 DEF One
    <3>2. e[One(T)].size = f[One(T)].size /\ Weigh(e, T \ {One(T)}) = Weigh(f, T \ {One(T)})
      BY <1>1, <3>1
    <3> QED BY <2>1, <2>2, <3>2
  <2> QED BY <2>1, <2>2
<1> HIDE DEF Good
<1>2. SUBSET S \subseteq Good
  BY <1>1, SetInduction
<1> QED BY <1>2 DEF Good

\* What is taken out leaves the rest.
LEMMA WeighSplit ==
  ASSUME NEW e, NEW S, IsFiniteSet(S), Weighty(e, S), NEW T, T \subseteq S
  PROVE  Weigh(e, S) = Weigh(e, T) + Weigh(e, S \ T)
<1> DEFINE Good == {U \in SUBSET T : Weigh(e, S) = Weigh(e, U) + Weigh(e, S \ U)}
<1>1. ASSUME NEW U \in SUBSET T, \A V \in SUBSET U : V # U => V \in Good
      PROVE  U \in Good
  <2>1. CASE U = {}
    <3>1. Weigh(e, {}) = 0 /\ S \ {} = S
      BY WeighAt, FS_EmptySet
    <3> QED BY <2>1, <3>1, WeighNat
  <2>2. CASE U # {}
    <3> PICK x \in U : TRUE
      BY <2>2
    <3> DEFINE V == U \ {x}
    <3>1. /\ V \in SUBSET U /\ V # U /\ x \notin V
          /\ IsFiniteSet(V) /\ IsFiniteSet(U) /\ IsFiniteSet(S \ V) /\ IsFiniteSet(S \ U)
          /\ Weighty(e, V) /\ Weighty(e, U) /\ Weighty(e, S \ V) /\ Weighty(e, S \ U)
      BY FS_Subset DEF Weighty
    <3>2. Weigh(e, S) = Weigh(e, V) + Weigh(e, S \ V)
      BY <1>1, <3>1
    <3>3. Weigh(e, U) = Weigh(e, V) + e[x].size
      BY <3>1, WeighAdd
    <3>4. Weigh(e, S \ V) = Weigh(e, S \ U) + e[x].size
      <4>1. (S \ V) \ {x} = S \ U /\ x \in S \ V
        OBVIOUS
      <4> QED BY <3>1, <4>1, WeighAdd
    <3>5. Weigh(e, V) \in Nat /\ Weigh(e, S \ U) \in Nat /\ e[x].size \in Nat
      BY <3>1, WeighNat DEF Weighty
    <3> QED BY <3>2, <3>3, <3>4, <3>5
  <2> QED BY <2>1, <2>2
<1> HIDE DEF Good
<1>2. SUBSET T \subseteq Good
  <2>1. IsFiniteSet(T)
    BY FS_Subset
  <2> QED BY <1>1, <2>1, SetInduction
<1> QED BY <1>2 DEF Good

-----------------------------------------------------------------------------
(* Sequences without repetition, by what comes before what.                *)

\* a comes before b in s; s lists S, each member once.
Before(s, a, b) == \E i, j \in DOMAIN s : i < j /\ s[i] = a /\ s[j] = b
Line(s, S) == s \in Seq(Queries) /\ IsInjective(s) /\ ToSet(s) = S

LEMMA SubSeqFacts ==
  ASSUME NEW s \in Seq(Queries), NEW m \in 1 .. Len(s) + 1, NEW n \in 0 .. Len(s)
  PROVE  /\ SubSeq(s, m, n) \in Seq(Queries)
         /\ Len(SubSeq(s, m, n)) = IF m <= n THEN n - m + 1 ELSE 0
         /\ \A i \in 1 .. n - m + 1 : SubSeq(s, m, n)[i] = s[m + i - 1]
<1>1. Len(s) \in Nat /\ \A i \in 1 .. Len(s) : s[i] \in Queries
  OBVIOUS
<1>2. m \in Int /\ n \in Int /\ \A i \in m .. n : s[i] \in Queries
  BY <1>1
<1> QED BY <1>2, SubSeqProperties

LEMMA FrontFacts ==
  ASSUME NEW s \in Seq(Queries), NEW n \in 0 .. Len(s)
  PROVE  /\ SubSeq(s, 1, n) \in Seq(Queries) /\ Len(SubSeq(s, 1, n)) = n
         /\ \A i \in 1 .. n : SubSeq(s, 1, n)[i] = s[i]
<1> DEFINE h == SubSeq(s, 1, n)
<1>1. Len(s) \in Nat /\ n \in Nat /\ 1 \in 1 .. Len(s) + 1
  OBVIOUS
<1>2. /\ h \in Seq(Queries) /\ Len(h) = IF 1 <= n THEN n - 1 + 1 ELSE 0
      /\ \A i \in 1 .. n - 1 + 1 : h[i] = s[1 + i - 1]
  BY <1>1, SubSeqFacts
<1> HIDE DEF h
<1>3. Len(h) = n
  BY <1>1, <1>2
<1>4. ASSUME NEW i \in 1 .. n PROVE h[i] = s[i]
  <2>1. i \in 1 .. n - 1 + 1 /\ 1 + i - 1 = i
    BY <1>1
  <2>2. h[i] = s[1 + i - 1]
    BY <1>2, <2>1
  <2> QED BY <2>1, <2>2
<1> QED BY <1>2, <1>3, <1>4 DEF h

LEMMA BackFacts ==
  ASSUME NEW s \in Seq(Queries), NEW n \in 0 .. Len(s)
  PROVE  /\ SubSeq(s, n + 1, Len(s)) \in Seq(Queries)
         /\ Len(SubSeq(s, n + 1, Len(s))) = Len(s) - n
         /\ \A i \in 1 .. Len(s) - n : SubSeq(s, n + 1, Len(s))[i] = s[n + i]
<1> DEFINE h == SubSeq(s, n + 1, Len(s))
<1>1. Len(s) \in Nat /\ n \in Nat /\ n + 1 \in 1 .. Len(s) + 1 /\ Len(s) \in 0 .. Len(s) /\ n <= Len(s)
  OBVIOUS
<1>2. /\ h \in Seq(Queries) /\ Len(h) = IF n + 1 <= Len(s) THEN Len(s) - (n + 1) + 1 ELSE 0
      /\ \A i \in 1 .. Len(s) - (n + 1) + 1 : h[i] = s[(n + 1) + i - 1]
  BY <1>1, SubSeqFacts
<1> HIDE DEF h
<1>3. Len(h) = Len(s) - n
  BY <1>1, <1>2
<1>4. ASSUME NEW i \in 1 .. Len(s) - n PROVE h[i] = s[n + i]
  <2>1. i \in 1 .. Len(s) - (n + 1) + 1 /\ (n + 1) + i - 1 = n + i
    BY <1>1
  <2>2. h[i] = s[(n + 1) + i - 1]
    BY <1>2, <2>1
  <2> QED BY <2>1, <2>2
<1> QED BY <1>2, <1>3, <1>4 DEF h
\* Taking one out keeps the others in their order.
LEMMA WithoutLine ==
  ASSUME NEW s, NEW S, Line(s, S), NEW q
  PROVE  /\ Line(Without(s, q), S \ {q})
         /\ \A a, b : a # q /\ b # q => (Before(Without(s, q), a, b) <=> Before(s, a, b))
<1>1. CASE q \notin S
  <2>1. Without(s, q) = s /\ S \ {q} = S
    BY <1>1 DEF Without, Line
  <2> QED BY <2>1
<1>2. CASE q \in S
  <2> DEFINE p == Place(s, q)
  <2>1. s \in Seq(Queries) /\ p \in 1 .. Len(s) /\ s[p] = q /\ Len(s) \in Nat /\ DOMAIN s = 1 .. Len(s)
    BY <1>2 DEF Line, ToSet, Place
  <2>2. \A i, j \in 1 .. Len(s) : s[i] = s[j] => i = j
    BY <2>1 DEF Line, IsInjective
  <2>3. \A x : x \in S <=> \E i \in 1 .. Len(s) : s[i] = x
    BY <2>1 DEF Line, ToSet
  <2>4. Without(s, q) = RemoveAt(s, p)
    BY <1>2 DEF Line, Without
  <2> HIDE DEF p
  <2>5. RemoveAt(s, p) = SubSeq(s, 1, p - 1) \o SubSeq(s, p + 1, Len(s))
    BY DEF RemoveAt
  <2>6. /\ RemoveAt(s, p) \in Seq(Queries)
        /\ Len(RemoveAt(s, p)) = Len(s) - 1
        /\ \A i \in 1 .. Len(s) - 1 :
             RemoveAt(s, p)[i] = IF i < p THEN s[i] ELSE s[i + 1]
    <3> DEFINE h == SubSeq(s, 1, p - 1)
               t == SubSeq(s, p + 1, Len(s))
    <3>1. /\ h \in Seq(Queries) /\ Len(h) = p - 1
          /\ \A i \in 1 .. p - 1 : h[i] = s[i]
      <4>1. p - 1 \in 0 .. Len(s)
        BY <2>1
      <4> QED BY <2>1, <4>1, FrontFacts
    <3>2. /\ t \in Seq(Queries) /\ Len(t) = Len(s) - p
          /\ \A i \in 1 .. Len(s) - p : t[i] = s[p + i]
      <4>1. p \in 0 .. Len(s)
        BY <2>1
      <4> QED BY <2>1, <4>1, BackFacts
    <3> HIDE DEF h, t
    <3>3. /\ h \o t \in Seq(Queries) /\ Len(h \o t) = Len(s) - 1
          /\ \A i \in 1 .. Len(s) - 1 : (h \o t)[i] = IF i <= p - 1 THEN h[i] ELSE t[i - (p - 1)]
      <4>1. /\ h \o t \in Seq(Queries) /\ Len(h \o t) = Len(h) + Len(t)
            /\ \A i \in 1 .. Len(h) + Len(t) : (h \o t)[i] = IF i <= Len(h) THEN h[i] ELSE t[i - Len(h)]
        BY <3>1, <3>2, ConcatProperties
      <4>2. Len(h) + Len(t) = Len(s) - 1
        BY <2>1, <3>1, <3>2
      <4> QED BY <3>1, <4>1, <4>2
    <3>4. RemoveAt(s, p) = h \o t
      BY <2>5 DEF h, t
    <3>5. ASSUME NEW i \in 1 .. Len(s) - 1
          PROVE  RemoveAt(s, p)[i] = IF i < p THEN s[i] ELSE s[i + 1]
      BY <2>1, <3>1, <3>2, <3>3, <3>4
    <3> QED BY <3>3, <3>4, <3>5
  <2> DEFINE r == RemoveAt(s, p)
  <2>7. DOMAIN r = 1 .. Len(s) - 1
    BY <2>6
  <2> HIDE DEF r
  <2>8. /\ r \in Seq(Queries) /\ r = Without(s, q)
        /\ \A i \in 1 .. Len(s) - 1 : r[i] = IF i < p THEN s[i] ELSE s[i + 1]
    BY <2>4, <2>6 DEF r
  <2>9. IsInjective(r)
    BY <2>1, <2>2, <2>7, <2>8 DEF IsInjective
  <2>10. ToSet(r) = S \ {q}
    <3>1. ASSUME NEW x \in ToSet(r) PROVE x \in S \ {q}
      <4> PICK i \in 1 .. Len(s) - 1 : r[i] = x
        BY <2>7 DEF ToSet
      <4> QED BY <2>1, <2>2, <2>3, <2>8
    <3>2. ASSUME NEW x \in S \ {q} PROVE x \in ToSet(r)
      <4> PICK i \in 1 .. Len(s) : s[i] = x
        BY <2>3
      <4>1. i < p \/ i > p
        BY <2>1
      <4>2. CASE i < p
        BY <2>1, <2>7, <2>8, <4>2 DEF ToSet
      <4>3. CASE i > p
        <5>1. i - 1 \in 1 .. Len(s) - 1 /\ r[i - 1] = x
          BY <2>1, <2>8, <4>3
        <5> QED BY <2>7, <5>1 DEF ToSet
      <4> QED BY <4>1, <4>2, <4>3
    <3> QED BY <3>1, <3>2
  <2>11. ASSUME NEW a, NEW b, a # q, b # q, Before(r, a, b) PROVE Before(s, a, b)
    <3>1. PICK i \in 1 .. Len(s) - 1, j \in 1 .. Len(s) - 1 : i < j /\ r[i] = a /\ r[j] = b
      BY <2>7, <2>11 DEF Before
    <3> DEFINE k == IF i < p THEN i ELSE i + 1
               l == IF j < p THEN j ELSE j + 1
    <3>2. k \in 1 .. Len(s) /\ l \in 1 .. Len(s) /\ k < l /\ s[k] = a /\ s[l] = b
      BY <2>1, <2>8, <3>1
    <3> QED BY <2>1, <3>2 DEF Before
  <2>12. ASSUME NEW a, NEW b, a # q, b # q, Before(s, a, b) PROVE Before(r, a, b)
    <3>1. PICK i \in 1 .. Len(s), j \in 1 .. Len(s) : i < j /\ s[i] = a /\ s[j] = b
      BY <2>1, <2>12 DEF Before
    <3>2. i # p /\ j # p
      BY <2>1, <2>12, <3>1
    <3> DEFINE k == IF i < p THEN i ELSE i - 1
               l == IF j < p THEN j ELSE j - 1
    <3>3. k \in 1 .. Len(s) - 1 /\ l \in 1 .. Len(s) - 1 /\ k < l
      BY <2>1, <3>1, <3>2
    <3>4. r[k] = a /\ r[l] = b
      <4>1. ASSUME NEW x \in 1 .. Len(s), x # p
            PROVE  r[IF x < p THEN x ELSE x - 1] = s[x]
        <5>1. CASE x < p
          BY <2>1, <2>8, <5>1
        <5>2. CASE x > p
          <6>1. x - 1 \in 1 .. Len(s) - 1 /\ ~(x - 1 < p) /\ (x - 1) + 1 = x
            BY <2>1, <5>2
          <6>2. r[x - 1] = s[(x - 1) + 1]
            BY <2>8, <6>1
          <6> QED BY <2>1, <5>2, <6>1, <6>2
        <5> QED BY <2>1, <4>1, <5>1, <5>2
      <4> QED BY <3>1, <3>2, <4>1
    <3> QED BY <2>7, <3>3, <3>4 DEF Before
  <2> QED BY <2>8, <2>9, <2>10, <2>11, <2>12 DEF Line
<1> QED BY <1>1, <1>2

\* A use puts one last and keeps the others in their order.
LEMMA MoveLine ==
  ASSUME NEW s, NEW S, Line(s, S), NEW q \in Queries
  PROVE  /\ Line(MoveToEnd(s, q), S \cup {q})
         /\ Len(MoveToEnd(s, q)) \in Nat \ {0}
         /\ MoveToEnd(s, q)[Len(MoveToEnd(s, q))] = q
         /\ \A a, b : a # q /\ b # q => (Before(MoveToEnd(s, q), a, b) <=> Before(s, a, b))
         /\ \A a \in S : a # q => Before(MoveToEnd(s, q), a, q)
         /\ \A b : ~Before(MoveToEnd(s, q), q, b)
<1> DEFINE w == Without(s, q)
           m == Append(w, q)
<1>1. Line(w, S \ {q}) /\ \A a, b : a # q /\ b # q => (Before(w, a, b) <=> Before(s, a, b))
  BY WithoutLine
<1> HIDE DEF w
<1>2. /\ w \in Seq(Queries) /\ Len(w) \in Nat /\ DOMAIN w = 1 .. Len(w)
      /\ \A i, j \in 1 .. Len(w) : w[i] = w[j] => i = j
      /\ \A x : x \in S \ {q} <=> \E i \in 1 .. Len(w) : w[i] = x
  BY <1>1 DEF Line, IsInjective, ToSet
<1>3. /\ m \in Seq(Queries) /\ Len(m) = Len(w) + 1 /\ DOMAIN m = 1 .. Len(w) + 1
      /\ \A i \in 1 .. Len(w) : m[i] = w[i]
      /\ m[Len(w) + 1] = q
  BY <1>2
<1>4. MoveToEnd(s, q) = m
  BY DEF MoveToEnd, w
<1> HIDE DEF m
<1>5. IsInjective(m)
  <2> SUFFICES ASSUME NEW i \in 1 .. Len(w) + 1, NEW j \in 1 .. Len(w) + 1, m[i] = m[j], i # j
               PROVE FALSE
    BY <1>3 DEF IsInjective
  <2> QED BY <1>2, <1>3, SMTT(30)
<1>6. ToSet(m) = S \cup {q}
  <2>1. ASSUME NEW x \in ToSet(m) PROVE x \in S \cup {q}
    <3> PICK i \in 1 .. Len(w) + 1 : m[i] = x
      BY <1>3 DEF ToSet
    <3> QED BY <1>2, <1>3
  <2>2. ASSUME NEW x \in S \ {q} PROVE x \in ToSet(m)
    <3> PICK i \in 1 .. Len(w) : w[i] = x
      BY <1>2
    <3>1. i \in 1 .. Len(w) + 1 /\ m[i] = x
      BY <1>2, <1>3
    <3> QED BY <1>3, <3>1 DEF ToSet
  <2>3. q \in ToSet(m)
    <3>1. Len(w) + 1 \in 1 .. Len(w) + 1
      BY <1>2
    <3> QED BY <1>3, <3>1 DEF ToSet
  <2> QED BY <2>1, <2>2, <2>3
<1>7. ASSUME NEW a, NEW b, a # q, b # q PROVE Before(m, a, b) <=> Before(w, a, b)
  <2>1. ASSUME Before(m, a, b) PROVE Before(w, a, b)
    <3> PICK i \in 1 .. Len(w) + 1, j \in 1 .. Len(w) + 1 : i < j /\ m[i] = a /\ m[j] = b
      BY <1>3, <2>1 DEF Before
    <3>1. i \in 1 .. Len(w) /\ j \in 1 .. Len(w)
      BY <1>2, <1>3, <1>7
    <3> QED BY <1>2, <1>3, <3>1 DEF Before
  <2>2. ASSUME Before(w, a, b) PROVE Before(m, a, b)
    <3> PICK i \in 1 .. Len(w), j \in 1 .. Len(w) : i < j /\ w[i] = a /\ w[j] = b
      BY <1>2, <2>2 DEF Before
    <3>1. i \in 1 .. Len(w) + 1 /\ j \in 1 .. Len(w) + 1 /\ m[i] = a /\ m[j] = b
      BY <1>2, <1>3
    <3> QED BY <1>3, <3>1 DEF Before
  <2> QED BY <2>1, <2>2
<1>8. ASSUME NEW a \in S, a # q PROVE Before(m, a, q)
  <2> PICK i \in 1 .. Len(w) : w[i] = a
    BY <1>2, <1>8
  <2>1. i \in 1 .. Len(w) + 1 /\ Len(w) + 1 \in 1 .. Len(w) + 1 /\ i < Len(w) + 1 /\ m[i] = a
    BY <1>2, <1>3
  <2> QED BY <1>3, <2>1 DEF Before
<1>9. ASSUME NEW b, Before(m, q, b) PROVE FALSE
  <2> PICK i \in 1 .. Len(w) + 1, j \in 1 .. Len(w) + 1 : i < j /\ m[i] = q /\ m[j] = b
    BY <1>3, <1>9 DEF Before
  <2>1. i \in 1 .. Len(w)
    BY <1>2
  <2>2. w[i] = q
    BY <1>3, <2>1
  <2> QED BY <1>2, <2>1, <2>2
<1> QED BY <1>1, <1>2, <1>3, <1>4, <1>5, <1>6, <1>7, <1>8, <1>9 DEF Line

\* The first n go, the rest keep their order behind them.
First(s, n) == {s[i] : i \in 1 .. n}

LEMMA RestLine ==
  ASSUME NEW s, NEW S, Line(s, S), NEW n \in 0 .. Len(s)
  PROVE  /\ Line(SubSeq(s, n + 1, Len(s)), S \ First(s, n))
         /\ Len(SubSeq(s, n + 1, Len(s))) = Len(s) - n
         /\ \A a, b : Before(SubSeq(s, n + 1, Len(s)), a, b) => Before(s, a, b)
         /\ \A a \in First(s, n), b \in S \ First(s, n) : Before(s, a, b)
<1> DEFINE r == SubSeq(s, n + 1, Len(s))
<1>1. /\ s \in Seq(Queries) /\ Len(s) \in Nat /\ DOMAIN s = 1 .. Len(s)
      /\ \A i, j \in 1 .. Len(s) : s[i] = s[j] => i = j
      /\ \A x : x \in S <=> \E i \in 1 .. Len(s) : s[i] = x
  BY DEF Line, IsInjective, ToSet
<1>2. /\ r \in Seq(Queries) /\ Len(r) = Len(s) - n /\ DOMAIN r = 1 .. Len(s) - n
      /\ \A i \in 1 .. Len(s) - n : r[i] = s[n + i]
  <2>1. /\ r \in Seq(Queries) /\ Len(r) = Len(s) - n
        /\ \A i \in 1 .. Len(s) - n : r[i] = s[n + i]
    BY <1>1, BackFacts
  <2> HIDE DEF r
  <2> QED BY <1>1, <2>1
<1> HIDE DEF r
<1>3. IsInjective(r)
  <2> SUFFICES ASSUME NEW i \in 1 .. Len(s) - n, NEW j \in 1 .. Len(s) - n, r[i] = r[j]
               PROVE i = j
    BY <1>2 DEF IsInjective
  <2>1. n + i \in 1 .. Len(s) /\ n + j \in 1 .. Len(s) /\ s[n + i] = s[n + j]
    BY <1>1, <1>2
  <2>2. n + i = n + j
    BY <1>1, <2>1
  <2> QED BY <1>1, <2>2
<1>4. ASSUME NEW i \in 1 .. Len(s) PROVE s[i] \in First(s, n) <=> i <= n
  <2>1. ASSUME s[i] \in First(s, n) PROVE i <= n
    <3> PICK j \in 1 .. n : s[j] = s[i]
      BY <2>1 DEF First
    <3>1. j \in 1 .. Len(s)
      BY <1>1
    <3> QED BY <1>1, <3>1
  <2>2. ASSUME i <= n PROVE s[i] \in First(s, n)
    BY <1>1, <2>2 DEF First
  <2> QED BY <2>1, <2>2
<1>5. ToSet(r) = S \ First(s, n)
  <2>1. ASSUME NEW x \in ToSet(r) PROVE x \in S \ First(s, n)
    <3> PICK i \in 1 .. Len(s) - n : r[i] = x
      BY <1>2 DEF ToSet
    <3>1. n + i \in 1 .. Len(s) /\ s[n + i] = x /\ ~(n + i <= n)
      BY <1>1, <1>2
    <3> QED BY <1>1, <1>4, <3>1
  <2>2. ASSUME NEW x \in S \ First(s, n) PROVE x \in ToSet(r)
    <3> PICK i \in 1 .. Len(s) : s[i] = x
      BY <1>1
    <3>1. i > n
      BY <1>1, <1>4
    <3>2. i - n \in 1 .. Len(s) - n /\ n + (i - n) = i
      BY <1>1, <3>1
    <3>3. r[i - n] = x
      BY <1>2, <3>2
    <3> QED BY <1>2, <3>2, <3>3 DEF ToSet
  <2> QED BY <2>1, <2>2
<1>6. ASSUME NEW a, NEW b, Before(r, a, b) PROVE Before(s, a, b)
  <2> PICK i \in 1 .. Len(s) - n, j \in 1 .. Len(s) - n : i < j /\ r[i] = a /\ r[j] = b
    BY <1>2, <1>6 DEF Before
  <2>1. n + i \in 1 .. Len(s) /\ n + j \in 1 .. Len(s) /\ n + i < n + j /\ s[n + i] = a /\ s[n + j] = b
    BY <1>1, <1>2
  <2> QED BY <1>1, <2>1 DEF Before
<1>7. ASSUME NEW a \in First(s, n), NEW b \in S \ First(s, n) PROVE Before(s, a, b)
  <2> PICK i \in 1 .. n : s[i] = a
    BY DEF First
  <2> PICK j \in 1 .. Len(s) : s[j] = b
    BY <1>1
  <2>1. j > n
    BY <1>1, <1>4
  <2>2. i \in 1 .. Len(s) /\ i < j
    BY <1>1, <2>1
  <2> QED BY <1>1, <2>2 DEF Before
<1>8. Line(r, S \ First(s, n)) /\ Len(r) = Len(s) - n
  BY <1>2, <1>3, <1>5 DEF Line
<1> QED BY <1>6, <1>7, <1>8 DEF r

\* A sequence has finitely many elements.
LEMMA LineFinite ==
  ASSUME NEW s, NEW S, Line(s, S)
  PROVE  IsFiniteSet(S) /\ Cardinality(S) = Len(s)
<1>1. /\ s \in Seq(Queries) /\ Len(s) \in Nat /\ DOMAIN s = 1 .. Len(s)
      /\ \A i, j \in 1 .. Len(s) : s[i] = s[j] => i = j
      /\ \A x : x \in S <=> \E i \in 1 .. Len(s) : s[i] = x
  BY DEF Line, IsInjective, ToSet
<1> DEFINE f == [i \in 1 .. Len(s) |-> s[i]]
<1>2. f \in Bijection(1 .. Len(s), S)
  <2>1. f \in [1 .. Len(s) -> S]
    BY <1>1
  <2>2. \A i, j \in 1 .. Len(s) : f[i] = f[j] => i = j
    BY <1>1
  <2>3. \A x \in S : \E i \in 1 .. Len(s) : f[i] = x
    BY <1>1
  <2> QED BY <2>1, <2>2, <2>3 DEF Bijection, Injection, Surjection, IsInjective
<1> HIDE DEF f
<1>3. IsFiniteSet(1 .. Len(s)) /\ Cardinality(1 .. Len(s)) = Len(s)
  <2>1. IsFiniteSet(1 .. Len(s)) /\ Cardinality(1 .. Len(s)) = IF 1 > Len(s) THEN 0 ELSE Len(s) - 1 + 1
    BY <1>1, FS_Interval
  <2> QED BY <1>1, <2>1
<1>4. ExistsBijection(1 .. Len(s), S)
  BY <1>2 DEF ExistsBijection
<1> QED BY <1>3, <1>4, FS_Bijection

\* A set of numbers up to a bound has a least one.
LEMMA NatMin ==
  ASSUME NEW S, NEW L \in Nat, S \subseteq 0 .. L, S # {}
  PROVE  Min(S) \in S /\ \A y \in S : Min(S) <= y
<1> DEFINE T == {0 .. n : n \in S}
<1>1. IsFiniteSet(0 .. L)
  BY FS_Interval
<1>2. T \subseteq SUBSET (0 .. L) /\ T # {}
  <2>1. \A n \in S : 0 .. n \subseteq 0 .. L
    OBVIOUS
  <2> QED BY <2>1
<1>3. IsWellFoundedOn(StrictSubsetOrdering(0 .. L), SUBSET (0 .. L))
  <2>1. IsWellFoundedOn(StrictSubsetOrdering(0 .. L), FiniteSubsetsOf(0 .. L))
    BY FS_StrictSubsetOrderingWellFounded
  <2>2. FiniteSubsetsOf(0 .. L) = SUBSET (0 .. L)
    BY <1>1, FS_FiniteSubsetsOfFinite
  <2> QED BY ONLY <2>1, <2>2
<1> HIDE DEF T
<1>4. \E u \in T : \A v \in T : ~ (<<v, u>> \in StrictSubsetOrdering(0 .. L))
  BY <1>2, <1>3, WFMin
<1>5. PICK n \in S : \A v \in T : ~ (<<v, 0 .. n>> \in StrictSubsetOrdering(0 .. L))
  BY <1>4 DEF T
<1>6. ASSUME NEW y \in S PROVE n <= y
  <2> SUFFICES ASSUME y < n PROVE FALSE
    OBVIOUS
  <2>1. 0 .. y \in T
    BY DEF T
  <2>2. 0 .. y \subseteq 0 .. n /\ 0 .. y # 0 .. n /\ 0 .. n \subseteq 0 .. L
    <3>1. n \in 0 .. n /\ n \notin 0 .. y
      OBVIOUS
    <3>2. 0 .. y \subseteq 0 .. n /\ 0 .. n \subseteq 0 .. L
      OBVIOUS
    <3> QED BY <3>1, <3>2
  <2>3. <<0 .. y, 0 .. n>> \in StrictSubsetOrdering(0 .. L)
    BY <2>2 DEF StrictSubsetOrdering
  <2> QED BY <1>5, <2>1, <2>3
<1> QED BY <1>6 DEF Min

-----------------------------------------------------------------------------
(* The invariant of the result cache.                                     *)

\* The queries in the order of their use: the entries are a part of them.
Ranked ==
  /\ Line(recent, ToSet(recent))
  /\ Held \subseteq ToSet(recent)
  /\ \A a, b \in Queries : Before(order, a, b) => Before(recent, a, b)

CacheInv == CacheTypeOK /\ BytesAccounted /\ Ranked

LEMMA CacheTypes ==
  ASSUME CacheTypeOK
  PROVE  /\ Line(order, Held) /\ IsFiniteSet(Held) /\ Cardinality(Held) = Len(order)
         /\ \A q \in Held : q \in Queries /\ entries[q] \in Entries
         /\ Weighty(entries, Held)
<1>1. Line(order, Held)
  BY DEF CacheTypeOK, Line
<1>2. \A q \in Held : q \in Queries /\ entries[q] \in Entries
  BY DEF CacheTypeOK, Held
<1>3. Weighty(entries, Held)
  BY <1>2, CacheAssumption DEF Weighty, Entries
<1> QED BY <1>1, <1>2, <1>3, LineFinite

LEMMA BeforeElements == ASSUME NEW s, NEW S, Line(s, S), NEW a, NEW b, Before(s, a, b)
                        PROVE  a \in S /\ b \in S
BY DEF Line, Before, ToSet

LEMMA CacheInitInv == CacheInit => CacheInv
<1> SUFFICES ASSUME CacheInit PROVE CacheInv
  OBVIOUS
<1>1. /\ order = <<>> /\ recent = <<>> /\ total = 0 /\ Held = {}
      /\ entries = [q \in Queries |-> NoEntry]
  BY DEF CacheInit, Held
<1>2. /\ <<>> \in Seq(Queries) /\ DOMAIN <<>> = {}
  OBVIOUS
<1>3. IsInjective(<<>>) /\ ToSet(<<>>) = {} /\ \A a, b : ~Before(<<>>, a, b)
  BY <1>2 DEF IsInjective, ToSet, Before
<1>4. Weigh(entries, {}) = 0
  BY WeighAt, FS_EmptySet
<1> QED BY <1>1, <1>2, <1>3, <1>4 DEF CacheInv, CacheTypeOK, BytesAccounted, Bytes, Ranked, Line

\* An entry goes, its bytes with it.
LEMMA DropInv == ASSUME CacheInv, NEW q \in Queries, Drop(q), UNCHANGED recent PROVE CacheInv'
<1>1. CacheTypeOK /\ total = Weigh(entries, Held) /\ Ranked
  BY DEF CacheInv, BytesAccounted, Bytes
<1>2. /\ Line(order, Held) /\ IsFiniteSet(Held) /\ Weighty(entries, Held)
      /\ entries \in [Queries -> Entries \cup {NoEntry}]
  BY <1>1, CacheTypes DEF CacheTypeOK
<1>3. /\ entries' = [entries EXCEPT ![q] = NoEntry]
      /\ order' = Without(order, q)
      /\ total' = total - Weigh(entries, {q} \cap Held)
  BY DEF Drop, Bytes
<1>4. Held' = Held \ {q} /\ entries' \in [Queries -> Entries \cup {NoEntry}]
  BY <1>2, <1>3 DEF Held
<1>5. /\ Line(order', Held')
      /\ \A a, b : a # q /\ b # q => (Before(order', a, b) <=> Before(order, a, b))
  BY <1>2, <1>3, <1>4, WithoutLine
<1>6. total' = Weigh(entries', Held') /\ total' \in Nat
  <2>1. /\ IsFiniteSet(Held \ {q}) /\ Weighty(entries, Held \ {q})
        /\ \A x \in Held \ {q} : entries[x].size = entries'[x].size
    BY <1>2, <1>3, FS_Subset DEF Weighty, Held
  <2>2. Weigh(entries', Held \ {q}) = Weigh(entries, Held \ {q})
    BY <2>1, WeighSame
  <2>3. Weigh(entries, Held) = Weigh(entries, {q} \cap Held) + Weigh(entries, Held \ {q})
    <3>1. {q} \cap Held \subseteq Held /\ Held \ ({q} \cap Held) = Held \ {q}
      OBVIOUS
    <3>2. Weigh(entries, Held) = Weigh(entries, {q} \cap Held) + Weigh(entries, Held \ ({q} \cap Held))
      BY <1>2, <3>1, WeighSplit
    <3> QED BY <3>1, <3>2
  <2>4. Weigh(entries, Held \ {q}) \in Nat /\ Weigh(entries, {q} \cap Held) \in Nat
    <3>1. IsFiniteSet({q} \cap Held) /\ Weighty(entries, {q} \cap Held)
      <4>1. {q} \cap Held \in SUBSET Held
        OBVIOUS
      <4> QED BY <1>2, <4>1, FS_Subset DEF Weighty
    <3> QED BY <2>1, <3>1, WeighNat
  <2> QED BY <1>1, <1>3, <1>4, <2>2, <2>3, <2>4
<1>7. CacheTypeOK'
  BY <1>1, <1>4, <1>5, <1>6 DEF CacheTypeOK, Line
<1>8. Ranked'
  <2>1. \A a, b \in Queries : Before(order', a, b) => Before(recent, a, b)
    <3> SUFFICES ASSUME NEW a \in Queries, NEW b \in Queries, Before(order', a, b) PROVE Before(recent, a, b)
      OBVIOUS
    <3>1. a # q /\ b # q
      BY <1>4, <1>5, BeforeElements
    <3> QED BY <1>1, <1>5, <3>1 DEF Ranked
  <2> QED BY <1>1, <1>4, <2>1 DEF Ranked
<1> QED BY <1>6, <1>7, <1>8 DEF CacheInv, BytesAccounted, Bytes

\* A use: the query is the last in both orders.
LEMMA UseRanked ==
  ASSUME CacheInv, NEW q \in Queries
  PROVE  /\ Line(MoveToEnd(order, q), Held \cup {q})
         /\ Line(MoveToEnd(recent, q), ToSet(recent) \cup {q})
         /\ ToSet(MoveToEnd(recent, q)) = ToSet(recent) \cup {q}
         /\ \A a, b : Before(MoveToEnd(order, q), a, b) => Before(MoveToEnd(recent, q), a, b)
<1>1. Ranked /\ Line(order, Held) /\ Line(recent, ToSet(recent)) /\ Held \subseteq ToSet(recent)
  BY CacheTypes DEF CacheInv, Ranked
<1> DEFINE o == MoveToEnd(order, q)
           m == MoveToEnd(recent, q)
<1>2. /\ Line(o, Held \cup {q})
      /\ \A a, b : a # q /\ b # q => (Before(o, a, b) <=> Before(order, a, b))
      /\ \A b : ~Before(o, q, b)
  BY <1>1, MoveLine
<1>3. /\ Line(m, ToSet(recent) \cup {q})
      /\ \A a, b : a # q /\ b # q => (Before(m, a, b) <=> Before(recent, a, b))
      /\ \A a \in ToSet(recent) : a # q => Before(m, a, q)
  BY <1>1, MoveLine
<1> HIDE DEF o, m
<1>4. ASSUME NEW a, NEW b, Before(o, a, b) PROVE Before(m, a, b)
  <2>1. a \in Held \cup {q} /\ b \in Held \cup {q} /\ a # q
    BY <1>2, <1>4, BeforeElements
  <2>2. CASE b = q
    BY <1>1, <1>3, <2>1, <2>2
  <2>3. CASE b # q
    <3>1. a \in Queries /\ b \in Queries /\ Before(order, a, b)
      BY <1>2, <1>4, <2>1, <2>3 DEF Held
    <3>2. Before(recent, a, b)
      BY <1>1, <3>1 DEF Ranked
    <3> QED BY <1>3, <2>1, <2>3, <3>2
  <2> QED BY <2>2, <2>3
<1> QED BY <1>2, <1>3, <1>4 DEF o, m, Line

LEMMA UseInv ==
  ASSUME CacheInv, NEW q \in Held, order' = MoveToEnd(order, q), recent' = MoveToEnd(recent, q),
         UNCHANGED <<entries, total>>
  PROVE  CacheInv'
<1>1. q \in Queries /\ Held \cup {q} = Held /\ Held' = Held
  BY DEF Held
<1>2. /\ Line(order', Held') /\ Line(recent', ToSet(recent) \cup {q})
      /\ ToSet(recent') = ToSet(recent) \cup {q}
      /\ \A a, b : Before(order', a, b) => Before(recent', a, b)
  BY <1>1, UseRanked
<1>3. CacheTypeOK'
  BY <1>1, <1>2 DEF CacheInv, CacheTypeOK, Line
<1>4. Ranked'
  BY <1>1, <1>2 DEF CacheInv, Ranked
<1> QED BY <1>1, <1>3, <1>4 DEF CacheInv, BytesAccounted, Bytes

\* What a store evicts: the oldest, up to the first point at which both bounds
\* hold, which comes before the new entry does.
\* Set's local definitions.
Added(q) == MoveToEnd(order, q)
Booked(q, size) == total - Bytes({q} \cap Held) + size
Evicted(q, size) == Evictions(Added(q), Booked(q, size))

LEMMA Evicts ==
  ASSUME CacheInv, NEW q \in Queries, NEW size \in Sizes, size <= Budget
  PROVE  /\ Evicted(q, size) \in 0 .. Len(Added(q)) /\ Evicted(q, size) # Len(Added(q))
         /\ Line(Added(q), Held \cup {q})
         /\ First(Added(q), Evicted(q, size)) \subseteq Held \ {q}
         /\ Booked(q, size) = Weigh(entries, Held \ {q}) + size
         /\ Booked(q, size) - Weigh(entries, First(Added(q), Evicted(q, size))) <= Budget
         /\ Len(Added(q)) - Evicted(q, size) <= MaxEntries
<1> DEFINE s == MoveToEnd(order, q)
           bytes == total - Bytes({q} \cap Held) + size
           n == Evictions(s, bytes)
           K == Held \ {q}
           L == Len(s)
<1>0. s = MoveToEnd(order, q) /\ bytes = total - Bytes({q} \cap Held) + size /\ n = Evictions(s, bytes)
  OBVIOUS
<1>a. s = Added(q) /\ bytes = Booked(q, size) /\ n = Evicted(q, size)
  BY DEF Added, Booked, Evicted
<1> HIDE DEF s, bytes, n
<1>1. /\ CacheTypeOK /\ total = Weigh(entries, Held)
      /\ Line(order, Held) /\ IsFiniteSet(Held) /\ Weighty(entries, Held)
      /\ Line(s, Held \cup {q}) /\ L \in Nat \ {0} /\ s[L] = q
  BY <1>0, CacheTypes, MoveLine DEF CacheInv, BytesAccounted, Bytes
<1>2. /\ DOMAIN s = 1 .. L
      /\ \A i, j \in 1 .. L : s[i] = s[j] => i = j
      /\ \A x : x \in Held \cup {q} <=> \E i \in 1 .. L : s[i] = x
  BY <1>1 DEF Line, IsInjective, ToSet
<1>3. ASSUME NEW m \in 0 .. L, m # L PROVE First(s, m) \subseteq K
  <2> SUFFICES ASSUME NEW i \in 1 .. m PROVE s[i] \in K
    BY DEF First
  <2>1. i \in 1 .. L /\ i # L /\ L \in 1 .. L
    BY <1>1, <1>3
  <2>2. s[i] \in Held \cup {q}
    BY <1>2, <2>1
  <2>3. s[i] # s[L]
    BY <1>2, <2>1
  <2> QED BY <1>1, <2>2, <2>3
<1>4. First(s, L - 1) = K
  <2>1. L - 1 \in 0 .. L /\ L - 1 # L
    BY <1>1
  <2>2. ASSUME NEW x \in K PROVE x \in First(s, L - 1)
    <3> PICK i \in 1 .. L : s[i] = x
      BY <1>2
    <3>1. i # L
      BY <1>1
    <3>2. i \in 1 .. L - 1
      BY <1>1, <3>1
    <3> QED BY <3>2 DEF First
  <2> QED BY <1>3, <2>1, <2>2
<1>5. bytes = Weigh(entries, K) + size
  <2>1. {q} \cap Held \subseteq Held /\ Held \ ({q} \cap Held) = K
    OBVIOUS
  <2>2. Weigh(entries, Held) = Weigh(entries, {q} \cap Held) + Weigh(entries, Held \ ({q} \cap Held))
    BY <1>1, <2>1, WeighSplit
  <2>3. /\ IsFiniteSet({q} \cap Held) /\ Weighty(entries, {q} \cap Held)
        /\ IsFiniteSet(K) /\ Weighty(entries, K)
    <3>1. {q} \cap Held \in SUBSET Held /\ K \in SUBSET Held
      OBVIOUS
    <3> HIDE DEF K
    <3> QED BY <1>1, <3>1, FS_Subset DEF Weighty
  <2>4. Weigh(entries, {q} \cap Held) \in Nat /\ Weigh(entries, K) \in Nat /\ size \in Nat
    BY <2>3, WeighNat, CacheAssumption
  <2>5. Weigh(entries, Held) = Weigh(entries, {q} \cap Held) + Weigh(entries, K)
    BY <2>1, <2>2
  <2>6. bytes = Weigh(entries, Held) - Weigh(entries, {q} \cap Held) + size
    BY <1>0, <1>1 DEF Bytes
  <2> HIDE DEF K
  <2> QED BY <2>4, <2>5, <2>6
<1> DEFINE Enough == {m \in 0 .. L : \/ m = L
                                     \/ /\ bytes - Bytes({s[i] : i \in 1 .. m}) <= Budget
                                        /\ L - m <= MaxEntries}
<1>6. n = Min(Enough)
  BY <1>0 DEF Evictions
<1>7. \A m \in 0 .. L : Bytes({s[i] : i \in 1 .. m}) = Weigh(entries, First(s, m))
  BY DEF Bytes, First
<1>8. L - 1 \in Enough
  <2>1. bytes - Weigh(entries, K) = size
    <3>1. IsFiniteSet(K) /\ Weighty(entries, K)
      <4>1. K \in SUBSET Held
        OBVIOUS
      <4> HIDE DEF K
      <4> QED BY <1>1, <4>1, FS_Subset DEF Weighty
    <3>2. Weigh(entries, K) \in Nat /\ size \in Nat
      BY <3>1, WeighNat, CacheAssumption
    <3> HIDE DEF K
    <3> QED BY <1>5, <3>2
  <2>2. L - 1 \in 0 .. L /\ L - (L - 1) <= MaxEntries
    BY <1>1, CacheAssumption
  <2>3. bytes - Bytes({s[i] : i \in 1 .. L - 1}) <= Budget
    BY <1>4, <1>7, <2>1, <2>2
  <2> QED BY <2>2, <2>3
<1>9. n \in Enough /\ n <= L - 1
  <2>1. Enough \subseteq 0 .. L /\ Enough # {}
    BY <1>8
  <2> HIDE DEF Enough
  <2>2. Min(Enough) \in Enough /\ \A y \in Enough : Min(Enough) <= y
    BY <1>1, <2>1, NatMin
  <2> QED BY <1>6, <1>8, <2>2
<1>10. n \in 0 .. L /\ n # L
  BY <1>1, <1>9
<1>11. bytes - Weigh(entries, First(s, n)) <= Budget /\ L - n <= MaxEntries
  BY <1>7, <1>9, <1>10
<1>12. First(s, n) \subseteq K
  BY <1>3, <1>10
<1> QED BY <1>a, <1>1, <1>5, <1>10, <1>11, <1>12

\* A store, step by step: what is evicted goes from the front, and the books
\* say what is left.
LEMMA Stores ==
  ASSUME CacheInv, NEW q \in Queries, NEW size \in Sizes, size <= Budget, Set(q, size)
  PROVE  /\ CacheInv'
         /\ total' <= Budget /\ Len(order') <= MaxEntries /\ q \in Held'
         /\ \A gone \in (Held \ {q}) \ Held', kept \in Held' \ {q} : Before(recent, gone, kept)
<1> DEFINE added == MoveToEnd(order, q)
           bytes == total - Bytes({q} \cap Held) + size
           n == Evictions(added, bytes)
           fresh == [size |-> size, age |-> NewAge]
           S == First(added, n)
           K == Held \ {q}
<1>1. /\ entries' = [x \in Queries |-> CASE x \in {added[i] : i \in 1 .. n} -> NoEntry
                                         [] x = q -> fresh
                                         [] OTHER -> entries[x]]
      /\ order' = SubSeq(added, n + 1, Len(added))
      /\ total' = bytes - Bytes({added[i] : i \in 1 .. n})
      /\ recent' = MoveToEnd(recent, q)
  <2>1. ~(size > Budget)
    BY CacheAssumption
  <2> QED BY <2>1 DEF Set
<1>2. fresh \in Entries /\ fresh # NoEntry /\ fresh.size = size /\ size \in Nat
  BY CacheAssumption DEF Entries, Ages, NewAge
<1>3. /\ n \in 0 .. Len(added) /\ n # Len(added)
      /\ Line(added, Held \cup {q})
      /\ S \subseteq K
      /\ bytes = Weigh(entries, K) + size
      /\ bytes - Weigh(entries, S) <= Budget
      /\ Len(added) - n <= MaxEntries
  <2>1. added = Added(q) /\ bytes = Booked(q, size) /\ n = Evicted(q, size)
    BY DEF Added, Booked, Evicted
  <2> HIDE DEF added, bytes, n, fresh
  <2> QED BY <2>1, Evicts
<1>4. {added[i] : i \in 1 .. n} = S /\ Bytes({added[i] : i \in 1 .. n}) = Weigh(entries, S)
  BY DEF First, Bytes
<1>5. /\ CacheTypeOK /\ Ranked /\ Line(order, Held) /\ IsFiniteSet(Held) /\ Weighty(entries, Held)
      /\ Held \subseteq Queries /\ entries \in [Queries -> Entries \cup {NoEntry}]
  BY CacheTypes DEF CacheInv, CacheTypeOK
<1>6. /\ Line(SubSeq(added, n + 1, Len(added)), (Held \cup {q}) \ S)
      /\ Len(SubSeq(added, n + 1, Len(added))) = Len(added) - n
      /\ \A a, b : Before(SubSeq(added, n + 1, Len(added)), a, b) => Before(added, a, b)
      /\ \A a \in S, b \in (Held \cup {q}) \ S : Before(added, a, b)
  <2> HIDE DEF added, n, S
  <2>1. /\ Line(SubSeq(added, n + 1, Len(added)), (Held \cup {q}) \ First(added, n))
        /\ Len(SubSeq(added, n + 1, Len(added))) = Len(added) - n
        /\ \A a, b : Before(SubSeq(added, n + 1, Len(added)), a, b) => Before(added, a, b)
        /\ \A a \in First(added, n), b \in (Held \cup {q}) \ First(added, n) : Before(added, a, b)
    BY <1>3, RestLine
  <2> QED BY <2>1 DEF S
<1>7. /\ Line(added, Held \cup {q})
      /\ Line(MoveToEnd(recent, q), ToSet(recent) \cup {q})
      /\ ToSet(MoveToEnd(recent, q)) = ToSet(recent) \cup {q}
      /\ \A a, b : Before(added, a, b) => Before(MoveToEnd(recent, q), a, b)
  BY UseRanked
<1>8. \A a, b : a # q /\ b # q => (Before(added, a, b) <=> Before(order, a, b))
  BY <1>5, MoveLine
<1> HIDE DEF added, bytes, n, fresh, S
<1>9. entries' = [x \in Queries |-> CASE x \in S -> NoEntry [] x = q -> fresh [] OTHER -> entries[x]]
  BY <1>1, <1>4
<1>10. /\ q \notin S
       /\ entries'[q] = fresh
       /\ \A x \in S : entries'[x] = NoEntry
       /\ \A x \in Queries \ (S \cup {q}) : entries'[x] = entries[x]
       /\ entries' \in [Queries -> Entries \cup {NoEntry}]
  <2>1. q \notin S /\ S \subseteq Queries
    BY <1>3, <1>5
  <2>2. \A x \in Queries : entries'[x] = CASE x \in S -> NoEntry [] x = q -> fresh [] OTHER -> entries[x]
    BY <1>9
  <2>3. ASSUME NEW x \in Queries PROVE entries'[x] \in Entries \cup {NoEntry}
    <3>1. CASE x \in S
      <4>1. x # q
        BY <2>1, <3>1
      <4> QED BY <2>2, <3>1, <4>1
    <3>2. CASE x \notin S /\ x = q
      BY <1>2, <2>2, <3>2
    <3>3. CASE x \notin S /\ x # q
      BY <1>5, <2>2, <3>3
    <3> QED BY <3>1, <3>2, <3>3
  <2>4. entries' \in [Queries -> Entries \cup {NoEntry}]
    BY <1>9, <2>3
  <2> QED BY <2>1, <2>2, <2>4
<1>11. Held' = (Held \cup {q}) \ S
  BY <1>2, <1>5, <1>10 DEF Held
<1>12. Line(order', Held')
  BY <1>1, <1>6, <1>11
<1>13. total' = Weigh(entries', Held') /\ total' \in Nat /\ total' <= Budget
  <2>1. /\ IsFiniteSet(K) /\ Weighty(entries, K) /\ IsFiniteSet(K \ S) /\ Weighty(entries, K \ S)
        /\ IsFiniteSet(S) /\ Weighty(entries, S)
    <3>1. K \in SUBSET Held /\ K \ S \in SUBSET Held /\ S \in SUBSET Held
      BY <1>3
    <3> HIDE DEF K
    <3> QED BY <1>5, <3>1, FS_Subset DEF Weighty
  <2>2. /\ Weigh(entries, K) \in Nat /\ Weigh(entries, K \ S) \in Nat /\ Weigh(entries, S) \in Nat
        /\ Weigh(entries, K) = Weigh(entries, S) + Weigh(entries, K \ S)
    BY <1>3, <2>1, WeighNat, WeighSplit
  <2>3. Held' \ {q} = K \ S /\ q \in Held'
    BY <1>10, <1>11
  <2>4. IsFiniteSet(Held')
    BY <1>12, LineFinite
  <2>5. \A x \in K \ S : x \in Queries \ (S \cup {q})
    BY <1>5
  <2>6. \A x \in K \ S : entries[x].size = entries'[x].size
    BY <1>10, <2>5
  <2>7. Weighty(entries', Held')
    <3> SUFFICES ASSUME NEW x \in Held' PROVE entries'[x].size \in Nat
      BY DEF Weighty
    <3>1. CASE x = q
      BY <1>2, <1>10, <3>1
    <3>2. CASE x # q
      BY <2>1, <2>3, <2>6, <3>2 DEF Weighty
    <3> QED BY <3>1, <3>2
  <2>8. Weigh(entries', Held') = Weigh(entries', Held' \ {q}) + entries'[q].size
    BY <2>3, <2>4, <2>7, WeighAdd
  <2>9. Weigh(entries, K \ S) = Weigh(entries', K \ S)
    BY <2>1, <2>6, WeighSame
  <2>10. Weigh(entries', Held') = Weigh(entries, K \ S) + size
    BY <1>2, <1>10, <2>3, <2>8, <2>9
  <2>a. total' = bytes - Weigh(entries, S)
    BY <1>1, <1>4
  <2>b. bytes = Weigh(entries, K) + size
    BY <1>3
  <2>11. total' = (Weigh(entries, K) + size) - Weigh(entries, S)
    <3> HIDE DEF K
    <3> QED BY ONLY <2>a, <2>b, Zenon
  <2>12. total' <= Budget
    BY <1>3, <2>a
  <2> HIDE DEF K
  <2> QED BY <1>2, <2>2, <2>10, <2>11, <2>12
<1>14. CacheTypeOK'
  <2>1. recent' \in Seq(Queries)
    BY <1>1, <1>7 DEF Line
  <2> QED BY <1>10, <1>12, <1>13, <2>1 DEF CacheTypeOK, Line
<1>15. Ranked'
  <2>1. Line(recent', ToSet(recent')) /\ Held' \subseteq ToSet(recent')
    BY <1>1, <1>5, <1>7, <1>11 DEF Ranked
  <2>2. \A a, b : Before(order', a, b) => Before(recent', a, b)
    BY <1>1, <1>6, <1>7
  <2> QED BY <2>1, <2>2 DEF Ranked
<1>16. Len(order') <= MaxEntries /\ q \in Held'
  BY <1>1, <1>3, <1>6, <1>10, <1>11
<1>17. ASSUME NEW gone \in (Held \ {q}) \ Held', NEW kept \in Held' \ {q}
       PROVE  Before(recent, gone, kept)
  <2>1. gone \in S /\ kept \in (Held \cup {q}) \ S /\ gone # q /\ kept # q
    BY <1>11
  <2>2. Before(order, gone, kept)
    BY <1>6, <1>8, <2>1
  <2>3. gone \in Queries /\ kept \in Queries
    BY <1>5, <1>11
  <2> QED BY <1>5, <2>2, <2>3 DEF Ranked
<1>18. BytesAccounted'
  BY <1>13 DEF BytesAccounted, Bytes
<1> HIDE DEF K
<1> QED BY <1>13, <1>14, <1>15, <1>16, <1>17, <1>18 DEF CacheInv

\* A redraw changes what an entry weighs, and nothing else about it.
LEMMA PatchInv ==
  ASSUME CacheInv, NEW q \in Held, NEW size \in Sizes,
         entries' = [entries EXCEPT ![q].size = size],
         total' = total + size - entries[q].size,
         UNCHANGED <<order, recent>>
  PROVE  CacheInv'
<1>1. /\ CacheTypeOK /\ Ranked /\ Line(order, Held) /\ IsFiniteSet(Held) /\ Weighty(entries, Held)
      /\ entries \in [Queries -> Entries \cup {NoEntry}]
      /\ q \in Queries /\ entries[q] \in Entries /\ total = Weigh(entries, Held)
  BY CacheTypes DEF CacheInv, CacheTypeOK, BytesAccounted, Bytes
<1> DEFINE r == [entries[q] EXCEPT !.size = size]
<1>2. r \in Entries /\ r.size = size /\ r # NoEntry /\ size \in Nat
  BY <1>1, CacheAssumption DEF Entries
<1>3. entries' = [entries EXCEPT ![q] = r]
  BY <1>1
<1> HIDE DEF r
<1>4. /\ entries' \in [Queries -> Entries \cup {NoEntry}] /\ Held' = Held
      /\ entries'[q].size = size
      /\ \A x \in Held \ {q} : entries'[x].size = entries[x].size
  BY <1>1, <1>2, <1>3 DEF Held
<1>5. Weighty(entries', Held) /\ IsFiniteSet(Held \ {q}) /\ Weighty(entries, Held \ {q})
  BY <1>1, <1>2, <1>4, FS_Subset DEF Weighty
<1>6. /\ Weigh(entries, Held) = Weigh(entries, Held \ {q}) + entries[q].size
      /\ Weigh(entries', Held) = Weigh(entries', Held \ {q}) + entries'[q].size
  BY <1>1, <1>5, WeighAdd
<1>7. Weigh(entries', Held \ {q}) = Weigh(entries, Held \ {q})
  <2> DEFINE rest == Held \ {q}
  <2>1. IsFiniteSet(rest) /\ \A x \in rest : entries[x].size = entries'[x].size
    BY <1>4, <1>5
  <2> HIDE DEF rest
  <2>2. Weigh(entries, rest) = Weigh(entries', rest)
    BY ONLY <2>1, WeighSame
  <2> QED BY <2>2 DEF rest
<1>8. Weigh(entries, Held \ {q}) \in Nat /\ entries[q].size \in Nat
  BY <1>1, <1>5, WeighNat DEF Weighty
<1>9. total' = Weigh(entries', Held') /\ total' \in Nat
  BY <1>1, <1>2, <1>4, <1>6, <1>7, <1>8
<1>10. CacheTypeOK' /\ Ranked'
  BY <1>1, <1>4, <1>9 DEF CacheTypeOK, Ranked
<1> QED BY <1>9, <1>10 DEF CacheInv, BytesAccounted, Bytes

\* Time passes over all entries alike, whatever they weigh.
LEMMA AgeInv ==
  ASSUME CacheInv, NEW step \in Ages, AgeEntries(step)
  PROVE  CacheInv'
<1>1. /\ CacheTypeOK /\ Ranked /\ Line(order, Held) /\ IsFiniteSet(Held)
      /\ entries \in [Queries -> Entries \cup {NoEntry}]
      /\ \A q \in Held : entries[q] \in Entries
      /\ total = Weigh(entries, Held)
  BY CacheTypes DEF CacheInv, CacheTypeOK, BytesAccounted, Bytes
<1>2. UNCHANGED <<order, total, recent>>
  BY DEF AgeEntries
<1>3. ASSUME NEW q \in Held
      PROVE  entries'[q] \in Entries /\ entries'[q].size = entries[q].size
  <2> DEFINE a == entries[q].age
             b == Later(a, step)
  <2>1. a \in Ages /\ entries[q].size \in Sizes /\ q \in Queries
    BY <1>1 DEF Entries, Held
  <2>2. b \in Ages
    BY <2>1 DEF Ages, Later
  <2>3. entries'[q] = [entries[q] EXCEPT !.age = b]
    BY <2>1 DEF AgeEntries
  <2> HIDE DEF a, b
  <2> QED BY <1>1, <2>1, <2>2, <2>3 DEF Entries
<1>4. \A q \in Queries \ Held : entries'[q] = NoEntry
  BY DEF AgeEntries
<1>5. entries' \in [Queries -> Entries \cup {NoEntry}] /\ Held' = Held
  <2>1. entries' = [q \in Queries |-> entries'[q]]
    BY DEF AgeEntries
  <2>2. \A q \in Queries : entries'[q] \in Entries \cup {NoEntry}
    BY <1>3, <1>4
  <2>3. Held' = Held
    BY <1>3, <1>4, CacheAssumption DEF Held
  <2> QED BY <2>1, <2>2, <2>3
<1>6. Weigh(entries', Held) = Weigh(entries, Held)
  BY <1>1, <1>3, WeighSame
<1> QED BY <1>1, <1>2, <1>5, <1>6 DEF CacheInv, CacheTypeOK, Ranked, BytesAccounted, Bytes

\* What time does to the ages it finds: the monotonic clock counts what the
\* machine was awake for, the wall clock the rest too and what it is set by.
Clocks == {a \in Ages : a.mono + a.asleep = a.real /\ a.wall = a.real + a.ahead}

LEMMA Steps ==
  ASSUME Tick \/ Sleep \/ AdjustWall
  PROVE  \E step \in Clocks : AgeEntries(step)
<1>1. /\ [mono |-> 1, wall |-> 1, real |-> 1, asleep |-> 0, ahead |-> 0] \in Clocks
      /\ [mono |-> 0, wall |-> 1, real |-> 1, asleep |-> 1, ahead |-> 0] \in Clocks
  BY DEF Clocks, Ages
<1>2. \A n \in {-1, 1} : [mono |-> 0, wall |-> n, real |-> 0, asleep |-> 0, ahead |-> n] \in Clocks
  BY DEF Clocks, Ages
<1> QED BY <1>1, <1>2 DEF Tick, Sleep, AdjustWall

LEMMA CacheStep == CacheInv /\ [CacheNext]_cacheVars => CacheInv'
<1> SUFFICES ASSUME CacheInv, [CacheNext]_cacheVars PROVE CacheInv'
  OBVIOUS
<1>1. CASE UNCHANGED cacheVars
  BY <1>1 DEF cacheVars, CacheInv, CacheTypeOK, Ranked, BytesAccounted, Bytes, Held
<1>2. ASSUME NEW q \in Queries, Get(q) \/ GetStale(q) \/ InvalidateResult(q) \/ PatchCharts(q)
      PROVE  CacheInv'
  <2>1. CASE Get(q)
    BY <2>1, UseInv DEF Get, IsFresh
  <2>2. CASE GetStale(q)
    <3>1. CASE Servable(q)
      BY <2>2, <3>1, UseInv DEF GetStale, Servable
    <3>2. CASE ~Servable(q)
      BY <2>2, <3>2, DropInv DEF GetStale
    <3> QED BY <3>1, <3>2
  <2>3. CASE InvalidateResult(q)
    BY <2>3, DropInv DEF InvalidateResult
  <2>4. CASE PatchCharts(q)
    <3>1. CASE Drop(q)
      BY <2>4, <3>1, DropInv DEF PatchCharts
    <3>2. CASE ~Drop(q)
      <4> PICK size \in Sizes : /\ entries' = [entries EXCEPT ![q].size = size]
                                /\ total' = total + size - entries[q].size
                                /\ UNCHANGED order
        BY <2>4, <3>2 DEF PatchCharts
      <4> QED BY <2>4, PatchInv DEF PatchCharts
    <3> QED BY <3>1, <3>2
  <2> QED BY <1>2, <2>1, <2>2, <2>3, <2>4
<1>3. ASSUME NEW q \in Queries, NEW size \in Sizes, Set(q, size) PROVE CacheInv'
  <2>1. CASE size > Budget
    <3>1. Drop(q) /\ UNCHANGED recent
      BY <1>3, <2>1 DEF Set
    <3> QED BY <3>1, DropInv
  <2>2. CASE ~(size > Budget)
    <3>1. size <= Budget
      BY <2>2, CacheAssumption
    <3> QED BY <1>3, <3>1, Stores
  <2> QED BY <2>1, <2>2
<1>4. CASE Clear
  <2>1. /\ order' = <<>> /\ total' = 0 /\ Held' = {} /\ recent' = recent
        /\ entries' = [q \in Queries |-> NoEntry]
    BY <1>4 DEF Clear, Held
  <2>2. /\ <<>> \in Seq(Queries) /\ DOMAIN <<>> = {}
    OBVIOUS
  <2>3. IsInjective(<<>>) /\ ToSet(<<>>) = {} /\ \A a, b : ~Before(<<>>, a, b)
    BY <2>2 DEF IsInjective, ToSet, Before
  <2>4. Weigh(entries', {}) = 0
    BY WeighAt, FS_EmptySet
  <2> QED BY <2>1, <2>2, <2>3, <2>4 DEF CacheInv, CacheTypeOK, BytesAccounted, Bytes, Ranked
<1>5. CASE Tick \/ Sleep \/ AdjustWall
  <2>1. PICK step \in Ages : AgeEntries(step)
    BY <1>5, Steps DEF Clocks
  <2> QED BY <2>1, AgeInv
<1> QED BY <1>1, <1>2, <1>3, <1>4, <1>5 DEF CacheNext

LEMMA CacheInvariance == CacheSpec => []CacheInv
<1> QED BY CacheInitInv, CacheStep, PTL DEF CacheSpec

\* Entries, order and total keep their shape, and the order of the OrderedDict
\* is the entries, each once, whatever is stored, served, dropped or redrawn.
THEOREM CacheTypeCorrect == CacheSpec => []CacheTypeOK
<1>1. CacheInv => CacheTypeOK
  BY DEF CacheInv
<1> QED BY <1>1, CacheInvariance, PTL

\* _total_bytes is what the entries really weigh, through every overwrite,
\* eviction, refused payload and redraw.
THEOREM BytesAreAccounted == CacheSpec => []BytesAccounted
<1>1. CacheInv => BytesAccounted
  BY DEF CacheInv
<1> QED BY <1>1, CacheInvariance, PTL

\* The two clocks and the history agree, for every entry.
Clocked == \A q \in Held : entries[q].age \in Clocks

\* Entries that keep their age keep agreeing.
LEMMA KeepsClocks ==
  ASSUME Clocked, \A x \in Held' : entries'[x].age = NewAge \/ (x \in Held /\ entries'[x].age = entries[x].age)
  PROVE  Clocked'
<1>1. NewAge \in Clocks
  BY DEF NewAge, Clocks, Ages
<1> QED BY <1>1 DEF Clocked

\* What is left after an entry is dropped is as it was.
LEMMA DropKeepsClocks ==
  ASSUME Clocked, CacheTypeOK, NEW q \in Queries, Drop(q)
  PROVE  Clocked'
<1>1. entries' = [entries EXCEPT ![q] = NoEntry]
  BY DEF Drop
<1>2. ASSUME NEW x \in Held' PROVE x \in Held /\ entries'[x].age = entries[x].age
  <2>1. x \in Queries /\ entries'[x] # NoEntry /\ x # q
    BY <1>1 DEF Held, CacheTypeOK
  <2> QED BY <1>1, <2>1 DEF Held, CacheTypeOK
<1> QED BY <1>2, KeepsClocks

\* A store begins an age, a redraw keeps it, and time adds to all of them what
\* the clocks agree on.
LEMMA ClockedStep == CacheInv /\ Clocked /\ [CacheNext]_cacheVars => Clocked'
<1> SUFFICES ASSUME CacheInv, Clocked, [CacheNext]_cacheVars PROVE Clocked'
  OBVIOUS
<1>0. CacheTypeOK /\ entries \in [Queries -> Entries \cup {NoEntry}]
  BY DEF CacheInv, CacheTypeOK
<1>1. CASE UNCHANGED entries
  BY <1>1 DEF Clocked, Held
<1>2. ASSUME NEW q \in Queries, NEW size \in Sizes, Set(q, size) PROVE Clocked'
  <2>1. CASE size > Budget
    BY <1>0, <1>2, <2>1, DropKeepsClocks DEF Set
  <2>2. CASE ~(size > Budget)
    <3> DEFINE fresh == [size |-> size, age |-> NewAge]
               evicted == {MoveToEnd(order, q)[i] :
                 i \in 1 .. Evictions(MoveToEnd(order, q), total - Bytes({q} \cap Held) + size)}
    <3>1. entries' = [x \in Queries |-> CASE x \in evicted -> NoEntry [] x = q -> fresh [] OTHER -> entries[x]]
      BY <1>2, <2>2 DEF Set
    <3> HIDE DEF evicted, fresh
    <3>2. ASSUME NEW x \in Held'
          PROVE  entries'[x].age = NewAge \/ (x \in Held /\ entries'[x].age = entries[x].age)
      <4>1. x \in Queries /\ entries'[x] # NoEntry
        BY DEF Held
      <4>2. entries'[x] = fresh \/ entries'[x] = entries[x]
        BY <3>1, <4>1
      <4> QED BY <4>1, <4>2 DEF Held, fresh
    <3> QED BY <3>2, KeepsClocks
  <2> QED BY <2>1, <2>2
<1>3. ASSUME NEW q \in Queries, PatchCharts(q) PROVE Clocked'
  <2>1. CASE Drop(q)
    BY <1>0, <2>1, DropKeepsClocks
  <2>2. CASE ~Drop(q)
    <3> PICK size \in Sizes : entries' = [entries EXCEPT ![q].size = size]
      BY <1>3, <2>2 DEF PatchCharts
    <3>1. q \in Held /\ entries[q] \in Entries
      BY <1>0, <1>3 DEF PatchCharts, Held
    <3>2. ASSUME NEW x \in Held'
          PROVE  x \in Held /\ entries'[x].age = entries[x].age
      <4>1. x \in Queries /\ entries'[x] # NoEntry
        BY DEF Held
      <4>2. CASE x = q
        BY <1>0, <3>1, <4>2 DEF Entries
      <4>3. CASE x # q
        BY <1>0, <4>1, <4>3 DEF Held
      <4> QED BY <4>2, <4>3
    <3> QED BY <3>2, KeepsClocks
  <2> QED BY <2>1, <2>2
<1>4. CASE Clear
  BY <1>4 DEF Clear, Clocked, Held
<1>5. CASE Tick \/ Sleep \/ AdjustWall
  <2>1. PICK step \in Clocks : AgeEntries(step)
    BY <1>5, Steps
  <2>2. ASSUME NEW x \in Held' PROVE entries'[x].age \in Clocks
    <3>1. x \in Held /\ x \in Queries
      <4>1. x \in Queries /\ entries'[x] # NoEntry
        BY DEF Held
      <4> QED BY <2>1, <4>1 DEF AgeEntries
    <3>2. entries[x] \in Entries /\ entries[x].age \in Clocks
      BY <1>0, <3>1 DEF Held, Clocked
    <3>3. entries'[x].age = Later(entries[x].age, step)
      BY <2>1, <3>1, <3>2 DEF AgeEntries, Entries
    <3>4. Later(entries[x].age, step) \in Clocks
      BY <3>2, <2>1 DEF Clocks, Ages, Later
    <3> QED BY <3>3, <3>4
  <2> QED BY <2>2 DEF Clocked
<1>6. ASSUME NEW q \in Queries, Get(q) \/ GetStale(q) \/ InvalidateResult(q) PROVE Clocked'
  <2>1. UNCHANGED entries \/ Drop(q)
    BY <1>6 DEF Get, GetStale, InvalidateResult
  <2> QED BY <1>0, <1>1, <2>1, DropKeepsClocks
<1> QED BY <1>1, <1>2, <1>3, <1>4, <1>5, <1>6 DEF CacheNext, cacheVars

LEMMA Larger ==
  ASSUME NEW a \in Int, NEW b \in Int
  PROVE  Max({a, b}) \in {a, b} /\ Max({a, b}) >= a /\ Max({a, b}) >= b
<1>1. \E m \in {a, b} : \A y \in {a, b} : m >= y
  OBVIOUS
<1> QED BY <1>1 DEF Max

LEMMA Smaller ==
  ASSUME NEW a \in Int, NEW b \in Int
  PROVE  Min({a, b}) \in {a, b} /\ Min({a, b}) <= a /\ Min({a, b}) <= b
<1>1. \E m \in {a, b} : \A y \in {a, b} : m <= y
  OBVIOUS
<1> QED BY <1>1 DEF Min

LEMMA AgeBounds == ASSUME NEW x \in Entries
                   PROVE  /\ Age(x) \in {x.age.mono, x.age.wall, 0}
                          /\ Age(x) >= x.age.mono /\ Age(x) >= x.age.wall
<1> DEFINE a == x.age.mono
           b == x.age.wall
<1>1. a \in Nat /\ b \in Int
  BY DEF Entries, Ages
<1>2. Age(x) = CHOOSE m \in {a, b, 0} : \A y \in {a, b, 0} : m >= y
  BY DEF Age, Max
<1> HIDE DEF a, b
<1>3. \E m \in {a, b, 0} : \A y \in {a, b, 0} : m >= y
  BY <1>1
<1> DEFINE m == CHOOSE m \in {a, b, 0} : \A y \in {a, b, 0} : m >= y
<1>4. m \in {a, b, 0} /\ \A y \in {a, b, 0} : m >= y
  BY <1>3
<1> QED BY <1>1, <1>2, <1>4 DEF a, b

\* However an entry was read, redrawn and moved, its interval counts from the
\* run it is of: fresh no longer than that, but for what both clocks lost, and
\* no shorter unless the wall clock was set ahead (CacheEntry.age_ms,
\* patch_charts).
THEOREM FreshForInterval == CacheSpec => []FreshForItsInterval
<1>1. CacheInv /\ Clocked => FreshForItsInterval
  <2> SUFFICES ASSUME CacheInv, Clocked, NEW q \in Held
               PROVE  LET age == entries[q].age
                      IN  /\ IsFresh(q) => age.real - Unseen(age) < Ttl[q]
                          /\ Servable(q) => age.real - Unseen(age) <= Ttl[q] + Grace
                          /\ age.real + Max({age.ahead, 0}) < Ttl[q] => IsFresh(q)
    BY DEF FreshForItsInterval
  <2> DEFINE age == entries[q].age
             old == Age(entries[q])
             back == Max({-age.ahead, 0})
             forth == Max({age.ahead, 0})
             unseen == Min({age.asleep, back})
  <2>1. entries[q] \in Entries /\ q \in Queries /\ Ttl[q] \in Nat /\ Grace \in Nat
    BY CacheTypes, CacheAssumption DEF CacheInv
  <2>2. /\ age.mono \in Nat /\ age.wall \in Int /\ age.real \in Nat /\ age.asleep \in Nat /\ age.ahead \in Int
        /\ age.mono + age.asleep = age.real /\ age.wall = age.real + age.ahead
    BY DEF Clocked, Clocks, Ages
  <2>3. old \in {age.mono, age.wall, 0} /\ old >= age.mono /\ old >= age.wall
    BY <2>1, AgeBounds
  <2>4. /\ back \in {-age.ahead, 0} /\ back >= -age.ahead /\ back >= 0
        /\ forth \in {age.ahead, 0} /\ forth >= age.ahead /\ forth >= 0
    <3>1. \A i \in Int : Max({i, 0}) \in {i, 0} /\ Max({i, 0}) >= i /\ Max({i, 0}) >= 0
      BY Larger
    <3> HIDE DEF age
    <3>2. age.ahead \in Int /\ -age.ahead \in Int
      BY <2>2
    <3> QED BY <3>1, <3>2
  <2>5. unseen \in {age.asleep, back} /\ unseen <= age.asleep /\ unseen <= back
    <3>1. back \in Int
      BY <2>2, <2>4
    <3>2. age.asleep \in Int
      BY <2>2
    <3> HIDE DEF age, back
    <3> QED BY <3>1, <3>2, Smaller
  <2>6. Unseen(age) = unseen
    BY DEF Unseen
  <2> HIDE DEF age, old, back, forth, unseen
  <2>7. age.real - unseen <= old /\ old <= age.real + forth
    BY <2>2, <2>3, <2>4, <2>5
  <2>8. /\ IsFresh(q) <=> old < Ttl[q]
        /\ Servable(q) <=> old <= Ttl[q] + Grace
    BY DEF IsFresh, Servable, old
  <2>9. old \in Int /\ unseen \in Int /\ forth \in Int
    BY <2>2, <2>3, <2>4, <2>5
  <2>10. /\ IsFresh(q) => age.real - unseen < Ttl[q]
         /\ Servable(q) => age.real - unseen <= Ttl[q] + Grace
         /\ age.real + forth < Ttl[q] => IsFresh(q)
    BY <2>1, <2>2, <2>7, <2>8, <2>9
  <2> QED BY <2>6, <2>10 DEF age, forth
<1>2. CacheInit => Clocked
  BY DEF CacheInit, Clocked, Held
<1> QED BY <1>1, <1>2, CacheInvariance, ClockedStep, PTL DEF CacheSpec

\* However far redraws let the cache grow, a store ends within the budget and
\* the number of entries, with the entry it stored.
THEOREM StoresRestoreBounds == CacheSpec => StoreRestoresBounds
<1>1. CacheInv /\ CacheInv' /\ [CacheNext]_cacheVars =>
        [\A q \in Queries, size \in Sizes :
           Set(q, size) /\ size <= Budget =>
             /\ Bytes(Held)' <= Budget /\ Cardinality(Held') <= MaxEntries
             /\ entries'[q] # NoEntry]_cacheVars
  <2> SUFFICES ASSUME CacheInv, CacheInv', NEW q \in Queries, NEW size \in Sizes,
                      Set(q, size), size <= Budget
               PROVE  /\ Bytes(Held)' <= Budget /\ Cardinality(Held') <= MaxEntries
                      /\ entries'[q] # NoEntry
    OBVIOUS
  <2>1. total' <= Budget /\ Len(order') <= MaxEntries /\ q \in Held'
    BY Stores
  <2>2. Line(order, Held)'
    BY DEF CacheInv, CacheTypeOK, Line
  <2>3. Cardinality(Held') = Len(order')
    BY <2>2, LineFinite DEF Line
  <2>4. total' = Bytes(Held)'
    BY DEF CacheInv, BytesAccounted
  <2> QED BY <2>1, <2>3, <2>4 DEF Held
<1> QED BY <1>1, CacheInvariance, PTL DEF CacheSpec, StoreRestoresBounds

\* A store evicts what was stored or served before everything it keeps: the
\* order of the OrderedDict is the order of use.
THEOREM EvictsOldest == CacheSpec => EvictsLeastRecentlyUsed
<1>1. CacheInv /\ [CacheNext]_cacheVars =>
        [\A q \in Queries, size \in Sizes :
           Set(q, size) =>
             \A gone \in (Held \ {q}) \ Held', kept \in Held' \ {q} :
               \E i, j \in DOMAIN recent :
                 i < j /\ recent[i] = gone /\ recent[j] = kept]_cacheVars
  <2> SUFFICES ASSUME CacheInv, NEW q \in Queries, NEW size \in Sizes, Set(q, size),
                      NEW gone \in (Held \ {q}) \ Held', NEW kept \in Held' \ {q}
               PROVE  Before(recent, gone, kept)
    BY DEF Before
  <2>1. CASE size > Budget
    <3>1. entries' = [entries EXCEPT ![q] = NoEntry]
      BY <2>1 DEF Set, Drop
    <3>2. entries \in [Queries -> Entries \cup {NoEntry}]
      BY DEF CacheInv, CacheTypeOK
    <3>3. Held \ {q} \subseteq Held'
      BY <3>1, <3>2 DEF Held
    <3> QED BY <3>3
  <2>2. CASE ~(size > Budget)
    <3>1. size <= Budget
      BY <2>2, CacheAssumption
    <3> QED BY <3>1, Stores
  <2> QED BY <2>1, <2>2
<1> QED BY <1>1, CacheInvariance, PTL DEF CacheSpec, EvictsLeastRecentlyUsed
=============================================================================
