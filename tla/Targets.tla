------------------------------- MODULE Targets -------------------------------
(***************************************************************************)
(* Connections to target databases: the profiles                           *)
(* (features/connections/service.py) and the registry of pooled engines    *)
(* built from them (db/target_registry.py), used by runs of queries while  *)
(* administrators create, change, test, disconnect, reconnect and delete.  *)
(*                                                                         *)
(* A thread works from the profile as it loaded it: its session neither    *)
(* reads it again nor expires it, and an UPDATE names only the columns     *)
(* that differ from what was loaded.  The registry is keyed by connection  *)
(* alone, and every use of it runs under its lock.                         *)
(***************************************************************************)
EXTENDS Integers, Sequences, FiniteSets, SequencesExt

CONSTANTS
  Connections,
  Managed,     \* those that administrators work on; the others are only run
  Fields,      \* what an engine is built from: host, password, TLS mode ...
  Rewritten,   \* those of them an update writes even if it keeps their value:
               \* a password is encrypted anew
  Values,      \* values a field may have
  Threads,     \* request threads and background runs
  MaxEngines,  \* settings.max_target_engines
  MaxCommits,  \* bound on changes of profiles
  None         \* no engine

VARIABLES
  row,      \* row[c]: the stored profile
  engines,  \* _engines: the engine of each connection, or None
  order,    \* the order of the OrderedDict, least recently used first
  op,       \* op[t]: what a thread is doing, with the profile it loaded
  commits   \* how many changes of profiles were committed

registry == <<engines, order>>
vars == <<row, registry, op, commits>>

Configs == [Fields -> Values]
Columns == Fields \cup {"paused", "status", "row"}
Verdicts == {"ok", "failed"}
Kinds == {"run", "test", "update", "pause", "resume", "delete"}

\* tested and mixed are history: the verdict of the test recorded last, and
\* whether another test was recorded between its load and its commit.
Rows == [life : {"unborn", "live", "deleted"}, cfg : Configs, paused : BOOLEAN,
         status : Verdicts \cup {"untested"},
         tested : Verdicts \cup {"untested"}, mixed : BOOLEAN]

\* late is history: columns that were out of date when the engine was built.
Engines == [cfg : Configs, late : SUBSET Columns]

\* changed: the columns its commit wrote; behind, history: the columns others
\* have written since it loaded the profile.
Ops == [at : {"idle", "loaded", "editing", "disposing", "probing", "recording", "dropping"},
        kind : Kinds, conn : Connections, cfg : Configs, paused : BOOLEAN,
        status : Verdicts \cup {"untested"}, verdict : Verdicts,
        changed : SUBSET Columns, behind : SUBSET Columns]

ASSUME TargetsAssumption ==
  /\ MaxEngines \in Nat \ {0} /\ MaxCommits \in Nat
  /\ Connections # {} /\ Managed \subseteq Connections /\ Values # {}
  /\ Rewritten \subseteq Fields
  /\ {"paused", "status", "row"} \cap Fields = {}
  /\ None \notin Engines

Held == {c \in Connections : engines[c] # None}

\* The registry and its order agree, and stay within the bound.
RegistryTypeOK ==
  /\ row \in [Connections -> Rows]
  /\ engines \in [Connections -> Engines \cup {None}]
  /\ order \in Seq(Connections) /\ IsInjective(order) /\ ToSet(order) = Held
  /\ Len(order) <= MaxEngines
  /\ op \in [Threads -> Ops]
  /\ commits \in 0 .. MaxCommits

AnyConfig == [f \in Fields |-> CHOOSE v \in Values : TRUE]
IdleOp == [at |-> "idle", kind |-> "run", conn |-> CHOOSE c \in Connections : TRUE,
           cfg |-> AnyConfig, paused |-> FALSE, status |-> "untested",
           verdict |-> "ok", changed |-> {}, behind |-> {}]
Unborn == [life |-> "unborn", cfg |-> AnyConfig, paused |-> FALSE,
           status |-> "untested", tested |-> "untested", mixed |-> FALSE]

\* The service starts with some profiles stored, and an empty registry.
Init ==
  /\ row \in [Connections -> {Unborn, [Unborn EXCEPT !.life = "live"]}]
  /\ engines = [c \in Connections |-> None] /\ order = <<>>
  /\ op = [t \in Threads |-> IdleOp]
  /\ commits = 0

-----------------------------------------------------------------------------
(* The registry.                                                           *)

Place(s, c) == CHOOSE i \in DOMAIN s : s[i] = c
Without(s, c) == IF c \in ToSet(s) THEN RemoveAt(s, Place(s, c)) ELSE s

\* Mutant: nothing is evicted.
EvictedNever(s) == {}

\* What get_engine drops off the front once the order has become s.
Evicted(s) == IF Len(s) > MaxEngines THEN {Head(s)} ELSE {}

\* get_engine: the engine there is, moved to the end, or a new one, built from
\* the profile in hand.
GetEngine(t) ==
  LET c == op[t].conn
      s == Append(Without(order, c), c)
  IN  /\ order' = IF Evicted(s) = {} THEN s ELSE Tail(s)
      /\ engines' = [x \in Connections |->
           IF x \in Evicted(s) THEN None
           ELSE IF x = c /\ engines[c] = None
             THEN [cfg |-> op[t].cfg, late |-> op[t].behind]
             ELSE engines[x]]

DisposeEngine(t) ==
  /\ engines' = [engines EXCEPT ![op[t].conn] = None]
  /\ order' = Without(order, op[t].conn)

-----------------------------------------------------------------------------

Live(c) == row[c].life = "live"

\* The profile is loaded, by session.get or as query.connection; what an update
\* asks for is set on it.
Load(t, c, kind) ==
  /\ op[t].at = "idle"
  /\ Live(c)
  /\ kind = "run" \/ c \in Managed
  /\ \E cfg \in IF kind = "update" THEN Configs ELSE {row[c].cfg},
        again \in SUBSET Rewritten :
       op' = [op EXCEPT ![t] =
         [IdleOp EXCEPT
            !.at = CASE kind = "run" -> "loaded"
                     [] kind = "test" -> "probing"
                     [] OTHER -> "editing",
            !.kind = kind, !.conn = c, !.cfg = cfg,
            !.paused = row[c].paused, !.status = row[c].status,
            !.changed =
              CASE kind = "update" -> again \cup {f \in Fields : cfg[f] # row[c].cfg[f]}
                [] kind = "pause" /\ ~row[c].paused -> {"paused"}
                [] kind = "resume" /\ row[c].paused -> {"paused"}
                [] kind = "delete" -> {"row"}
                [] OTHER -> {}]]
  /\ UNCHANGED <<row, registry, commits>>

\* read_only_connection of a run, which refuses a paused profile; building the
\* engine may fail.
Run(t) ==
  /\ op[t].at = "loaded"
  /\ op' = [op EXCEPT ![t] = IdleOp]
  /\ \/ ~op[t].paused /\ GetEngine(t)
     \/ UNCHANGED registry
  /\ UNCHANGED <<row, commits>>

\* What the other threads then have that is out of date; a thread that wrote a
\* column is up to date on it.
Outdate(t, columns, mine) ==
  op' = [u \in Threads |->
    IF u = t THEN [mine EXCEPT !.behind = @ \ columns]
    ELSE IF op[u].at # "idle" /\ op[u].conn = op[t].conn
      THEN [op[u] EXCEPT !.behind = @ \cup columns]
      ELSE op[u]]

\* create_connection, followed by its test.
Create(t, c) ==
  /\ op[t].at = "idle"
  /\ row[c].life = "unborn" /\ c \in Managed
  /\ commits < MaxCommits /\ commits' = commits + 1
  /\ \E cfg \in Configs :
       /\ row' = [row EXCEPT ![c] = [Unborn EXCEPT !.life = "live", !.cfg = cfg]]
       /\ op' = [op EXCEPT ![t] =
            [IdleOp EXCEPT !.at = "probing", !.kind = "test", !.conn = c, !.cfg = cfg]]
  /\ UNCHANGED registry

\* Mutant: an update goes straight on to its test.
AfterCommitTested(t) ==
  IF op[t].kind \in {"resume", "update"} THEN "probing" ELSE "disposing"

\* Where an edit goes on: everything but a reconnect disposes the engine first.
AfterCommit(t) == IF op[t].kind = "resume" THEN "probing" ELSE "disposing"

\* The commit of update, pause, resume and delete, naming the changed columns.
EditCommits(t) ==
  LET c == op[t].conn
      set == op[t].changed
  IN  /\ op[t].at = "editing"
      /\ Live(c) \/ op[t].kind = "delete" \/ set = {}
      /\ commits < MaxCommits /\ commits' = commits + 1
      /\ row' = [row EXCEPT ![c] = [@ EXCEPT
           !.cfg = [f \in Fields |-> IF f \in set THEN op[t].cfg[f] ELSE row[c].cfg[f]],
           !.paused = IF "paused" \in set THEN op[t].kind = "pause" ELSE row[c].paused,
           !.life = IF "row" \in set THEN "deleted" ELSE row[c].life]]
      /\ Outdate(t, set, [op[t] EXCEPT !.at = AfterCommit(t),
                                       !.paused = IF "paused" \in set
                                                    THEN op[t].kind = "pause"
                                                    ELSE op[t].paused])
      /\ UNCHANGED registry

\* The commit fails: the name is taken, or the row to update is gone.
EditFails(t) ==
  /\ op[t].at = "editing"
  /\ op' = [op EXCEPT ![t] = IdleOp]
  /\ UNCHANGED <<row, registry, commits>>

\* dispose_engine after the commit; an update then tests.
Dispose(t) ==
  /\ op[t].at = "disposing"
  /\ DisposeEngine(t)
  /\ op' = [op EXCEPT ![t] = IF @.kind = "update"
                               THEN [@ EXCEPT !.at = "probing", !.changed = {}]
                               ELSE IdleOp]
  /\ UNCHANGED <<row, commits>>

\* probe: a paused profile fails at once, an engine that cannot be built too.
Probe(t) ==
  /\ op[t].at = "probing"
  /\ \E v \in Verdicts :
       /\ op' = [op EXCEPT ![t] = [@ EXCEPT !.at = "recording", !.verdict = v, !.changed = {}]]
       /\ \/ ~op[t].paused /\ GetEngine(t)
          \/ v = "failed" /\ UNCHANGED registry
  /\ UNCHANGED <<row, commits>>

\* Mutant: only a failure is recorded.
RecordedFailure(t) == IF op[t].verdict = "failed" THEN "failed" ELSE row[op[t].conn].status

\* The status the row then has: one that equals the loaded one is not written.
Recorded(t) ==
  IF op[t].verdict # op[t].status THEN op[t].verdict ELSE row[op[t].conn].status

\* test_connection commits the verdict; a failure then drops the engine.
Record(t) ==
  LET c == op[t].conn
  IN  /\ op[t].at = "recording"
      /\ Live(c)
      /\ row' = [row EXCEPT ![c] = [@ EXCEPT !.status = Recorded(t), !.tested = op[t].verdict,
                                             !.mixed = "status" \in op[t].behind]]
      /\ Outdate(t, {"status"}, IF op[t].verdict = "failed"
                                  THEN [op[t] EXCEPT !.at = "dropping"] ELSE IdleOp)
      /\ UNCHANGED <<registry, commits>>

\* The row to update is gone: the request fails, before the drop.
RecordFails(t) ==
  /\ op[t].at = "recording"
  /\ ~Live(op[t].conn)
  /\ op' = [op EXCEPT ![t] = IdleOp]
  /\ UNCHANGED <<row, registry, commits>>

Drop(t) ==
  /\ op[t].at = "dropping"
  /\ DisposeEngine(t)
  /\ op' = [op EXCEPT ![t] = IdleOp]
  /\ UNCHANGED <<row, commits>>

\* dispose_all, when the service stops or is reset.
DisposeAll ==
  /\ engines' = [c \in Connections |-> None] /\ order' = <<>>
  /\ UNCHANGED <<row, op, commits>>

-----------------------------------------------------------------------------

Next ==
  \/ \E t \in Threads :
       \/ \E c \in Connections : Create(t, c) \/ \E kind \in Kinds : Load(t, c, kind)
       \/ Run(t) \/ EditCommits(t) \/ EditFails(t) \/ Dispose(t)
       \/ Probe(t) \/ Record(t) \/ RecordFails(t) \/ Drop(t)
  \/ DisposeAll

Spec == Init /\ [][Next]_vars

-----------------------------------------------------------------------------
(* Properties.                                                             *)

\* In what c's engine differs from the stored profile.
Differs(c) ==
  {f \in Fields : engines[c].cfg[f] # row[c].cfg[f]}
  \cup (IF row[c].paused THEN {"paused"} ELSE {})
  \cup (IF Live(c) THEN {} ELSE {"row"})

\* What was committed for c by a thread that has not disposed its engine yet.
Undisposed(c) ==
  UNION {op[t].changed : t \in {u \in Threads : op[u].at = "disposing" /\ op[u].conn = c}}

\* Once a change, a disconnect or a delete has returned, the registry holds no
\* engine from before it: one that does not match its profile was built, later,
\* by a thread that had loaded the profile earlier.
EnginesFollowProfiles ==
  \A c \in Held : Differs(c) \subseteq engines[c].late \cup Undisposed(c)

\* The status shown is the verdict of the test recorded last, unless another
\* one was recorded while it ran: equal to what it had loaded, its verdict is
\* then not written.
StatusIsLastVerdict ==
  \A c \in Connections : row[c].status = row[c].tested \/ row[c].mixed
=============================================================================
