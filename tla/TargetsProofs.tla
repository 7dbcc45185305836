---------------------------- MODULE TargetsProofs ----------------------------
(***************************************************************************)
(* The targets, and the statements that are run on them.                   *)
(*                                                                         *)
(* Targets, for any number of connections, fields, threads and engines: an *)
(* engine differs from its profile only in what its builder had not seen,  *)
(* and the status is the last verdict.  Both follow from what a thread     *)
(* knows: the profile it loaded differs from the stored one only in the    *)
(* columns others have written since.  The registry and its order hold the *)
(* same connections, each once, and no more than the bound (Orderly).      *)
(*                                                                         *)
(* Execution, for any statements, results, rules and lists: the rows and   *)
(* the mark that there are more follow from how far the result is fetched  *)
(* and coerced (Answered), what is kept from the rows there are and what   *)
(* they are wide together (Kept), the tally and the warnings from the      *)
(* rules that are used and those that are not, in their order (Evaluated); *)
(* lists read like `in' by what a member set holds.  What the guard        *)
(* returns it accepts as it stands, whatever the tokens (GuardStands), and *)
(* its verdict is the one the author meant: what is written is one         *)
(* statement and its semicolons, or it is refused (VerdictOf), and the     *)
(* statement passes if it only reads (PassesIs).                           *)
(***************************************************************************)
EXTENDS Targets, Execution, FiniteSetTheorems, SequenceTheorems, WellFoundedInduction, TLAPS

Types ==
  /\ row \in [Connections -> Rows]
  /\ engines \in [Connections -> Engines \cup {None}]
  /\ op \in [Threads -> Ops]

\* What a thread may have set on its profile and not yet committed.
Unwritten(t) == IF op[t].at = "editing" THEN op[t].changed ELSE {}

\* What may be stored that is not what t has loaded, or set.
Knows(t) ==
  LET r == row[op[t].conn]
  IN  /\ r.life # "unborn"
      /\ \A f \in Fields :
           op[t].cfg[f] # r.cfg[f] => f \in op[t].behind \/ f \in Unwritten(t)
      /\ op[t].paused # r.paused => "paused" \in op[t].behind
      /\ op[t].status # r.status => "status" \in op[t].behind \/ op[t].at = "dropping"
      /\ r.life # "live" => "row" \in op[t].behind \/ op[t].kind = "delete"

\* The columns each kind of edit writes, and where each kind of thread can be.
Fits(t) ==
  /\ op[t].at = "loaded" => op[t].kind = "run"
  /\ op[t].at \in {"probing", "recording", "dropping"} =>
       op[t].kind \in {"test", "update", "resume"}
  /\ op[t].at \in {"editing", "disposing"} =>
       /\ op[t].kind = "update" => op[t].changed \subseteq Fields
       /\ op[t].kind \in {"pause", "resume"} => op[t].changed \subseteq {"paused"}
       /\ op[t].kind = "delete" => op[t].changed = {"row"}
       /\ op[t].kind \in {"update", "pause", "resume", "delete"}
  /\ op[t].at = "disposing" => op[t].kind # "resume"

Threading == \A t \in Threads : op[t].at # "idle" => Knows(t) /\ Fits(t)
Born == \A c \in Held : row[c].life # "unborn"

IInv == Types /\ Threading /\ Born /\ EnginesFollowProfiles /\ StatusIsLastVerdict

-----------------------------------------------------------------------------

LEMMA Distinct ==
  /\ "paused" \notin Fields /\ "status" \notin Fields /\ "row" \notin Fields
BY TargetsAssumption

LEMMA IdleType == IdleOp \in Ops /\ AnyConfig \in Configs /\ Unborn \in Rows
<1>1. AnyConfig \in Configs
  BY TargetsAssumption DEF AnyConfig, Configs
<1>2. (CHOOSE c \in Connections : TRUE) \in Connections
  BY TargetsAssumption
<1> QED BY <1>1, <1>2 DEF IdleOp, Ops, Unborn, Rows, Kinds, Verdicts

LEMMA InitInv == Init => IInv
<1> SUFFICES ASSUME Init PROVE IInv
  OBVIOUS
<1>1. [Unborn EXCEPT !.life = "live"] \in Rows
  BY IdleType DEF Rows, Unborn
<1>2. Types
  BY <1>1, IdleType DEF Init, Types
<1>3. Threading
  BY DEF Init, Threading, IdleOp
<1>4. Born /\ EnginesFollowProfiles
  BY DEF Init, Born, Held, EnginesFollowProfiles
<1>5. StatusIsLastVerdict
  BY DEF Init, StatusIsLastVerdict, Unborn
<1> QED BY <1>2, <1>3, <1>4, <1>5 DEF IInv

\* A step that only ends a thread's work, or empties the registry, or both.
LEMMA EndsInv ==
  ASSUME IInv, UNCHANGED row,
         engines' \in [Connections -> Engines \cup {None}],
         \A c \in Connections : engines'[c] \in {engines[c], None},
         op' \in [Threads -> Ops],
         \A t \in Threads :
           op'[t] = op[t] \/ (op'[t] = IdleOp /\ op[t].at # "disposing")
  PROVE  IInv'
<1> USE DEF IInv
<1>1. Types'
  BY DEF Types
<1>2. Threading'
  BY DEF Threading, Knows, Fits, Unwritten, IdleOp
<1>3. Born'
  BY DEF Born, Held
<1>4. EnginesFollowProfiles'
  <2> SUFFICES ASSUME NEW c \in Held', NEW x \in Differs(c)'
               PROVE  x \in (engines[c].late \cup Undisposed(c))'
    BY DEF EnginesFollowProfiles
  <2>1. c \in Held /\ engines'[c] = engines[c]
    BY DEF Held
  <2>2. x \in Differs(c)
    BY <2>1 DEF Differs, Live
  <2>3. x \in engines[c].late \/ x \in Undisposed(c)
    BY <2>1, <2>2 DEF EnginesFollowProfiles
  <2>4. ASSUME x \in Undisposed(c) PROVE x \in Undisposed(c)'
    BY <2>4 DEF Undisposed, IdleOp
  <2> QED BY <2>1, <2>3, <2>4
<1>5. StatusIsLastVerdict'
  BY DEF StatusIsLastVerdict
<1> QED BY <1>1, <1>2, <1>3, <1>4, <1>5
\* A thread that gets an engine, with a profile it takes for connected.  What
\* becomes of the thread itself keeps what it knows.
LEMMA EngineInv ==
  ASSUME IInv, UNCHANGED row, NEW t \in Threads,
         op[t].at \in {"loaded", "probing"}, ~op[t].paused, GetEngine(t),
         op' \in [Threads -> Ops], Threading',
         \A u \in Threads : op'[u] = op[u] \/ u = t
  PROVE  IInv'
<1> USE DEF IInv
<1> DEFINE c == op[t].conn
           new == [cfg |-> op[t].cfg, late |-> op[t].behind]
<1>1. op[t] \in Ops /\ c \in Connections /\ new \in Engines
  BY DEF Types, Ops, Engines
<1>2. \A x \in Connections :
        \/ engines'[x] \in {engines[x], None}
        \/ x = c /\ engines'[x] = new
  BY DEF GetEngine
<1>3. engines' \in [Connections -> Engines \cup {None}]
  <2>1. DOMAIN engines' = Connections /\ engines' = [x \in Connections |-> engines'[x]]
    BY DEF GetEngine
  <2>2. \A x \in Connections : engines'[x] \in Engines \cup {None}
    BY <1>1, <1>2 DEF Types
  <2> QED BY <2>1, <2>2
<1> HIDE DEF c, new
<1>4. Types'
  BY <1>3 DEF Types
<1>5. Knows(t) /\ Fits(t)
  BY DEF Threading
<1>6. Born'
  BY <1>1, <1>2, <1>5 DEF Born, Held, Knows, c
<1>7. EnginesFollowProfiles'
  <2> SUFFICES ASSUME NEW k \in Held', NEW x \in Differs(k)'
               PROVE  x \in engines'[k].late \/ x \in Undisposed(k)'
    BY DEF EnginesFollowProfiles
  <2>1. CASE engines'[k] = engines[k]
    <3>1. k \in Held /\ x \in Differs(k)
      BY <2>1 DEF Held, Differs, Live
    <3>2. x \in engines[k].late \/ x \in Undisposed(k)
      BY <3>1 DEF EnginesFollowProfiles
    <3>3. ASSUME x \in Undisposed(k) PROVE x \in Undisposed(k)'
      BY <3>3 DEF Undisposed
    <3> QED BY <2>1, <3>2, <3>3
  <2>2. CASE k = c /\ engines'[k] = new
    <3>1. new.cfg = op[t].cfg /\ new.late = op[t].behind
      BY DEF new
    <3>2. Unwritten(t) = {} /\ op[t].kind # "delete"
      BY <1>5 DEF Unwritten, Fits
    <3>3. \/ x \in Fields /\ op[t].cfg[x] # row[c].cfg[x]
          \/ x = "paused" /\ row[c].paused
          \/ x = "row" /\ row[c].life # "live"
      BY <2>2, <3>1 DEF Differs, Live
    <3>4. x \in op[t].behind
      BY <1>5, <3>2, <3>3 DEF Knows, c
    <3> QED BY <2>2, <3>1, <3>4
  <2> QED BY <1>2, <2>1, <2>2 DEF Held
<1>8. StatusIsLastVerdict'
  BY DEF StatusIsLastVerdict
<1> QED BY <1>4, <1>6, <1>7, <1>8

LEMMA RunInv == ASSUME IInv, NEW t \in Threads, Run(t) PROVE IInv'
<1> USE DEF IInv
<1>1. op' \in [Threads -> Ops]
  BY IdleType DEF Run, Types
<1>2. CASE UNCHANGED registry
  BY <1>1, <1>2, EndsInv DEF Run, Types, registry
<1>3. CASE ~op[t].paused /\ GetEngine(t)
  <2>1. Threading'
    <3> SUFFICES ASSUME NEW u \in Threads, op'[u].at # "idle" PROVE Knows(u)' /\ Fits(u)'
      BY DEF Threading
    <3>1. op'[u] = op[u] /\ row' = row
      BY DEF Run, IdleOp, Types
    <3>2. Knows(u) /\ Fits(u)
      BY <3>1 DEF Threading
    <3> QED BY ONLY <3>1, <3>2 DEF Knows, Fits, Unwritten
  <2> QED BY <1>1, <1>3, <2>1, EngineInv DEF Run, Types
<1> QED BY <1>2, <1>3 DEF Run

LEMMA ProbeInv == ASSUME IInv, NEW t \in Threads, Probe(t) PROVE IInv'
<1> USE DEF IInv
<1>1. PICK v \in Verdicts :
        /\ op' = [op EXCEPT ![t] = [@ EXCEPT !.at = "recording", !.verdict = v,
                                             !.changed = {}]]
        /\ (~op[t].paused /\ GetEngine(t)) \/ UNCHANGED registry
  BY DEF Probe
<1>2. op[t] \in Ops /\ op[t].at = "probing" /\ UNCHANGED row
  BY DEF Probe, Types
<1>3. op' \in [Threads -> Ops]
  BY <1>1, <1>2 DEF Types, Ops
<1>4. Threading'
  <2> SUFFICES ASSUME NEW u \in Threads, op'[u].at # "idle"
               PROVE  Knows(u)' /\ Fits(u)'
    BY DEF Threading
  <2>1. CASE u = t
    <3>1. Knows(t) /\ Fits(t)
      BY <1>2 DEF Threading
    <3>2. /\ op'[t].at = "recording" /\ op'[t].kind = op[t].kind
          /\ op'[t].conn = op[t].conn /\ op'[t].cfg = op[t].cfg
          /\ op'[t].paused = op[t].paused /\ op'[t].status = op[t].status
          /\ op'[t].behind = op[t].behind
      BY <1>1, <1>2 DEF Types, Ops
    <3> QED BY <1>2, <2>1, <3>1, <3>2 DEF Knows, Fits, Unwritten
  <2>2. CASE u # t
    BY <1>1, <1>2, <2>2 DEF Threading, Knows, Fits, Unwritten, Types
  <2> QED BY <2>1, <2>2
<1>5. CASE UNCHANGED registry
  <2>1. UNCHANGED engines
    BY <1>5 DEF registry
  <2>2. \A c \in Connections : Undisposed(c) \subseteq Undisposed(c)'
    BY <1>1, <1>2 DEF Undisposed, Types
  <2>3. EnginesFollowProfiles'
    BY <1>2, <2>1, <2>2 DEF EnginesFollowProfiles, Differs, Held, Live
  <2> QED BY <1>2, <1>3, <1>4, <2>1, <2>3 DEF Types, Born, Held, StatusIsLastVerdict
<1>6. CASE ~op[t].paused /\ GetEngine(t)
  BY <1>1, <1>2, <1>3, <1>4, <1>6, EngineInv DEF Types
<1> QED BY <1>1, <1>5, <1>6
LEMMA LoadInv ==
  ASSUME IInv, NEW t \in Threads, NEW c \in Connections, NEW kind \in Kinds,
         Load(t, c, kind)
  PROVE  IInv'
<1> USE DEF IInv
<1>1. PICK cfg \in IF kind = "update" THEN Configs ELSE {row[c].cfg},
           again \in SUBSET Rewritten :
        op' = [op EXCEPT ![t] =
          [IdleOp EXCEPT
             !.at = CASE kind = "run" -> "loaded"
                      [] kind = "test" -> "probing"
                      [] OTHER -> "editing",
             !.kind = kind, !.conn = c, !.cfg = cfg,
             !.paused = row[c].paused, !.status = row[c].status,
             !.changed =
               CASE kind = "update" -> again \cup {f \in Fields : cfg[f] # row[c].cfg[f]}
                 [] kind = "pause" /\ ~row[c].paused -> {"paused"}
                 [] kind = "resume" /\ row[c].paused -> {"paused"}
                 [] kind = "delete" -> {"row"}
                 [] OTHER -> {}]]
  BY DEF Load
<1>2. row[c] \in Rows /\ row[c].life = "live" /\ UNCHANGED <<row, engines>>
      /\ op[t].at = "idle"
  BY DEF Load, Live, Types, registry
<1>3. cfg \in Configs
  BY <1>1, <1>2 DEF Rows
<1> DEFINE set == CASE kind = "update" -> again \cup {f \in Fields : cfg[f] # row[c].cfg[f]}
                    [] kind = "pause" /\ ~row[c].paused -> {"paused"}
                    [] kind = "resume" /\ row[c].paused -> {"paused"}
                    [] kind = "delete" -> {"row"}
                    [] OTHER -> {}
           step == CASE kind = "run" -> "loaded"
                     [] kind = "test" -> "probing"
                     [] OTHER -> "editing"
<1>4. /\ set \subseteq Columns
      /\ kind = "update" =>
           /\ set \subseteq Fields
           /\ \A f \in Fields : cfg[f] # row[c].cfg[f] => f \in set
      /\ kind \in {"pause", "resume"} => set \subseteq {"paused"}
      /\ kind = "delete" => set = {"row"}
  BY TargetsAssumption DEF Columns
<1>5. /\ step \in {"loaded", "probing", "editing"}
      /\ step = "loaded" => kind = "run"
      /\ step = "probing" => kind = "test"
      /\ step = "editing" => kind \in {"update", "pause", "resume", "delete"}
      /\ kind = "update" => step = "editing"
  BY DEF Kinds
<1>6. op' = [op EXCEPT ![t] =
        [IdleOp EXCEPT !.at = step, !.kind = kind, !.conn = c, !.cfg = cfg,
           !.paused = row[c].paused, !.status = row[c].status, !.changed = set]]
  BY <1>1
<1> HIDE DEF set, step
<1>7. op'[t] = [at |-> step, kind |-> kind, conn |-> c, cfg |-> cfg,
                paused |-> row[c].paused, status |-> row[c].status,
                verdict |-> "ok", changed |-> set, behind |-> {}]
  BY <1>6 DEF IdleOp, Types
<1>8. Types'
  <2>1. op'[t] \in Ops
    BY <1>2, <1>3, <1>4, <1>5, <1>7 DEF Ops, Rows, Verdicts
  <2> QED BY <1>2, <1>6, <2>1 DEF Types
<1>9. Threading'
  <2> SUFFICES ASSUME NEW u \in Threads, op'[u].at # "idle"
               PROVE  Knows(u)' /\ Fits(u)'
    BY DEF Threading
  <2>1. CASE u = t
    <3>1. Knows(t)'
      BY <1>1, <1>2, <1>4, <1>5, <1>7 DEF Knows, Unwritten
    <3>2. Fits(t)'
      BY <1>4, <1>5, <1>7 DEF Fits
    <3> QED BY <2>1, <3>1, <3>2
  <2>2. CASE u # t
    BY <1>2, <1>6, <2>2 DEF Threading, Knows, Fits, Unwritten, Types
  <2> QED BY <2>1, <2>2
<1>10. EnginesFollowProfiles'
  <2>1. \A k \in Connections : Undisposed(k) \subseteq Undisposed(k)'
    BY <1>2, <1>6 DEF Undisposed, Types
  <2> QED BY <1>2, <2>1 DEF EnginesFollowProfiles, Differs, Held, Live
<1> QED BY <1>2, <1>8, <1>9, <1>10 DEF Born, Held, StatusIsLastVerdict

LEMMA CreateInv ==
  ASSUME IInv, NEW t \in Threads, NEW c \in Connections, Create(t, c)
  PROVE  IInv'
<1> USE DEF IInv
<1>1. PICK cfg \in Configs :
        /\ row' = [row EXCEPT ![c] = [Unborn EXCEPT !.life = "live", !.cfg = cfg]]
        /\ op' = [op EXCEPT ![t] =
             [IdleOp EXCEPT !.at = "probing", !.kind = "test", !.conn = c, !.cfg = cfg]]
  BY DEF Create
<1>2. op[t].at = "idle" /\ row[c].life = "unborn" /\ UNCHANGED engines
  BY DEF Create, registry
<1>3. row'[c] = [life |-> "live", cfg |-> cfg, paused |-> FALSE, status |-> "untested",
                 tested |-> "untested", mixed |-> FALSE]
  BY <1>1 DEF Unborn, Types
<1>4. op'[t] = [at |-> "probing", kind |-> "test", conn |-> c, cfg |-> cfg,
                paused |-> FALSE, status |-> "untested", verdict |-> "ok",
                changed |-> {}, behind |-> {}]
  BY <1>1 DEF IdleOp, Types
<1>5. Types'
  <2>1. row'[c] \in Rows
    BY <1>3 DEF Rows, Verdicts
  <2>2. op'[t] \in Ops
    BY <1>4 DEF Ops, Kinds, Verdicts
  <2> QED BY <1>1, <1>2, <2>1, <2>2 DEF Types
<1>6. Threading'
  <2> SUFFICES ASSUME NEW u \in Threads, op'[u].at # "idle"
               PROVE  Knows(u)' /\ Fits(u)'
    BY DEF Threading
  <2>1. CASE u = t
    <3>1. Knows(t)'
      <4>1. row'[op'[t].conn] = row'[c]
        BY <1>4
      <4>2. /\ row'[c].life = "live" /\ row'[c].cfg = cfg /\ ~row'[c].paused
            /\ row'[c].status = "untested"
        BY <1>3
      <4>3. op'[t].cfg = cfg /\ ~op'[t].paused /\ op'[t].status = "untested"
        BY <1>4
      <4>4. op'[t].paused = row'[c].paused
        BY <1>3, <1>4
      <4> QED BY <4>1, <4>2, <4>3, <4>4 DEF Knows
    <3>2. Fits(t)'
      BY <1>4 DEF Fits
    <3> QED BY <2>1, <3>1, <3>2
  <2>2. CASE u # t
    <3>1. op'[u] = op[u] /\ Knows(u) /\ Fits(u)
      BY <1>1, <2>2 DEF Threading, Types
    <3>2. row'[op[u].conn] = row[op[u].conn]
      BY <1>1, <1>2, <3>1 DEF Knows, Types, Ops
    <3> QED BY <3>1, <3>2 DEF Knows, Fits, Unwritten
  <2> QED BY <2>1, <2>2
<1>7. ASSUME NEW k \in Connections, k # c PROVE row'[k] = row[k]
  BY <1>1, <1>7 DEF Types
<1>8. Born'
  BY <1>2, <1>3, <1>7 DEF Born, Held
<1>9. EnginesFollowProfiles'
  <2>1. \A k \in Connections : Undisposed(k) \subseteq Undisposed(k)'
    BY <1>1, <1>2 DEF Undisposed, Types
  <2>2. ASSUME NEW k \in Held'
        PROVE  k \in Held /\ row'[k] = row[k] /\ engines'[k] = engines[k]
    <3>1. k \in Held
      BY <1>2 DEF Held
    <3>2. k # c /\ k \in Connections
      BY <1>2, <3>1 DEF Born, Held
    <3> QED BY <1>2, <1>7, <3>1, <3>2
  <2> QED BY <2>1, <2>2 DEF EnginesFollowProfiles, Differs, Live, Held
<1>10. StatusIsLastVerdict'
  BY <1>3, <1>7 DEF StatusIsLastVerdict
<1> QED BY <1>5, <1>6, <1>8, <1>9, <1>10
LEMMA DisposeInv == ASSUME IInv, NEW t \in Threads, Dispose(t) PROVE IInv'
<1> USE DEF IInv
<1>1. op[t] \in Ops /\ op[t].at = "disposing" /\ UNCHANGED row
      /\ engines' = [engines EXCEPT ![op[t].conn] = None]
  BY DEF Dispose, DisposeEngine, Types
<1> DEFINE tested == [op[t] EXCEPT !.at = "probing", !.changed = {}]
           next == IF op[t].kind = "update" THEN tested ELSE IdleOp
<1>2. op' = [op EXCEPT ![t] = next]
  BY DEF Dispose
<1>3. tested \in Ops
  BY <1>1 DEF Ops
<1>4. next.at = "idle" \/ (next = tested /\ op[t].kind = "update")
  BY DEF IdleOp
<1>8. next \in Ops
  BY <1>3, IdleType
<1> HIDE DEF next, tested
<1>5. Types'
  BY <1>1, <1>2, <1>8 DEF Types
<1>6. Threading'
  <2> SUFFICES ASSUME NEW u \in Threads, op'[u].at # "idle"
               PROVE  Knows(u)' /\ Fits(u)'
    BY DEF Threading
  <2>1. CASE u = t
    <3>1. Knows(t) /\ Fits(t)
      BY <1>1 DEF Threading
    <3>2. op'[t] = tested /\ op[t].kind = "update"
      BY <1>1, <1>2, <1>4, <2>1 DEF Types
    <3>3. /\ op'[t].at = "probing" /\ op'[t].kind = "update"
          /\ op'[t].conn = op[t].conn /\ op'[t].cfg = op[t].cfg
          /\ op'[t].paused = op[t].paused /\ op'[t].status = op[t].status
          /\ op'[t].behind = op[t].behind
      BY <1>1, <3>2 DEF Ops, tested
    <3>4. Unwritten(t) = {} /\ op[t].kind # "delete" /\ op[t].at # "dropping"
      BY <1>1, <3>2 DEF Unwritten
    <3>5. Knows(t)'
      BY <1>1, <3>1, <3>3, <3>4 DEF Knows
    <3>6. Fits(t)'
      BY <3>3 DEF Fits
    <3> QED BY <2>1, <3>5, <3>6
  <2>2. CASE u # t
    BY <1>1, <1>2, <2>2 DEF Threading, Knows, Fits, Unwritten, Types
  <2> QED BY <2>1, <2>2
<1>7. EnginesFollowProfiles'
  <2> SUFFICES ASSUME NEW k \in Held', NEW x \in Differs(k)'
               PROVE  x \in engines'[k].late \/ x \in Undisposed(k)'
    BY DEF EnginesFollowProfiles
  <2>1. k \in Held /\ k # op[t].conn /\ engines'[k] = engines[k]
    BY <1>1 DEF Held, Types, Ops
  <2>2. x \in engines[k].late \/ x \in Undisposed(k)
    BY <1>1, <2>1 DEF EnginesFollowProfiles, Differs, Live
  <2>3. ASSUME x \in Undisposed(k) PROVE x \in Undisposed(k)'
    <3>1. PICK u \in Threads : op[u].at = "disposing" /\ op[u].conn = k /\ x \in op[u].changed
      BY <2>3 DEF Undisposed
    <3>2. op'[u] = op[u]
      BY <1>2, <2>1, <3>1 DEF Types
    <3> QED BY <3>1, <3>2 DEF Undisposed
  <2> QED BY <2>1, <2>2, <2>3
<1> QED BY <1>1, <1>5, <1>6, <1>7 DEF Born, Held, StatusIsLastVerdict, Types, Ops

\* What a commit makes of the threads: t goes on as `mine', those at work on the
\* same profile are behind on the columns, the others are not concerned.
Untouched(x, y) ==
  /\ x.at = y.at /\ x.kind = y.kind /\ x.conn = y.conn /\ x.cfg = y.cfg
  /\ x.paused = y.paused /\ x.status = y.status /\ x.verdict = y.verdict
  /\ x.changed = y.changed

LEMMA Outdated ==
  ASSUME Types, NEW t \in Threads, NEW written \in SUBSET Columns, NEW mine \in Ops,
         Outdate(t, written, mine)
  PROVE  /\ op' \in [Threads -> Ops]
         /\ Untouched(op'[t], mine) /\ op'[t].behind = mine.behind \ written
         /\ \A u \in Threads \ {t} :
              /\ Untouched(op'[u], op[u])
              /\ op[u].at # "idle" =>
                   op'[u].behind = IF op[u].conn = op[t].conn
                                     THEN op[u].behind \cup written ELSE op[u].behind
<1> DEFINE next(u) == IF u = t THEN [mine EXCEPT !.behind = @ \ written]
                      ELSE IF op[u].at # "idle" /\ op[u].conn = op[t].conn
                        THEN [op[u] EXCEPT !.behind = @ \cup written]
                        ELSE op[u]
<1>1. op' = [u \in Threads |-> next(u)]
  BY DEF Outdate
<1>2. ASSUME NEW u \in Threads
      PROVE  op[u] \in Ops /\ [op[u] EXCEPT !.behind = @ \cup written] \in Ops
  BY DEF Types, Ops
<1>3. [mine EXCEPT !.behind = @ \ written] \in Ops
  BY DEF Ops
<1>4. \A u \in Threads : next(u) \in Ops
  BY <1>2, <1>3
<1>5. next(t) = [mine EXCEPT !.behind = @ \ written]
  OBVIOUS
<1>6. Untouched(next(t), mine) /\ next(t).behind = mine.behind \ written
  BY <1>5 DEF Untouched, Ops
<1>7. ASSUME NEW u \in Threads \ {t}
      PROVE  /\ Untouched(next(u), op[u])
             /\ op[u].at # "idle" =>
                  next(u).behind = IF op[u].conn = op[t].conn
                                     THEN op[u].behind \cup written ELSE op[u].behind
  <2>1. op[u] \in Ops
    BY <1>2
  <2>2. CASE op[u].at # "idle" /\ op[u].conn = op[t].conn
    <3>1. next(u) = [op[u] EXCEPT !.behind = @ \cup written]
      BY <2>2
    <3> QED BY <2>1, <2>2, <3>1 DEF Untouched, Ops
  <2>3. CASE ~(op[u].at # "idle" /\ op[u].conn = op[t].conn)
    <3>1. next(u) = op[u]
      BY <2>3
    <3> QED BY <2>3, <3>1 DEF Untouched
  <2> QED BY <2>2, <2>3
<1> HIDE DEF next
<1> QED BY <1>1, <1>4, <1>6, <1>7

LEMMA RecordInv == ASSUME IInv, NEW t \in Threads, Record(t) PROVE IInv'
<1> USE DEF IInv
<1> DEFINE c == op[t].conn
           mine == IF op[t].verdict = "failed" THEN [op[t] EXCEPT !.at = "dropping"]
                                               ELSE IdleOp
<1>1. /\ op[t] \in Ops /\ c \in Connections /\ row[c] \in Rows
      /\ op[t].at = "recording" /\ UNCHANGED engines
      /\ Knows(t) /\ Fits(t)
  BY DEF Record, Types, Ops, registry, Threading
<1>2. /\ row' = [row EXCEPT ![c] = [@ EXCEPT !.status = Recorded(t),
                          !.tested = op[t].verdict, !.mixed = "status" \in op[t].behind]]
      /\ Outdate(t, {"status"}, mine)
  BY DEF Record
<1>3. /\ row'[c].life = row[c].life /\ row'[c].cfg = row[c].cfg
      /\ row'[c].paused = row[c].paused /\ row'[c].status = Recorded(t)
      /\ row'[c].tested = op[t].verdict /\ row'[c].mixed = ("status" \in op[t].behind)
  BY <1>1, <1>2 DEF Rows, Types
<1>4. \A k \in Connections : k # c => row'[k] = row[k]
  BY <1>2 DEF Types
<1>5. /\ mine \in Ops
      /\ mine.at # "idle" =>
           /\ mine.at = "dropping" /\ mine.kind = op[t].kind /\ mine.conn = c
           /\ mine.cfg = op[t].cfg /\ mine.paused = op[t].paused
           /\ mine.behind = op[t].behind /\ mine.changed = op[t].changed
           /\ mine.status = op[t].status
  <2>1. CASE op[t].verdict = "failed"
    BY <1>1, <2>1 DEF Ops
  <2>2. CASE op[t].verdict # "failed"
    BY <2>2, IdleType DEF IdleOp
  <2> QED BY <2>1, <2>2
<1>6. /\ op' \in [Threads -> Ops]
      /\ Untouched(op'[t], mine) /\ op'[t].behind = mine.behind \ {"status"}
      /\ \A u \in Threads \ {t} :
           /\ Untouched(op'[u], op[u])
           /\ op[u].at # "idle" =>
                op'[u].behind = IF op[u].conn = c
                                  THEN op[u].behind \cup {"status"} ELSE op[u].behind
  <2>1. {"status"} \in SUBSET Columns
    BY DEF Columns
  <2>2. Types /\ mine \in Ops /\ Outdate(t, {"status"}, mine)
    BY <1>2, <1>5
  <2> HIDE DEF mine
  <2> QED BY <2>1, <2>2, Outdated
<1> HIDE DEF c, mine
<1>7. Types'
  <2>1. row'[c] \in Rows
    <3>1. Recorded(t) \in Verdicts \cup {"untested"}
      BY <1>1 DEF Recorded, Rows, Ops, c
    <3>2. row'[c] = [row[c] EXCEPT !.status = Recorded(t), !.tested = op[t].verdict,
                                   !.mixed = "status" \in op[t].behind]
      BY <1>1, <1>2 DEF Types
    <3>3. op[t].verdict \in Verdicts /\ ("status" \in op[t].behind) \in BOOLEAN
      BY <1>1 DEF Ops
    <3> QED BY <1>1, <3>1, <3>2, <3>3 DEF Rows
  <2>2. row' \in [Connections -> Rows]
    BY <1>1, <1>2, <1>4, <2>1 DEF Types
  <2> QED BY <1>1, <1>6, <2>2 DEF Types
<1>8. ASSUME NEW u \in Threads, op'[u].at # "idle" PROVE Knows(u)' /\ Fits(u)'
  <2>1. CASE u = t
    <3>1. Knows(t)'
      <4>1. op'[t].at = "dropping" /\ op'[t].conn = c /\ op'[t].kind = op[t].kind
            /\ op'[t].cfg = op[t].cfg /\ op'[t].paused = op[t].paused
            /\ op'[t].behind = op[t].behind \ {"status"}
        BY <1>5, <1>6, <1>8, <2>1 DEF Untouched
      <4>2. Unwritten(t) = {}
        BY <1>1 DEF Unwritten
      <4>3. \A f \in Fields : f # "status"
        BY Distinct
      <4> QED BY <1>1, <1>3, <4>1, <4>2, <4>3 DEF Knows, c
    <3>2. Fits(t)'
      BY <1>1, <1>5, <1>6, <1>8, <2>1 DEF Fits, Untouched
    <3> QED BY <2>1, <3>1, <3>2
  <2>2. CASE u # t
    <3>1. op[u].at # "idle" /\ Knows(u) /\ Fits(u) /\ Untouched(op'[u], op[u])
      BY <1>6, <1>8, <2>2 DEF Untouched, Threading
    <3>2. op[u].behind \subseteq op'[u].behind
          /\ (op[u].conn = c => "status" \in op'[u].behind)
      BY <1>6, <2>2, <3>1
    <3>3. Fits(u)' /\ Unwritten(u)' = Unwritten(u)
      BY <3>1 DEF Fits, Untouched, Unwritten
    <3>4. CASE op[u].conn = c
      BY <1>3, <3>1, <3>2, <3>3, <3>4 DEF Knows, Untouched
    <3>5. CASE op[u].conn # c
      <4>1. row'[op[u].conn] = row[op[u].conn]
        BY <1>4, <3>5 DEF Types, Ops
      <4> QED BY <3>1, <3>2, <3>3, <4>1 DEF Knows, Untouched
    <3> QED BY <3>3, <3>4, <3>5
  <2> QED BY <2>1, <2>2
<1>9. Threading'
  BY <1>8 DEF Threading
<1>10. \A k \in Connections : row'[k].life = row[k].life /\ row'[k].cfg = row[k].cfg
                               /\ row'[k].paused = row[k].paused
  BY <1>3, <1>4
<1>11. EnginesFollowProfiles'
  <2>1. \A k \in Connections : Undisposed(k) \subseteq Undisposed(k)'
    <3> SUFFICES ASSUME NEW k \in Connections, NEW x \in Undisposed(k)
                 PROVE  x \in Undisposed(k)'
      OBVIOUS
    <3>1. PICK u \in Threads : op[u].at = "disposing" /\ op[u].conn = k /\ x \in op[u].changed
      BY DEF Undisposed
    <3>2. Untouched(op'[u], op[u])
      BY <1>1, <1>6, <3>1
    <3> QED BY <3>1, <3>2 DEF Undisposed, Untouched
  <2> QED BY <1>1, <1>10, <2>1 DEF EnginesFollowProfiles, Differs, Held, Live
<1>12. StatusIsLastVerdict'
  <2>1. row'[c].status = row'[c].tested \/ row'[c].mixed
    BY <1>1, <1>3 DEF Knows, Recorded
  <2> QED BY <1>4, <2>1 DEF StatusIsLastVerdict
<1> QED BY <1>1, <1>7, <1>9, <1>10, <1>11, <1>12 DEF Born, Held

LEMMA EditCommitsInv == ASSUME IInv, NEW t \in Threads, EditCommits(t) PROVE IInv'
<1> USE DEF IInv
<1> DEFINE c == op[t].conn
           set == op[t].changed
           kept == IF "paused" \in set THEN op[t].kind = "pause" ELSE op[t].paused
           stop == IF "paused" \in set THEN op[t].kind = "pause" ELSE row[c].paused
           life == IF "row" \in set THEN "deleted" ELSE row[c].life
           mine == [op[t] EXCEPT !.at = AfterCommit(t), !.paused = kept]
           written == [f \in Fields |-> IF f \in set THEN op[t].cfg[f] ELSE row[c].cfg[f]]
<1>1. /\ op[t] \in Ops /\ c \in Connections /\ row[c] \in Rows
      /\ op[t].at = "editing" /\ UNCHANGED engines
  BY DEF EditCommits, Types, Ops, registry
<1>2. Knows(t) /\ Fits(t)
  BY <1>1 DEF Threading
<1>3. /\ set \in SUBSET Columns
      /\ \/ op[t].kind = "update" /\ set \subseteq Fields
         \/ op[t].kind \in {"pause", "resume"} /\ set \subseteq {"paused"}
         \/ op[t].kind = "delete" /\ set = {"row"}
      /\ "status" \notin set
      /\ "row" \in set => op[t].kind = "delete"
  BY <1>1, <1>2, Distinct DEF Fits, Ops
<1>4. /\ row' = [row EXCEPT ![c] =
            [@ EXCEPT !.cfg = written, !.paused = stop, !.life = life]]
      /\ Outdate(t, set, mine)
  BY DEF EditCommits
<1> HIDE DEF written, stop, life
<1>0. row'[c] = [row[c] EXCEPT !.cfg = written, !.paused = stop, !.life = life]
  BY <1>1, <1>4 DEF Types
<1>5. /\ row'[c].cfg = written /\ row'[c].status = row[c].status
      /\ row'[c].tested = row[c].tested /\ row'[c].mixed = row[c].mixed
      /\ row'[c].life = IF "row" \in set THEN "deleted" ELSE row[c].life
      /\ row'[c].paused = stop
  BY <1>0, <1>1 DEF Rows, life
<1>6. /\ "paused" \in set => row'[c].paused = (op[t].kind = "pause")
      /\ "paused" \notin set => row'[c].paused = row[c].paused
  BY <1>5, Zenon DEF stop
<1>7. \A k \in Connections : k # c => row'[k] = row[k]
  BY <1>4 DEF Types
<1>8. /\ mine \in Ops /\ mine.at = AfterCommit(t)
      /\ mine.kind = op[t].kind /\ mine.conn = c /\ mine.cfg = op[t].cfg
      /\ mine.behind = op[t].behind /\ mine.changed = set
      /\ mine.status = op[t].status
  <2>0. op[t].paused \in BOOLEAN
    BY <1>1 DEF Ops
  <2>1. kept \in BOOLEAN
    BY <2>0, Zenon DEF kept
  <2>2. AfterCommit(t) \in {"probing", "disposing"}
    BY DEF AfterCommit
  <2> HIDE DEF kept
  <2> QED BY <1>1, <2>1, <2>2 DEF Ops
<1>9. /\ "paused" \in set => mine.paused = (op[t].kind = "pause")
      /\ "paused" \notin set => mine.paused = op[t].paused
  <2>1. mine.paused = kept
    <3> HIDE DEF kept
    <3> QED BY <1>1 DEF Ops
  <2> QED BY <2>1, Zenon DEF kept
<1>10. /\ op' \in [Threads -> Ops]
       /\ Untouched(op'[t], mine) /\ op'[t].behind = mine.behind \ set
       /\ \A u \in Threads \ {t} :
            /\ Untouched(op'[u], op[u])
            /\ op[u].at # "idle" =>
                 op'[u].behind = IF op[u].conn = c
                                   THEN op[u].behind \cup set ELSE op[u].behind
  <2>1. Types /\ set \in SUBSET Columns /\ mine \in Ops /\ Outdate(t, set, mine)
    BY <1>3, <1>4, <1>8
  <2> HIDE DEF mine, set, kept
  <2> QED BY <2>1, Outdated
<1>11. \A f \in Fields : written[f] = IF f \in set THEN op[t].cfg[f] ELSE row[c].cfg[f]
  BY DEF written
<1>12. written \in Configs
  BY <1>1 DEF Configs, Rows, Ops, written
<1> HIDE DEF c, mine, set, kept, written
<1>13. Types'
  <2>1. row'[c] \in Rows
    <3>1. row[c].paused \in BOOLEAN /\ row[c].life \in {"unborn", "live", "deleted"}
      BY <1>1 DEF Rows
    <3>2. stop \in BOOLEAN
      BY <3>1, Zenon DEF stop
    <3>3. life \in {"unborn", "live", "deleted"}
      BY <3>1 DEF life
    <3> QED BY <1>0, <1>1, <1>12, <3>2, <3>3 DEF Rows
  <2>2. row' \in [Connections -> Rows]
    BY <1>1, <1>4, <1>7, <2>1 DEF Types
  <2> QED BY <1>1, <1>10, <2>2 DEF Types
<1>14. Knows(t)' /\ Fits(t)'
  <2>1. /\ op'[t].at = AfterCommit(t) /\ op'[t].kind = op[t].kind /\ op'[t].conn = c
        /\ op'[t].cfg = op[t].cfg /\ op'[t].status = op[t].status
        /\ op'[t].changed = set /\ op'[t].behind = op[t].behind \ set
    BY <1>8, <1>10 DEF Untouched
  <2>2. /\ "paused" \in set => op'[t].paused = (op[t].kind = "pause")
        /\ "paused" \notin set => op'[t].paused = op[t].paused
    BY <1>9, <1>10 DEF Untouched
  <2>3. row'[c].life # "unborn"
    BY <1>2, <1>5 DEF Knows, c
  <2>4. ASSUME NEW f \in Fields, op'[t].cfg[f] # row'[c].cfg[f] PROVE f \in op'[t].behind
    <3>1. f \notin set /\ op[t].cfg[f] # row[c].cfg[f]
      BY <1>5, <1>11, <2>1, <2>4
    <3> QED BY <1>2, <2>1, <3>1 DEF Knows, Unwritten, c, set
  <2>5. op'[t].paused # row'[c].paused => "paused" \in op'[t].behind
    BY <1>2, <1>6, <2>1, <2>2 DEF Knows, c
  <2>6. op'[t].status # row'[c].status => "status" \in op'[t].behind
    BY <1>1, <1>2, <1>3, <1>5, <2>1 DEF Knows, c
  <2>7. row'[c].life # "live" => "row" \in op'[t].behind \/ op'[t].kind = "delete"
    BY <1>2, <1>3, <1>5, <2>1 DEF Knows, c
  <2>8. Knows(t)'
    BY <2>1, <2>3, <2>4, <2>5, <2>6, <2>7 DEF Knows
  <2>9. Fits(t)'
    BY <1>1, <1>2, <2>1 DEF Fits, AfterCommit, set
  <2> QED BY <2>8, <2>9
<1>15. ASSUME NEW u \in Threads \ {t}, op'[u].at # "idle" PROVE Knows(u)' /\ Fits(u)'
  <2>1. op[u].at # "idle" /\ Knows(u) /\ Fits(u) /\ Untouched(op'[u], op[u])
    BY <1>10, <1>15 DEF Untouched, Threading
  <2>2. Fits(u)' /\ Unwritten(u)' = Unwritten(u)
    BY <2>1 DEF Fits, Untouched, Unwritten
  <2>3. CASE op[u].conn # c
    <3>1. row'[op[u].conn] = row[op[u].conn] /\ op'[u].behind = op[u].behind
      BY <1>7, <1>10, <2>1, <2>3 DEF Types, Ops
    <3> QED BY <2>1, <2>2, <3>1 DEF Knows, Untouched
  <2>4. CASE op[u].conn = c
    <3>1. op'[u].behind = op[u].behind \cup set
      BY <1>10, <2>1, <2>4
    <3>2. /\ row[c].life # "unborn"
          /\ \A f \in Fields :
               op[u].cfg[f] # row[c].cfg[f] => f \in op[u].behind \/ f \in Unwritten(u)
          /\ op[u].paused # row[c].paused => "paused" \in op[u].behind
          /\ op[u].status # row[c].status =>
               "status" \in op[u].behind \/ op[u].at = "dropping"
          /\ row[c].life # "live" => "row" \in op[u].behind \/ op[u].kind = "delete"
      BY <2>1, <2>4 DEF Knows
    <3>3. /\ op'[u].conn = c /\ op'[u].cfg = op[u].cfg /\ op'[u].paused = op[u].paused
          /\ op'[u].status = op[u].status /\ op'[u].at = op[u].at
          /\ op'[u].kind = op[u].kind
      BY <2>1, <2>4 DEF Untouched
    <3>4. \A f \in Fields : op'[u].cfg[f] # row'[c].cfg[f] =>
                              f \in op'[u].behind \/ f \in Unwritten(u)'
      BY <1>5, <1>11, <2>2, <3>1, <3>2, <3>3
    <3>5. op'[u].paused # row'[c].paused => "paused" \in op'[u].behind
      BY <1>6, <3>1, <3>2, <3>3
    <3>6. Knows(u)'
      BY <1>5, <3>1, <3>2, <3>3, <3>4, <3>5 DEF Knows
    <3> QED BY <2>2, <3>6
  <2> QED BY <2>3, <2>4
<1>16. Threading'
  BY <1>14, <1>15 DEF Threading
<1>17. Born'
  BY <1>1, <1>2, <1>5, <1>7 DEF Born, Held, Knows, c
<1>18. EnginesFollowProfiles'
  <2> SUFFICES ASSUME NEW k \in Held', NEW x \in Differs(k)'
               PROVE  x \in engines'[k].late \/ x \in Undisposed(k)'
    BY DEF EnginesFollowProfiles
  <2>1. k \in Held /\ k \in Connections /\ engines'[k] = engines[k]
    BY <1>1 DEF Held
  <2>2. ASSUME x \in Differs(k) PROVE x \in engines'[k].late \/ x \in Undisposed(k)'
    <3>1. x \in engines[k].late \/ x \in Undisposed(k)
      BY <2>1, <2>2 DEF EnginesFollowProfiles
    <3>2. ASSUME x \in Undisposed(k) PROVE x \in Undisposed(k)'
      <4>1. PICK u \in Threads :
              op[u].at = "disposing" /\ op[u].conn = k /\ x \in op[u].changed
        BY <3>2 DEF Undisposed
      <4>2. Untouched(op'[u], op[u])
        BY <1>1, <1>10, <4>1
      <4> QED BY <4>1, <4>2 DEF Undisposed, Untouched
    <3> QED BY <2>1, <3>1, <3>2
  <2>3. CASE k # c
    BY <1>7, <2>1, <2>2, <2>3 DEF Differs, Live
  <2>4. CASE k = c /\ x \notin set
    <3>1. \/ x \in Fields /\ engines[k].cfg[x] # row'[c].cfg[x]
          \/ x = "paused" /\ row'[c].paused
          \/ x = "row" /\ row'[c].life # "live"
      BY <2>1, <2>4 DEF Differs, Live
    <3>2. x \in Differs(k)
      BY <1>5, <1>6, <1>11, <2>4, <3>1 DEF Differs, Live
    <3> QED BY <2>2, <3>2
  <2>5. CASE k = c /\ x \in set
    <3>1. op[t].kind # "resume"
      <4>1. SUFFICES ASSUME op[t].kind = "resume" PROVE FALSE
        OBVIOUS
      <4>2. x = "paused" /\ ~row'[c].paused
        BY <1>3, <1>6, <2>5, <4>1
      <4> QED BY <2>5, <4>2, Distinct DEF Differs
    <3>2. op'[t].at = "disposing" /\ op'[t].conn = k /\ x \in op'[t].changed
      BY <1>8, <1>10, <2>5, <3>1 DEF Untouched, AfterCommit
    <3> QED BY <3>2 DEF Undisposed
  <2> QED BY <2>3, <2>4, <2>5
<1>19. StatusIsLastVerdict'
  BY <1>5, <1>7 DEF StatusIsLastVerdict
<1> QED BY <1>13, <1>16, <1>17, <1>18, <1>19

-----------------------------------------------------------------------------

LEMMA NextInv == IInv /\ [Next]_vars => IInv'
<1> SUFFICES ASSUME IInv, [Next]_vars PROVE IInv'
  OBVIOUS
<1> USE DEF IInv
<1>1. ASSUME NEW t \in Threads, EditFails(t) \/ RecordFails(t) \/ Drop(t) PROVE IInv'
  <2>1. op' = [op EXCEPT ![t] = IdleOp] /\ UNCHANGED row /\ op[t].at # "disposing"
    BY <1>1 DEF EditFails, RecordFails, Drop
  <2>2. engines' = engines \/ engines' = [engines EXCEPT ![op[t].conn] = None]
    BY <1>1 DEF EditFails, RecordFails, Drop, DisposeEngine, registry
  <2>3. engines' \in [Connections -> Engines \cup {None}]
        /\ \A c \in Connections : engines'[c] \in {engines[c], None}
    BY <2>2 DEF Types
  <2>4. op' \in [Threads -> Ops]
        /\ \A u \in Threads : op'[u] = op[u] \/ (op'[u] = IdleOp /\ op[u].at # "disposing")
    BY <2>1, IdleType DEF Types
  <2> QED BY <2>1, <2>3, <2>4, EndsInv
<1>2. CASE DisposeAll
  <2>1. /\ engines' = [c \in Connections |-> None] /\ UNCHANGED <<row, op>>
    BY <1>2 DEF DisposeAll
  <2> QED BY <2>1, EndsInv DEF Types
<1>3. CASE UNCHANGED vars
  <2>1. UNCHANGED <<row, engines, op>>
    BY <1>3 DEF vars, registry
  <2> QED BY <2>1, EndsInv DEF Types
<1>4. ASSUME NEW t \in Threads, NEW c \in Connections,
             Create(t, c) \/ \E kind \in Kinds : Load(t, c, kind)
      PROVE  IInv'
  BY <1>4, CreateInv, LoadInv
<1>5. ASSUME NEW t \in Threads,
             Run(t) \/ EditCommits(t) \/ Dispose(t) \/ Probe(t) \/ Record(t)
      PROVE  IInv'
  BY <1>5, RunInv, EditCommitsInv, DisposeInv, ProbeInv, RecordInv
<1> QED BY <1>1, <1>2, <1>3, <1>4, <1>5 DEF Next

LEMMA Invariance == Spec => []IInv
BY InitInv, NextInv, PTL DEF Spec

\* Whatever an engine in the registry has that is not in its stored profile was
\* committed after its builder had loaded it, or by a request that has yet to
\* dispose the engine (update_connection, pause_connection, delete_connection).
THEOREM EnginesFollow == Spec => []EnginesFollowProfiles
BY Invariance, PTL DEF IInv

\* The status of a connection is the verdict test_connection recorded last, but
\* for a test that overlapped another one.
THEOREM StatusHolds == Spec => []StatusIsLastVerdict
BY Invariance, PTL DEF IInv

-----------------------------------------------------------------------------
(* The order of the registry: a sequence that lists a set, each member once. *)

Lined(s, S) == s \in Seq(Connections) /\ IsInjective(s) /\ ToSet(s) = S

LEMMA LinedIs ==
  ASSUME NEW s, NEW S
  PROVE  Lined(s, S) <=>
           /\ s \in Seq(Connections) /\ Len(s) \in Nat /\ DOMAIN s = 1 .. Len(s)
           /\ \A i, j \in 1 .. Len(s) : s[i] = s[j] => i = j
           /\ \A i \in 1 .. Len(s) : s[i] \in S
           /\ \A x \in S : \E i \in 1 .. Len(s) : s[i] = x
<1>1. ASSUME s \in Seq(Connections) PROVE Len(s) \in Nat /\ DOMAIN s = 1 .. Len(s)
  BY <1>1
<1>2. ToSet(s) = S <=> /\ \A i \in DOMAIN s : s[i] \in S
                       /\ \A x \in S : \E i \in DOMAIN s : s[i] = x
  BY DEF ToSet
<1> QED BY <1>1, <1>2 DEF Lined, IsInjective

LEMMA RemovedAt ==
  ASSUME NEW s \in Seq(Connections), NEW p \in 1 .. Len(s)
  PROVE  /\ RemoveAt(s, p) \in Seq(Connections)
         /\ Len(RemoveAt(s, p)) = Len(s) - 1
         /\ \A i \in 1 .. Len(s) - 1 : RemoveAt(s, p)[i] = IF i < p THEN s[i] ELSE s[i + 1]
<1> DEFINE h == SubSeq(s, 1, p - 1)
           t == SubSeq(s, p + 1, Len(s))
<1>1. Len(s) \in Nat /\ p \in Nat /\ 1 <= p /\ p <= Len(s) /\ \A i \in 1 .. Len(s) : s[i] \in Connections
  OBVIOUS
<1>2. /\ h \in Seq(Connections) /\ Len(h) = p - 1
      /\ \A i \in 1 .. p - 1 : h[i] = s[i]
  <2>1. p - 1 \in Int /\ 1 \in Int /\ \A i \in 1 .. p - 1 : s[i] \in Connections
    BY <1>1
  <2>2. /\ h \in Seq(Connections) /\ Len(h) = IF 1 <= p - 1 THEN p - 1 - 1 + 1 ELSE 0
        /\ \A i \in 1 .. p - 1 - 1 + 1 : h[i] = s[1 + i - 1]
    BY <2>1, SubSeqProperties
  <2> HIDE DEF h
  <2>3. ASSUME NEW i \in 1 .. p - 1 PROVE h[i] = s[i]
    <3>1. i \in 1 .. p - 1 - 1 + 1 /\ 1 + i - 1 = i
      BY <1>1
    <3>2. h[i] = s[1 + i - 1]
      BY <2>2, <3>1
    <3> QED BY <3>1, <3>2
  <2> QED BY <1>1, <2>2, <2>3
<1>3. /\ t \in Seq(Connections) /\ Len(t) = Len(s) - p
      /\ \A i \in 1 .. Len(s) - p : t[i] = s[p + i]
  <2>1. p + 1 \in Int /\ Len(s) \in Int /\ \A i \in p + 1 .. Len(s) : s[i] \in Connections
    BY <1>1
  <2>2. /\ t \in Seq(Connections) /\ Len(t) = IF p + 1 <= Len(s) THEN Len(s) - (p + 1) + 1 ELSE 0
        /\ \A i \in 1 .. Len(s) - (p + 1) + 1 : t[i] = s[(p + 1) + i - 1]
    BY <2>1, SubSeqProperties
  <2> HIDE DEF t
  <2>3. ASSUME NEW i \in 1 .. Len(s) - p PROVE t[i] = s[p + i]
    <3>1. i \in 1 .. Len(s) - (p + 1) + 1 /\ (p + 1) + i - 1 = p + i
      BY <1>1
    <3>2. t[i] = s[(p + 1) + i - 1]
      BY <2>2, <3>1
    <3> QED BY <3>1, <3>2
  <2> QED BY <1>1, <2>2, <2>3
<1>4. RemoveAt(s, p) = h \o t
  BY DEF RemoveAt
<1> HIDE DEF h, t
<1>5. /\ h \o t \in Seq(Connections) /\ Len(h \o t) = Len(h) + Len(t)
      /\ \A i \in 1 .. Len(h) + Len(t) : (h \o t)[i] = IF i <= Len(h) THEN h[i] ELSE t[i - Len(h)]
  BY <1>2, <1>3, ConcatProperties
<1>6. Len(h) + Len(t) = Len(s) - 1
  BY <1>1, <1>2, <1>3
<1>7. ASSUME NEW i \in 1 .. Len(s) - 1
      PROVE  RemoveAt(s, p)[i] = IF i < p THEN s[i] ELSE s[i + 1]
  BY <1>1, <1>2, <1>3, <1>4, <1>5, <1>6
<1> QED BY <1>4, <1>5, <1>6, <1>7

\* pop: one leaves, the others stay.
LEMMA WithoutLined ==
  ASSUME NEW s, NEW S, Lined(s, S), NEW c
  PROVE  /\ Lined(Without(s, c), S \ {c})
         /\ Len(Without(s, c)) = IF c \in S THEN Len(s) - 1 ELSE Len(s)
<1>1. /\ s \in Seq(Connections) /\ Len(s) \in Nat /\ DOMAIN s = 1 .. Len(s)
      /\ \A i, j \in 1 .. Len(s) : s[i] = s[j] => i = j
      /\ \A i \in 1 .. Len(s) : s[i] \in S
      /\ \A x \in S : \E i \in 1 .. Len(s) : s[i] = x
  BY LinedIs
<1>2. CASE c \notin S
  <2>1. Without(s, c) = s /\ S \ {c} = S
    BY <1>2 DEF Without, Lined
  <2> QED BY <1>2, <2>1
<1>3. CASE c \in S
  <2> DEFINE p == Place(s, c)
             r == Without(s, c)
             n == Len(s) - 1
  <2>1. p \in 1 .. Len(s) /\ s[p] = c
    BY <1>1, <1>3 DEF Place
  <2>2. r = RemoveAt(s, p)
    BY <1>3 DEF Lined, Without
  <2> HIDE DEF p, r
  <2>3. /\ r \in Seq(Connections) /\ Len(r) = n /\ n \in Nat /\ DOMAIN r = 1 .. n
        /\ \A i \in 1 .. n : r[i] = IF i < p THEN s[i] ELSE s[i + 1]
    <3>1. /\ r \in Seq(Connections) /\ Len(r) = n
          /\ \A i \in 1 .. n : r[i] = IF i < p THEN s[i] ELSE s[i + 1]
      <4>1. /\ RemoveAt(s, p) \in Seq(Connections)
            /\ Len(RemoveAt(s, p)) = Len(s) - 1
            /\ \A i \in 1 .. Len(s) - 1 : RemoveAt(s, p)[i] = IF i < p THEN s[i] ELSE s[i + 1]
        <5> HIDE DEF n
        <5> QED BY <1>1, <2>1, RemovedAt
      <4> QED BY <2>2, <4>1
    <3> QED BY <1>1, <2>1, <3>1
  <2>4. ASSUME NEW i \in 1 .. n, NEW j \in 1 .. n, r[i] = r[j] PROVE i = j
    <3> DEFINE i1 == IF i < p THEN i ELSE i + 1
               j1 == IF j < p THEN j ELSE j + 1
    <3>1. i1 \in 1 .. Len(s) /\ j1 \in 1 .. Len(s)
      BY <1>1, <2>1
    <3>2. r[i] = s[i1] /\ r[j] = s[j1]
      BY <2>3
    <3>3. i1 = j1
      BY <1>1, <2>4, <3>1, <3>2
    <3> QED BY <2>1, <3>3
  <2>5. ASSUME NEW i \in 1 .. n PROVE r[i] \in S \ {c}
    <3> DEFINE i1 == IF i < p THEN i ELSE i + 1
    <3>1. i1 \in 1 .. Len(s) /\ i1 # p
      BY <1>1, <2>1
    <3>2. r[i] = s[i1]
      BY <2>3
    <3> HIDE DEF i1
    <3>3. s[i1] \in S /\ (s[i1] = s[p] => i1 = p)
      BY ONLY <1>1, <2>1, <3>1
    <3> QED BY ONLY <2>1, <3>1, <3>2, <3>3
  <2>6. ASSUME NEW x \in S \ {c} PROVE \E i \in 1 .. n : r[i] = x
    <3>1. PICK i \in 1 .. Len(s) : s[i] = x
      BY <1>1
    <3>2. CASE i < p
      BY <1>1, <2>1, <2>3, <3>1, <3>2
    <3>3. CASE i > p
      <4>1. i - 1 \in 1 .. n /\ ~(i - 1 < p) /\ (i - 1) + 1 = i
        BY <1>1, <2>1, <3>3
      <4> QED BY <2>3, <3>1, <4>1
    <3> QED BY <1>1, <2>1, <3>1, <3>2, <3>3
  <2>7. Lined(r, S \ {c})
    BY <2>3, <2>4, <2>5, <2>6, LinedIs
  <2> QED BY <1>3, <2>3, <2>7 DEF r
<1> QED BY <1>2, <1>3

\* move_to_end of one that is not there any more.
LEMMA AppendLined ==
  ASSUME NEW s, NEW S, Lined(s, S), NEW c \in Connections, c \notin S
  PROVE  Lined(Append(s, c), S \cup {c}) /\ Len(Append(s, c)) = Len(s) + 1
<1> DEFINE m == Append(s, c)
           n == Len(s) + 1
<1>1. /\ s \in Seq(Connections) /\ Len(s) \in Nat
      /\ \A i, j \in 1 .. Len(s) : s[i] = s[j] => i = j
      /\ \A i \in 1 .. Len(s) : s[i] \in S
      /\ \A x \in S : \E i \in 1 .. Len(s) : s[i] = x
  BY LinedIs
<1>2. /\ m \in Seq(Connections) /\ Len(m) = n /\ n \in Nat /\ DOMAIN m = 1 .. n
      /\ \A i \in 1 .. Len(s) : m[i] = s[i]
      /\ m[n] = c /\ n \in 1 .. n
  BY <1>1
<1> HIDE DEF m
<1>3. \A i, j \in 1 .. n : m[i] = m[j] => i = j
  BY <1>1, <1>2
<1>4. \A i \in 1 .. n : m[i] \in S \cup {c}
  BY <1>1, <1>2
<1>5. ASSUME NEW x \in S \cup {c} PROVE \E i \in 1 .. n : m[i] = x
  <2>1. CASE x = c
    BY <1>2, <2>1
  <2>2. CASE x \in S
    <3>1. PICK i \in 1 .. Len(s) : s[i] = x
      BY <1>1, <2>2
    <3>2. i \in 1 .. n
      BY <1>1
    <3> QED BY <1>2, <3>1, <3>2
  <2> QED BY <2>1, <2>2
<1>6. Lined(m, S \cup {c})
  BY <1>2, <1>3, <1>4, <1>5, LinedIs
<1> QED BY <1>2, <1>6 DEF m

\* popitem(last=False).
LEMMA TailLined ==
  ASSUME NEW s, NEW S, Lined(s, S), Len(s) > 0
  PROVE  /\ Lined(Tail(s), S \ {Head(s)})
         /\ Len(Tail(s)) = Len(s) - 1
<1> DEFINE r == Tail(s)
           n == Len(s) - 1
<1>1. /\ s \in Seq(Connections) /\ Len(s) \in Nat
      /\ \A i, j \in 1 .. Len(s) : s[i] = s[j] => i = j
      /\ \A i \in 1 .. Len(s) : s[i] \in S
      /\ \A x \in S : \E i \in 1 .. Len(s) : s[i] = x
  BY LinedIs
<1>2. Head(s) = s[1] /\ 1 \in 1 .. Len(s)
  BY <1>1
<1>3. /\ r \in Seq(Connections) /\ Len(r) = n /\ n \in Nat /\ DOMAIN r = 1 .. n
      /\ \A i \in 1 .. n : r[i] = s[i + 1]
  BY <1>1
<1> HIDE DEF r
<1>4. \A i \in 1 .. n : i + 1 \in 1 .. Len(s) /\ i + 1 # 1
  BY <1>1
<1>5. ASSUME NEW i \in 1 .. n, NEW j \in 1 .. n, r[i] = r[j] PROVE i = j
  <2>1. i + 1 = j + 1
    BY <1>1, <1>3, <1>4, <1>5
  <2> QED BY <1>3, <2>1
<1>6. \A i \in 1 .. n : r[i] \in S \ {s[1]}
  BY <1>1, <1>2, <1>3, <1>4
<1>7. ASSUME NEW x \in S \ {s[1]} PROVE \E i \in 1 .. n : r[i] = x
  <2>1. PICK i \in 1 .. Len(s) : s[i] = x
    BY <1>1
  <2>2. i # 1
    BY <2>1
  <2>3. i - 1 \in 1 .. n /\ (i - 1) + 1 = i
    BY <1>1, <2>2
  <2> QED BY <1>3, <2>1, <2>3
<1>8. Lined(r, S \ {s[1]})
  BY <1>3, <1>5, <1>6, <1>7, LinedIs
<1> QED BY <1>2, <1>3, <1>8 DEF r

Orderly == Lined(order, Held) /\ Len(order) <= MaxEngines /\ commits \in 0 .. MaxCommits

LEMMA BoundType == MaxEngines \in Nat /\ MaxEngines > 0 /\ MaxCommits \in Nat /\ None \notin Engines
BY TargetsAssumption

LEMMA EmptyOrdered ==
  ASSUME NEW s, s = <<>>
  PROVE  Lined(s, {}) /\ Len(s) = 0
<1>1. s \in Seq(Connections) /\ Len(s) = 0 /\ DOMAIN s = {}
  OBVIOUS
<1> QED BY <1>1 DEF Lined, IsInjective, ToSet

LEMMA OrderedInit == Init => Orderly
<1> SUFFICES ASSUME Init PROVE Orderly
  OBVIOUS
<1>1. Held = {} /\ order = <<>> /\ commits = 0
  BY DEF Init, Held
<1> QED BY <1>1, EmptyOrdered, BoundType DEF Orderly

LEMMA OrderedGet ==
  ASSUME IInv, Orderly, NEW t \in Threads, GetEngine(t)
  PROVE  Lined(order', Held') /\ Len(order') <= MaxEngines
<1> DEFINE c == op[t].conn
           w == Without(order, c)
           s == Append(w, c)
<1>1. c \in Connections /\ [cfg |-> op[t].cfg, late |-> op[t].behind] # None
  <2>1. op[t] \in Ops
    BY DEF IInv, Types
  <2>2. [cfg |-> op[t].cfg, late |-> op[t].behind] \in Engines
    BY <2>1 DEF Ops, Engines
  <2> QED BY <2>1, <2>2, BoundType DEF Ops
<1>2. /\ order' = IF Evicted(s) = {} THEN s ELSE Tail(s)
      /\ engines' = [x \in Connections |->
           IF x \in Evicted(s) THEN None
           ELSE IF x = c /\ engines[c] = None
             THEN [cfg |-> op[t].cfg, late |-> op[t].behind]
             ELSE engines[x]]
  BY DEF GetEngine
<1>3. Held' = (Held \cup {c}) \ Evicted(s)
  <2>1. Held' = {x \in Connections : engines'[x] # None}
    BY DEF Held
  <2> HIDE DEF c, s
  <2>2. \A x \in Connections : engines'[x] # None <=> x \notin Evicted(s) /\ (x = c \/ engines[x] # None)
    BY <1>1, <1>2 DEF c
  <2>3. \A x \in Connections : engines[x] # None <=> x \in Held
    BY DEF Held
  <2> QED BY <1>1, <2>1, <2>2, <2>3 DEF Held
<1>4. Lined(w, Held \ {c}) /\ Len(w) = IF c \in Held THEN Len(order) - 1 ELSE Len(order)
  BY WithoutLined DEF Orderly
<1> HIDE DEF c, w
<1>5. Len(order) \in Nat /\ Len(order) <= MaxEngines /\ MaxEngines \in Nat /\ MaxEngines > 0
  BY LinedIs, BoundType DEF Orderly
<1>6. Lined(s, (Held \ {c}) \cup {c}) /\ Len(s) = Len(w) + 1
  BY <1>1, <1>4, AppendLined
<1>7. (Held \ {c}) \cup {c} = Held \cup {c}
  OBVIOUS
<1>8. Len(s) \in Nat /\ Len(s) <= MaxEngines + 1
  BY <1>4, <1>5, <1>6, LinedIs
<1> HIDE DEF s
<1>9. CASE Len(s) > MaxEngines
  <2>1. Evicted(s) = {Head(s)} /\ order' = Tail(s)
    BY <1>2, <1>9 DEF Evicted
  <2>2. Lined(Tail(s), (Held \cup {c}) \ {Head(s)}) /\ Len(Tail(s)) = Len(s) - 1
    BY <1>5, <1>6, <1>7, <1>8, <1>9, TailLined
  <2>3. Len(Tail(s)) <= MaxEngines
    BY <1>5, <1>8, <2>2
  <2> QED BY <1>3, <2>1, <2>2, <2>3
<1>10. CASE ~ (Len(s) > MaxEngines)
  <2>1. Evicted(s) = {} /\ order' = s
    BY <1>2, <1>10 DEF Evicted
  <2>2. Held' = Held \cup {c}
    BY <1>3, <2>1
  <2>3. Len(s) <= MaxEngines
    BY <1>5, <1>8, <1>10
  <2> QED BY <1>6, <1>7, <2>1, <2>2, <2>3
<1> QED BY <1>9, <1>10

LEMMA OrderedDispose ==
  ASSUME IInv, Orderly, NEW t \in Threads, DisposeEngine(t)
  PROVE  Lined(order', Held') /\ Len(order') <= MaxEngines
<1> DEFINE c == op[t].conn
<1>1. engines' = [engines EXCEPT ![c] = None] /\ order' = Without(order, c)
  BY DEF DisposeEngine
<1>2. Held' = Held \ {c}
  BY <1>1 DEF Held, IInv, Types
<1> HIDE DEF c
<1>3. Lined(Without(order, c), Held \ {c})
      /\ Len(Without(order, c)) = IF c \in Held THEN Len(order) - 1 ELSE Len(order)
  BY WithoutLined DEF Orderly
<1>4. Len(order) \in Nat /\ Len(order) <= MaxEngines /\ MaxEngines \in Nat
  BY LinedIs, BoundType DEF Orderly
<1> QED BY <1>1, <1>2, <1>3, <1>4

LEMMA OrderedStep == IInv /\ Orderly /\ [Next]_vars => Orderly'
<1> SUFFICES ASSUME IInv, Orderly, [Next]_vars PROVE Orderly'
  OBVIOUS
<1>1. ASSUME UNCHANGED registry, commits' \in 0 .. MaxCommits PROVE Orderly'
  BY <1>1 DEF Orderly, registry, Held
<1>2. ASSUME NEW t \in Threads, GetEngine(t), UNCHANGED commits PROVE Orderly'
  BY <1>2, OrderedGet DEF Orderly
<1>3. ASSUME NEW t \in Threads, DisposeEngine(t), UNCHANGED commits PROVE Orderly'
  BY <1>3, OrderedDispose DEF Orderly
<1>4. commits \in 0 .. MaxCommits /\ (commits < MaxCommits => commits + 1 \in 0 .. MaxCommits)
  BY BoundType DEF Orderly
<1>5. ASSUME NEW t \in Threads, Run(t) \/ Probe(t) PROVE Orderly'
  <2>1. (GetEngine(t) \/ UNCHANGED registry) /\ UNCHANGED commits
    <3>1. ASSUME Run(t) PROVE (GetEngine(t) \/ UNCHANGED registry) /\ UNCHANGED commits
      BY <3>1 DEF Run
    <3>2. ASSUME Probe(t) PROVE (GetEngine(t) \/ UNCHANGED registry) /\ UNCHANGED commits
      BY <3>2 DEF Probe
    <3> QED BY <1>5, <3>1, <3>2
  <2> QED BY <1>1, <1>2, <1>4, <2>1
<1>6. ASSUME NEW t \in Threads, Dispose(t) \/ Drop(t) PROVE Orderly'
  BY <1>3, <1>6 DEF Dispose, Drop
<1>7. ASSUME NEW t \in Threads, EditFails(t) \/ Record(t) \/ RecordFails(t) PROVE Orderly'
  BY <1>1, <1>4, <1>7 DEF EditFails, Record, RecordFails
<1>8. ASSUME NEW t \in Threads, NEW c \in Connections, NEW kind \in Kinds, Load(t, c, kind) PROVE Orderly'
  BY <1>1, <1>4, <1>8 DEF Load
<1>9. ASSUME NEW t \in Threads, NEW c \in Connections, Create(t, c) PROVE Orderly'
  BY <1>1, <1>4, <1>9 DEF Create
<1>10. ASSUME NEW t \in Threads, EditCommits(t) PROVE Orderly'
  BY <1>1, <1>4, <1>10 DEF EditCommits
<1>11. CASE DisposeAll
  <2>1. Held' = {} /\ order' = <<>> /\ UNCHANGED commits
    BY <1>11 DEF DisposeAll, Held
  <2>2. Lined(order', {}) /\ Len(order') = 0
    BY <2>1, EmptyOrdered
  <2> QED BY <1>4, <2>1, <2>2, BoundType DEF Orderly
<1>12. CASE UNCHANGED vars
  BY <1>1, <1>4, <1>12 DEF vars
<1> QED BY <1>5, <1>6, <1>7, <1>8, <1>9, <1>10, <1>11, <1>12 DEF Next

\* The registry and the order its engines are evicted in hold the same
\* connections, each once, and never more than max_target_engines (get_engine,
\* dispose_engine).
THEOREM TargetsTypes == Spec => []RegistryTypeOK
<1>1. IInv /\ Orderly => RegistryTypeOK
  BY DEF IInv, Types, Orderly, Lined, RegistryTypeOK
<1> QED BY <1>1, OrderedInit, OrderedStep, Invariance, PTL DEF Spec

-----------------------------------------------------------------------------
(* Execution: sets of numbers, in their order.                             *)

\* A set of numbers up to a bound has a least one.
LEMMA LeastOf ==
  ASSUME NEW S, NEW L \in Nat, S \subseteq 0 .. L, S # {}
  PROVE  \E m \in S : \A y \in S : m <= y
<1> DEFINE T == {0 .. n : n \in S}
<1>1. IsFiniteSet(0 .. L)
  BY FS_Interval
<1>2. T \subseteq SUBSET (0 .. L) /\ T # {}
  <2>1. \A n \in S : 0 .. n \subseteq 0 .. L
    OBVIOUS
  <2> QED BY <2>1
<1>3. IsWellFoundedOn(StrictSubsetOrdering(0 .. L), SUBSET (0 .. L))
  <2>1. IsWellFoundedOn(StrictSubsetOrdering(0 .. L), FiniteSubsetsOf(0 .. L))
    BY FS_StrictSubsetOrderingWellFounded
  <2>2. FiniteSubsetsOf(0 .. L) = SUBSET (0 .. L)
    BY <1>1, FS_FiniteSubsetsOfFinite
  <2> QED BY ONLY <2>1, <2>2
<1> HIDE DEF T
<1>4. \E u \in T : \A v \in T : ~ (<<v, u>> \in StrictSubsetOrdering(0 .. L))
  BY <1>2, <1>3, WFMin
<1>5. PICK n \in S : \A v \in T : ~ (<<v, 0 .. n>> \in StrictSubsetOrdering(0 .. L))
  BY <1>4 DEF T
<1>6. ASSUME NEW y \in S PROVE n <= y
  <2> SUFFICES ASSUME y < n PROVE FALSE
    OBVIOUS
  <2>1. 0 .. y \in T
    BY DEF T
  <2>2. 0 .. y \subseteq 0 .. n /\ 0 .. y # 0 .. n /\ 0 .. n \subseteq 0 .. L
    <3>1. n \in 0 .. n /\ n \notin 0 .. y
      OBVIOUS
    <3>2. 0 .. y \subseteq 0 .. n /\ 0 .. n \subseteq 0 .. L
      OBVIOUS
    <3> QED BY <3>1, <3>2
  <2>3. <<0 .. y, 0 .. n>> \in StrictSubsetOrdering(0 .. L)
    BY <2>2 DEF StrictSubsetOrdering
  <2> QED BY <1>5, <2>1, <2>3
<1> QED BY <1>6

Increasing(s, S) ==
  /\ s \in [1 .. Cardinality(S) -> S]
  /\ \A i, j \in DOMAIN s : i < j => s[i] < s[j]

\* Every finite set of numbers can be put in order: the least, and then the rest.
LEMMA OrderExists ==
  ASSUME NEW L \in Nat, NEW S, S \subseteq 0 .. L
  PROVE  \E s : Increasing(s, S)
<1> DEFINE Bad == {T \in SUBSET (0 .. L) : ~ \E s : Increasing(s, T)}
<1> SUFFICES ASSUME Bad # {} PROVE FALSE
  OBVIOUS
<1>1. Bad \subseteq SUBSET (0 .. L) /\ IsFiniteSet(0 .. L)
  BY FS_Interval
<1> HIDE DEF Bad
<1>2. IsWellFoundedOn(StrictSubsetOrdering(0 .. L), SUBSET (0 .. L))
  <2>1. IsWellFoundedOn(StrictSubsetOrdering(0 .. L), FiniteSubsetsOf(0 .. L))
    BY FS_StrictSubsetOrderingWellFounded
  <2>2. FiniteSubsetsOf(0 .. L) = SUBSET (0 .. L)
    BY <1>1, FS_FiniteSubsetsOfFinite
  <2> QED BY ONLY <2>1, <2>2
<1>3. \E T \in Bad : \A U \in Bad : ~ (<<U, T>> \in StrictSubsetOrdering(0 .. L))
  BY <1>1, <1>2, WFMin
<1>4. PICK T \in Bad : \A U \in Bad : ~ (<<U, T>> \in StrictSubsetOrdering(0 .. L))
  BY <1>3
<1>5. T \subseteq 0 .. L /\ IsFiniteSet(T) /\ ~ \E s : Increasing(s, T)
  BY <1>1, FS_Subset DEF Bad
<1>6. T # {}
  <2> SUFFICES ASSUME T = {} PROVE FALSE
    OBVIOUS
  <2>1. Cardinality(T) = 0 /\ 1 .. 0 = {}
    BY FS_EmptySet
  <2>2. Increasing([i \in 1 .. 0 |-> i], T)
    BY <2>1 DEF Increasing
  <2> QED BY <1>5, <2>2
<1>7. PICK m \in T : \A y \in T : m <= y
  BY <1>5, <1>6, LeastOf
<1> DEFINE U == T \ {m}
<1>8. U \notin Bad
  <2>1. U \subseteq T /\ U # T /\ U \subseteq 0 .. L
    BY <1>5
  <2> QED BY <1>4, <1>5, <2>1 DEF StrictSubsetOrdering
<1>9. PICK s : Increasing(s, U)
  <2>1. U \in SUBSET (0 .. L)
    BY <1>5
  <2> QED BY <1>8, <2>1 DEF Bad
<1>10. /\ Cardinality(T) \in Nat /\ Cardinality(U) \in Nat /\ Cardinality(T) = Cardinality(U) + 1
  <2>1. IsFiniteSet(U) /\ Cardinality(U) = Cardinality(T) - 1
    BY <1>5, FS_RemoveElement
  <2> HIDE DEF U
  <2> QED BY <1>5, <2>1, FS_CardinalityType
<1> DEFINE n == Cardinality(T)
           t == [i \in 1 .. n |-> IF i = 1 THEN m ELSE s[i - 1]]
<1>a. Cardinality(U) = n - 1 /\ n \in Nat /\ n >= 1 /\ n = Cardinality(T)
  BY <1>10
<1>b. U \subseteq T /\ m \in T /\ m \notin U
  OBVIOUS
<1> HIDE DEF U, n
<1>11. /\ s \in [1 .. n - 1 -> U] /\ DOMAIN s = 1 .. n - 1
       /\ \A i, j \in 1 .. n - 1 : i < j => s[i] < s[j]
  BY <1>9, <1>a DEF Increasing
<1>12. t \in [1 .. n -> T]
  <2> SUFFICES ASSUME NEW i \in 1 .. n PROVE (IF i = 1 THEN m ELSE s[i - 1]) \in T
    OBVIOUS
  <2>1. CASE i = 1
    BY <1>b, <2>1
  <2>2. CASE i # 1
    <3>1. i - 1 \in 1 .. n - 1
      BY <1>a, <2>2
    <3>2. s[i - 1] \in U
      BY <1>11, <3>1
    <3> QED BY <1>b, <2>2, <3>2
  <2> QED BY <2>1, <2>2
<1>13. ASSUME NEW i \in 1 .. n, NEW j \in 1 .. n, i < j PROVE t[i] < t[j]
  <2>1. n \in Nat /\ j - 1 \in 1 .. n - 1 /\ t[j] = s[j - 1] /\ s[j - 1] \in U
    <3>1. j - 1 \in 1 .. n - 1 /\ j # 1
      BY <1>a, <1>13
    <3> QED BY <1>a, <1>11, <3>1
  <2>2. CASE i = 1
    <3>1. m \in 0 .. L /\ s[j - 1] \in 0 .. L /\ m <= s[j - 1] /\ m # s[j - 1]
      BY <1>5, <1>7, <1>b, <2>1
    <3> QED BY <2>1, <2>2, <3>1
  <2>3. CASE i # 1
    <3>1. i - 1 \in 1 .. n - 1 /\ i - 1 < j - 1 /\ t[i] = s[i - 1]
      BY <1>a, <1>13, <2>3
    <3> QED BY <1>11, <2>1, <3>1
  <2> QED BY <2>2, <2>3
<1>14. DOMAIN t = 1 .. n
  OBVIOUS
<1> HIDE DEF t
<1>15. Increasing(t, T)
  BY <1>12, <1>13, <1>14, <1>a DEF Increasing
<1> QED BY <1>5, <1>15

\* InOrder lists a set of positions, each once.
LEMMA InOrderLists ==
  ASSUME NEW L \in Nat, NEW S, S \subseteq 0 .. L
  PROVE  /\ InOrder(S) \in Seq(S) /\ Len(InOrder(S)) = Cardinality(S)
         /\ DOMAIN InOrder(S) = 1 .. Cardinality(S)
         /\ {InOrder(S)[j] : j \in DOMAIN InOrder(S)} = S
<1> DEFINE s == InOrder(S)
           n == Cardinality(S)
<1>1. Increasing(s, S)
  <2>1. \E x \in [1 .. Cardinality(S) -> S] : \A i, j \in DOMAIN x : i < j => x[i] < x[j]
    BY OrderExists DEF Increasing
  <2> QED BY <2>1 DEF InOrder, Increasing
<1>2. IsFiniteSet(S) /\ n \in Nat
  <2>1. IsFiniteSet(0 .. L) /\ S \in SUBSET (0 .. L)
    BY FS_Interval
  <2>2. IsFiniteSet(S)
    BY <2>1, FS_Subset
  <2> QED BY <2>2, FS_CardinalityType
<1> HIDE DEF s, n
<1>3. s \in [1 .. n -> S] /\ DOMAIN s = 1 .. n /\ \A i, j \in 1 .. n : i < j => s[i] < s[j]
  BY <1>1 DEF Increasing, n
<1>4. s \in Seq(S) /\ Len(s) = n
  BY <1>2, <1>3
<1>5. {s[j] : j \in 1 .. n} = S
  <2> DEFINE R == {s[j] : j \in 1 .. n}
  <2>1. R \subseteq S
    BY <1>3
  <2>2. ASSUME NEW i \in 1 .. n, NEW j \in 1 .. n, s[i] = s[j] PROVE i = j
    <3>1. s[i] \in S /\ s[j] \in S /\ i \in Nat /\ j \in Nat
      BY <1>2, <1>3
    <3>0. \A x \in S : x \in Nat
      OBVIOUS
    <3>2. s[i] \in Nat /\ s[j] \in Nat
      BY <3>0, <3>1
    <3>3. ~(s[i] < s[j]) /\ ~(s[j] < s[i])
      BY <2>2, <3>2
    <3> QED BY <1>3, <3>1, <3>3
  <2>3. s \in Bijection(1 .. n, R)
    <3>1. s \in [1 .. n -> R]
      BY <1>3
    <3>2. \A x \in R : \E i \in 1 .. n : s[i] = x
      OBVIOUS
    <3> HIDE DEF R
    <3> QED BY <2>2, <3>1, <3>2 DEF Bijection, Injection, Surjection, IsInjective
  <2> HIDE DEF R
  <2>4. IsFiniteSet(1 .. n) /\ Cardinality(1 .. n) = n
    <3>1. IsFiniteSet(1 .. n) /\ Cardinality(1 .. n) = IF 1 > n THEN 0 ELSE n - 1 + 1
      BY <1>2, FS_Interval
    <3> QED BY <1>2, <3>1
  <2>5. Cardinality(R) = n
    <3>1. ExistsBijection(1 .. n, R)
      BY <2>3 DEF ExistsBijection
    <3> QED BY <2>4, <3>1, FS_Bijection
  <2>6. R = S
    BY <1>2, <2>1, <2>5, FS_Subset DEF n
  <2> QED BY <2>6 DEF R
<1> QED BY <1>3, <1>4, <1>5 DEF s, n

(* Answers and evaluations.                                                *)

RowLists == Seq(Seq(Cells))
Fetches == Seq(Seq(DriverValues))

\* What the target answered, and how far its rows are coerced.
Answered ==
  /\ limit \in Nat /\ held \in Fetches
  /\ \A i \in DOMAIN fetched : i \in DOMAIN held /\ fetched[i] = held[i]
  /\ fetched \in Fetches /\ rows \in RowLists /\ used \in Nat
  /\ \A i \in DOMAIN fetched : Width(CoercedRow(fetched[i])) \in Nat
  /\ Len(rows) <= Len(fetched) /\ Len(fetched) <= limit /\ used <= Budget
  /\ at \in {"idle", "asked", "validated"} => fetched = <<>> /\ rows = <<>> /\ used = 0
  /\ at \in {"coercing", "evaluating", "done"} =>
       truncated = (Len(held) > limit) /\ Len(fetched) = IF Len(held) > limit THEN limit ELSE Len(held)
  /\ at \in {"evaluating", "done"} => Len(rows) = Len(fetched)

\* The rules, the rows they went over, and the tally before and after.
Evaluated ==
  /\ rules \in Seq(Range(rules))
  /\ hits \in Seq(SUBSET DOMAIN Specs)
  /\ \A r \in DOMAIN hits : hits[r] = Matched(rows[r])
  /\ at \notin {"evaluating", "done"} => hits = <<>>
  /\ at = "evaluating" =>
       LET out == InOrder(Unusable(Specs))
       IN  /\ tallies = [j \in DOMAIN out |-> Tally(out[j], 0)]
           /\ warnings = [j \in DOMAIN out |-> Warning(out[j], "missing")]
  /\ at = "done" =>
       /\ {tallies[j].rule : j \in DOMAIN tallies} = Enabled(Specs)
       /\ Len(tallies) = Cardinality(Enabled(Specs))
       /\ \A j \in DOMAIN tallies : tallies[j].matched = Count(tallies[j].rule)
       /\ {warnings[j].rule : j \in DOMAIN warnings} =
            {tallies[j].rule : j \in {j \in DOMAIN tallies : tallies[j].matched = 0}}

LEMMA LesserOf == ASSUME NEW a \in Int, NEW b \in Int
                  PROVE  Min({a, b}) = IF a <= b THEN a ELSE b
<1> DEFINE m == IF a <= b THEN a ELSE b
<1>1. m \in {a, b} /\ m <= a /\ m <= b
  OBVIOUS
<1>2. \A x \in {a, b} : (\A y \in {a, b} : x <= y) => x = m
  OBVIOUS
<1> QED BY <1>1, <1>2 DEF Min

\* The first n of a sequence.
LEMMA FrontOf ==
  ASSUME NEW S, NEW s \in Seq(S), NEW n \in 0 .. Len(s)
  PROVE  /\ SubSeq(s, 1, n) \in Seq(S) /\ Len(SubSeq(s, 1, n)) = n
         /\ \A i \in 1 .. n : SubSeq(s, 1, n)[i] = s[i]
<1> DEFINE h == SubSeq(s, 1, n)
<1>1. Len(s) \in Nat /\ n \in Nat /\ 1 \in Int /\ n \in Int /\ \A i \in 1 .. n : s[i] \in S
  OBVIOUS
<1>2. /\ h \in Seq(S) /\ Len(h) = IF 1 <= n THEN n - 1 + 1 ELSE 0
      /\ \A i \in 1 .. n - 1 + 1 : h[i] = s[1 + i - 1]
  BY <1>1, SubSeqProperties
<1> HIDE DEF h
<1>3. Len(h) = n
  BY <1>1, <1>2
<1>4. ASSUME NEW i \in 1 .. n PROVE h[i] = s[i]
  <2>1. i \in 1 .. n - 1 + 1 /\ 1 + i - 1 = i
    BY <1>1
  <2>2. h[i] = s[1 + i - 1]
    BY <1>2, <2>1
  <2> QED BY <2>1, <2>2
<1> QED BY <1>2, <1>3, <1>4 DEF h

LEMMA CoercedIsCell == ASSUME NEW v \in DriverValues PROVE Coerced(v) \in Cells
<1>1. CASE v = [kind |-> "nan"]
  BY <1>1 DEF Coerced, Cells
<1>2. CASE v \in {[kind |-> "decimal", number |-> n] : n \in Numbers}
  <2> PICK n \in Numbers : v = [kind |-> "decimal", number |-> n]
    BY <1>2
  <2>1. Coerced(v) = Text(NumberText[n]) /\ NumberText[n] \in Texts
    BY LexiconAssumption DEF Coerced
  <2> QED BY <2>1 DEF Cells
<1>3. CASE v \in Cells
  <2>1. v.kind \in {"null", "bool", "number", "text"}
    BY <1>3 DEF Cells, Null, Bool, Number, Text
  <2>2. Coerced(v) = v
    BY <2>1 DEF Coerced
  <2> QED BY <1>3, <2>2
<1> QED BY <1>1, <1>2, <1>3 DEF DriverValues

LEMMA CoercedRowType == ASSUME NEW values \in Seq(DriverValues) PROVE CoercedRow(values) \in Seq(Cells)
<1>1. \A i \in 1 .. Len(values) : Coerced(values[i]) \in Cells
  BY CoercedIsCell
<1>2. CoercedRow(values) = [i \in 1 .. Len(values) |-> Coerced(values[i])]
  BY DEF CoercedRow
<1> QED BY <1>1, <1>2

\* Without a result in hand there is nothing to say about it.
LEMMA EmptyHanded ==
  ASSUME limit' \in Nat, fetched' = <<>>, rows' = <<>>, used' = 0, held' \in Fetches,
         at' \in {"idle", "asked", "validated", "refused"}
  PROVE  Answered'
<1>1. <<>> \in Fetches /\ <<>> \in RowLists /\ Len(<<>>) = 0 /\ DOMAIN <<>> = {}
  BY DEF Fetches, RowLists
<1> QED BY <1>1, ExecutionAssumption DEF Answered

\* A limit that is not refused is within the ceiling.
LEMMA AskedLimit ==
  ASSUME NEW m \in Meants, NEW n \in Requested, Ask(m, n)
  PROVE  limit' \in Nat /\ limit' <= MaxRowLimit
<1>1. \A x : \A k \in RowLimits(x) : k \in Nat /\ k <= MaxRowLimit
  BY ExecutionAssumption DEF RowLimits
<1>2. ASSUME NEW k \in RowLimits(IF n = NoLimit THEN PreviewRowLimit ELSE n)
      PROVE  Min({k, PreviewRowLimit}) \in Nat /\ Min({k, PreviewRowLimit}) <= MaxRowLimit
  <2>1. k \in Nat /\ k <= MaxRowLimit
    BY <1>1
  <2> QED BY <2>1, LesserOf, ExecutionAssumption
<1> QED BY <1>1, <1>2 DEF Ask, PreviewLimits

LEMMA AnsweredStep ==
  ASSUME Answered, ExecutionNext
  PROVE  Answered'
<1>1. ASSUME NEW m \in Meants, NEW n \in Requested, Ask(m, n) PROVE Answered'
  <2>1. limit' \in Nat
    BY <1>1, AskedLimit
  <2> QED BY <1>1, <2>1, EmptyHanded DEF Ask, Answered, result
<1>2. CASE Validate
  <2>1. at' \in {"validated", "refused"}
    BY <1>2 DEF Validate
  <2> QED BY <1>2, <2>1, EmptyHanded DEF Validate, Answered, result
<1>3. ASSUME NEW answer \in Results, Execute(answer) PROVE Answered'
  <2> DEFINE all == answer.rows
             L == Len(all)
             k == IF L <= limit + 1 THEN L ELSE limit + 1
             some == Fetched(answer)
             c == IF limit <= k THEN limit ELSE k
  <2>1. /\ all \in Fetches /\ L \in Nat /\ limit \in Nat
        /\ \A i \in DOMAIN all : Width(CoercedRow(all[i])) \in Nat
        /\ DOMAIN all = 1 .. L
    BY ExecutionAssumption DEF Answered, Fetches
  <2>2. some = SubSeq(all, 1, k) /\ k \in 0 .. L
    BY <2>1, LesserOf DEF Fetched
  <2>3. some \in Fetches /\ Len(some) = k /\ \A i \in 1 .. k : some[i] = all[i]
    BY <2>1, <2>2, FrontOf DEF Fetches
  <2>4. fetched' = SubSeq(some, 1, c) /\ c \in 0 .. k
    <3>1. fetched' = SubSeq(some, 1, Min({limit, Len(some)}))
      BY <1>3 DEF Execute
    <3>2. k \in Int /\ limit \in Int
      BY <2>1, <2>2
    <3> HIDE DEF some, L, k
    <3>3. Min({limit, k}) = c
      BY <3>2, LesserOf
    <3>4. c \in 0 .. k
      BY <2>1, <2>2
    <3> HIDE DEF c
    <3> QED BY <2>3, <3>1, <3>3, <3>4
  <2>5. truncated' = (Len(some) > limit) /\ held' = all /\ at' = "coercing"
        /\ limit' = limit /\ rows' = rows /\ used' = used /\ rows = <<>> /\ used = 0
    BY <1>3 DEF Execute, Answered
  <2> HIDE DEF some, all, L
  <2>6. /\ fetched' \in Fetches /\ Len(fetched') = c
        /\ \A i \in 1 .. c : fetched'[i] = some[i]
    BY <2>3, <2>4, FrontOf DEF Fetches
  <2>7. \A i \in DOMAIN fetched' :
          Width(CoercedRow(fetched'[i])) \in Nat /\ i \in DOMAIN held' /\ fetched'[i] = held'[i]
    <3>1. DOMAIN fetched' = 1 .. c
      BY <2>6 DEF Fetches
    <3>2. ASSUME NEW i \in 1 .. c PROVE fetched'[i] = all[i] /\ i \in DOMAIN all
      BY <2>1, <2>2, <2>3, <2>4, <2>6
    <3> QED BY <2>1, <2>5, <3>1, <3>2
  <2>8. truncated' = (Len(held') > limit') /\ c = IF Len(held') > limit' THEN limit' ELSE Len(held')
    BY <2>1, <2>3, <2>5 DEF L
  <2>9. c \in Nat /\ c <= limit' /\ rows' = <<>> /\ used' = 0 /\ Len(<<>>) = 0 /\ <<>> \in RowLists
    BY <2>1, <2>4, <2>5 DEF RowLists
  <2> HIDE DEF c, k
  <2> QED BY <2>1, <2>5, <2>6, <2>7, <2>8, <2>9, ExecutionAssumption DEF Answered
<1>4. CASE CoerceRow
  <2> DEFINE values == fetched[Len(rows) + 1]
             kept == CoercedRow(values)
  <2>1. UNCHANGED <<limit, fetched, truncated, held>> /\ at = "coercing" /\ Len(rows) < Len(fetched)
    BY <1>4 DEF CoerceRow
  <2>2. /\ fetched \in Fetches /\ rows \in RowLists /\ Len(rows) \in Nat /\ Len(fetched) \in Nat
        /\ used \in Nat /\ Budget \in Nat
    BY ExecutionAssumption DEF Answered, Fetches, RowLists
  <2>3. Len(rows) + 1 \in DOMAIN fetched
    BY <2>1, <2>2 DEF Fetches
  <2>4. values \in Seq(DriverValues) /\ Width(kept) \in Nat
    BY <2>2, <2>3 DEF Answered, Fetches
  <2>5. kept \in Seq(Cells)
    BY <2>4, CoercedRowType
  <2>6. \/ at' = "refused" /\ UNCHANGED <<rows, used>>
        \/ /\ rows' = Append(rows, kept) /\ used' = used + Width(kept) /\ at' = at
           /\ ~(used + Width(kept) > Budget)
    BY <1>4 DEF CoerceRow, NextRow, Spent
  <2> HIDE DEF kept
  <2>7. CASE at' = "refused" /\ UNCHANGED <<rows, used>>
    BY <2>1, <2>7 DEF Answered
  <2>8. CASE /\ rows' = Append(rows, kept) /\ used' = used + Width(kept) /\ at' = at
             /\ ~(used + Width(kept) > Budget)
    <3>1. rows' \in RowLists /\ Len(rows') = Len(rows) + 1
      BY <2>2, <2>5, <2>8 DEF RowLists
    <3>2. used' \in Nat /\ used' <= Budget /\ Len(rows') <= Len(fetched)
      BY <2>1, <2>2, <2>4, <2>8, <3>1
    <3> QED BY <2>1, <2>8, <3>1, <3>2 DEF Answered
  <2> QED BY <2>6, <2>7, <2>8
<1>5. ASSUME NEW rs \in RuleSets, StartRules(rs) PROVE Answered'
  <2>1. at = "coercing" /\ Len(rows) = Len(fetched) /\ at' \in {"done", "evaluating"}
        /\ UNCHANGED <<limit, fetched, truncated, held, rows, used>>
    BY <1>5 DEF StartRules, result
  <2> QED BY <2>1 DEF Answered
<1>6. CASE EvaluateRow
  BY <1>6 DEF EvaluateRow, result, Answered
<1>7. CASE TallyRules
  BY <1>7 DEF TallyRules, result, Answered
<1>8. CASE Respond
  <2>1. <<>> \in Fetches /\ 0 \in Nat
    BY DEF Fetches
  <2>2. /\ limit' = 0 /\ fetched' = <<>> /\ rows' = <<>> /\ used' = 0 /\ held' = <<>>
        /\ at' = "idle"
    BY <1>8 DEF Respond
  <2> QED BY <2>1, <2>2, EmptyHanded
<1> QED BY <1>1, <1>2, <1>3, <1>4, <1>5, <1>6, <1>7, <1>8 DEF ExecutionNext

\* The sums over the prefixes of s, of which Weight takes the last.
IsSum(s, h) == h = [n \in 0 .. Len(s) |-> IF n = 0 THEN 0 ELSE h[n - 1] + Width(s[n])]

LEMMA WeightIsSum == \A s : Weight(s) = (CHOOSE h : IsSum(s, h))[Len(s)]
BY DEF Weight, IsSum

\* n is what the rows of s are wide together.
Sums(s, n) == (\E h : IsSum(s, h)) /\ \A h : IsSum(s, h) => h[Len(s)] = n

LEMMA SumsWeigh == ASSUME NEW s, NEW n, Sums(s, n) PROVE Weight(s) = n
<1>1. IsSum(s, CHOOSE h : IsSum(s, h))
  BY DEF Sums
<1> QED BY <1>1, WeightIsSum DEF Sums

LEMMA SumsOfNone == Sums(<<>>, 0)
<1>1. Len(<<>>) = 0
  OBVIOUS
<1>2. IsSum(<<>>, [n \in 0 .. 0 |-> 0])
  BY <1>1 DEF IsSum
<1>3. ASSUME NEW h, IsSum(<<>>, h) PROVE h[0] = 0
  BY <1>1, <1>3 DEF IsSum
<1> QED BY <1>1, <1>2, <1>3 DEF Sums

\* One more row adds its own width.
LEMMA SumsOfOneMore ==
  ASSUME NEW s \in RowLists, NEW n, Sums(s, n), NEW added \in Seq(Cells)
  PROVE  Sums(Append(s, added), n + Width(added))
<1> DEFINE L == Len(s)
           t == Append(s, added)
<1>1. L \in Nat /\ Len(t) = L + 1 /\ t[L + 1] = added /\ \A i \in 1 .. L : t[i] = s[i]
  BY DEF RowLists
<1> HIDE DEF L, t
<1>2. \E h : IsSum(t, h)
  <2> PICK g : IsSum(s, g)
    BY DEF Sums
  <2> DEFINE h == [i \in 0 .. L + 1 |-> IF i = L + 1 THEN g[L] + Width(added) ELSE g[i]]
  <2>1. g = [i \in 0 .. L |-> IF i = 0 THEN 0 ELSE g[i - 1] + Width(s[i])]
    BY DEF IsSum, L
  <2>2. ASSUME NEW i \in 0 .. L + 1
        PROVE  h[i] = IF i = 0 THEN 0 ELSE h[i - 1] + Width(t[i])
    <3>1. CASE i = 0
      BY <1>1, <2>1, <3>1
    <3>2. CASE i = L + 1
      BY <1>1, <3>2
    <3>3. CASE i # 0 /\ i # L + 1
      <4>1. i \in 1 .. L /\ i - 1 \in 0 .. L + 1 /\ i - 1 # L + 1 /\ i \in 0 .. L
        BY <1>1, <3>3
      <4>2. h[i] = g[i] /\ h[i - 1] = g[i - 1] /\ t[i] = s[i]
        BY <1>1, <3>3, <4>1
      <4> HIDE DEF h
      <4>3. g[i] = g[i - 1] + Width(s[i])
        BY <2>1, <3>3, <4>1
      <4> QED BY <3>3, <4>2, <4>3
    <3> QED BY <3>1, <3>2, <3>3
  <2>3. h = [i \in 0 .. L + 1 |-> h[i]]
    OBVIOUS
  <2> HIDE DEF h
  <2>4. h = [i \in 0 .. L + 1 |-> IF i = 0 THEN 0 ELSE h[i - 1] + Width(t[i])]
    BY <2>2, <2>3
  <2> QED BY <1>1, <2>4 DEF IsSum
<1>3. ASSUME NEW h, IsSum(t, h) PROVE h[L + 1] = n + Width(added)
  <2> DEFINE g == [i \in 0 .. L |-> h[i]]
  <2>1. h = [i \in 0 .. L + 1 |-> IF i = 0 THEN 0 ELSE h[i - 1] + Width(t[i])]
    BY <1>1, <1>3 DEF IsSum
  <2>2. ASSUME NEW i \in 0 .. L PROVE g[i] = IF i = 0 THEN 0 ELSE g[i - 1] + Width(s[i])
    <3>1. i \in 0 .. L + 1 /\ (i # 0 => i \in 1 .. L /\ i - 1 \in 0 .. L)
      BY <1>1
    <3>2. h[i] = IF i = 0 THEN 0 ELSE h[i - 1] + Width(t[i])
      BY <2>1, <3>1
    <3> QED BY <1>1, <3>1, <3>2
  <2>3. g = [i \in 0 .. L |-> IF i = 0 THEN 0 ELSE g[i - 1] + Width(s[i])]
    BY <2>2
  <2>4. g[L] = h[L]
    BY <1>1
  <2> HIDE DEF g
  <2>5. g[L] = n
    <3>1. IsSum(s, g)
      BY <2>3 DEF IsSum, L
    <3> QED BY <3>1 DEF Sums, L
  <2>6. h[L + 1] = h[L] + Width(added)
    <3>1. L + 1 \in 0 .. L + 1 /\ L + 1 # 0 /\ L + 1 - 1 = L
      BY <1>1
    <3> QED BY <1>1, <2>1, <3>1
  <2> QED BY <2>4, <2>5, <2>6
<1> QED BY <1>1, <1>2, <1>3 DEF Sums, t

\* What is kept: the first rows of the target's, coerced, and the books on
\* their width, up to the row that did not fit.
Kept ==
  /\ limit <= MaxRowLimit
  /\ at \in {"idle", "asked", "validated"} => held = <<>>
  /\ \A i \in DOMAIN rows : rows[i] = CoercedRow(fetched[i])
  /\ Sums(rows, used)
  /\ at = "refused" /\ held # <<>> => Len(rows) < Len(fetched) /\ Spent > Budget

LEMMA KeptStep ==
  ASSUME Answered, Kept, ExecutionNext
  PROVE  Kept'
<1>0. DOMAIN <<>> = {} /\ 0 <= MaxRowLimit
  BY ExecutionAssumption
<1>1. ASSUME NEW m \in Meants, NEW n \in Requested, Ask(m, n) PROVE Kept'
  <2>1. limit' <= MaxRowLimit
    BY <1>1, AskedLimit
  <2> QED BY <1>1, <2>1 DEF Ask, Kept, result
<1>2. CASE Validate
  BY <1>2 DEF Validate, Kept, result
<1>3. ASSUME NEW answer \in Results, Execute(answer) PROVE Kept'
  <2>1. at' = "coercing" /\ rows' = <<>> /\ rows = <<>> /\ UNCHANGED <<limit, rows, used>>
    BY <1>3 DEF Execute, Answered
  <2> QED BY <1>0, <2>1 DEF Kept
<1>4. CASE CoerceRow
  <2>1. UNCHANGED <<limit, fetched, held>> /\ at = "coercing" /\ Len(rows) < Len(fetched)
    BY <1>4 DEF CoerceRow
  <2>2. \/ at' = "refused" /\ UNCHANGED <<rows, used>> /\ Spent > Budget
        \/ rows' = Append(rows, NextRow) /\ used' = Spent /\ at' = at
    BY <1>4 DEF CoerceRow
  <2>3. CASE at' = "refused" /\ UNCHANGED <<rows, used>> /\ Spent > Budget
    <3>1. Spent' = Spent
      BY <2>1, <2>3 DEF Spent, NextRow
    <3> QED BY <2>1, <2>3, <3>1 DEF Kept
  <2>4. CASE rows' = Append(rows, NextRow) /\ used' = Spent /\ at' = at
    <3>1. rows \in RowLists /\ fetched \in Fetches /\ Len(rows) \in Nat
      BY DEF Answered, RowLists
    <3>2. Len(rows) + 1 \in DOMAIN fetched
      BY <2>1, <3>1 DEF Fetches
    <3>3. NextRow \in Seq(Cells)
      BY <3>1, <3>2, CoercedRowType DEF NextRow, Fetches
    <3>4. Sums(rows, used)'
      BY <2>4, <3>1, <3>3, SumsOfOneMore DEF Kept, Spent
    <3>5. ASSUME NEW i \in DOMAIN rows' PROVE rows'[i] = CoercedRow(fetched[i])
      <4>1. i \in 1 .. Len(rows) + 1 /\ DOMAIN rows = 1 .. Len(rows)
        BY <2>4, <3>1, <3>3 DEF RowLists
      <4>2. CASE i = Len(rows) + 1
        BY <2>4, <3>1, <4>2 DEF RowLists, NextRow
      <4>3. CASE i # Len(rows) + 1
        <5>1. i \in DOMAIN rows /\ i \in 1 .. Len(rows)
          BY <3>1, <4>1, <4>3
        <5>2. rows'[i] = rows[i]
          BY <2>4, <3>1, <5>1 DEF RowLists
        <5> QED BY <5>1, <5>2 DEF Kept
      <4> QED BY <4>2, <4>3
    <3> QED BY <2>1, <2>4, <3>4, <3>5 DEF Kept
  <2> QED BY <2>2, <2>3, <2>4
<1>5. ASSUME NEW rs \in RuleSets, StartRules(rs) PROVE Kept'
  <2>1. at' \in {"done", "evaluating"} /\ UNCHANGED <<limit, fetched, held, rows, used>>
    BY <1>5 DEF StartRules, result
  <2> QED BY <2>1 DEF Kept
<1>6. CASE EvaluateRow
  BY <1>6 DEF EvaluateRow, result, Kept
<1>7. CASE TallyRules
  BY <1>7 DEF TallyRules, result, Kept
<1>8. CASE Respond
  BY <1>0, <1>8, SumsOfNone DEF Respond, Kept
<1> QED BY <1>1, <1>2, <1>3, <1>4, <1>5, <1>6, <1>7, <1>8 DEF ExecutionNext

LEMMA RulePositions ==
  ASSUME Evaluated
  PROVE  /\ Len(rules) \in Nat /\ DOMAIN Specs = 1 .. Len(rules) /\ DOMAIN Specs \subseteq 0 .. Len(rules)
         /\ Enabled(Specs) \subseteq DOMAIN Specs
         /\ Usable(Specs) \subseteq Enabled(Specs) /\ Unusable(Specs) = Enabled(Specs) \ Usable(Specs)
<1>1. rules \in Seq(Range(rules))
  BY DEF Evaluated
<1>2. DOMAIN Specs = DOMAIN rules
  BY DEF Specs, Resolved
<1>3. Len(rules) \in Nat /\ DOMAIN rules = 1 .. Len(rules)
  BY <1>1
<1> QED BY <1>2, <1>3 DEF Enabled, Usable, Unusable

\* Rules that cannot be used match nothing.
LEMMA UnusableCount == ASSUME Evaluated, NEW i \in Unusable(Specs) PROVE Count(i) = 0
<1>1. {r \in DOMAIN hits : i \in hits[r]} = {}
  BY DEF Evaluated, Matched, Unusable
<1> QED BY <1>1, FS_EmptySet DEF Count

\* The tally and the warnings of the rules that have a column missing.
LEMMA StartInv ==
  ASSUME Evaluated, NEW rs \in RuleSets, StartRules(rs)
  PROVE  Evaluated'
<1>1. /\ rules' = rs /\ columns' = columns /\ rows' = rows /\ hits' = hits /\ hits = <<>>
      /\ at' = IF Usable(Specs)' = {} THEN "done" ELSE "evaluating"
      /\ tallies' = [j \in DOMAIN InOrder(Unusable(Specs)') |-> Tally(InOrder(Unusable(Specs)')[j], 0)]
      /\ warnings' = [j \in DOMAIN InOrder(Unusable(Specs)') |-> Warning(InOrder(Unusable(Specs)')[j], "missing")]
  BY DEF StartRules, result, Evaluated, Specs, Usable, Unusable
<1>2. rules' \in Seq(Range(rules'))
  BY <1>1, ExecutionAssumption
<1>3. /\ Len(rules') \in Nat /\ DOMAIN Specs' = 1 .. Len(rules') /\ DOMAIN Specs' \subseteq 0 .. Len(rules')
      /\ Enabled(Specs)' \subseteq DOMAIN Specs'
      /\ Unusable(Specs)' = Enabled(Specs)' \ Usable(Specs)'
  <2>1. DOMAIN Specs' = DOMAIN rules'
    BY DEF Specs, Resolved
  <2>2. Len(rules') \in Nat /\ DOMAIN rules' = 1 .. Len(rules')
    BY <1>2
  <2> QED BY <2>1, <2>2 DEF Enabled, Usable, Unusable
<1>4. hits' \in Seq(SUBSET DOMAIN Specs') /\ DOMAIN hits' = {}
  BY <1>1
<1>5. CASE Usable(Specs)' # {}
  <2>1. at' = "evaluating"
    BY <1>1, <1>5
  <2> QED BY <1>1, <1>2, <1>4, <2>1 DEF Evaluated
<1>6. CASE Usable(Specs)' = {}
  <2> DEFINE U == Unusable(Specs)'
             out == InOrder(U)
  <2>1. at' = "done" /\ U = Enabled(Specs)' /\ U \subseteq 0 .. Len(rules')
    BY <1>1, <1>3, <1>6
  <2> HIDE DEF U
  <2>2. /\ Len(out) = Cardinality(U) /\ DOMAIN out = 1 .. Cardinality(U)
        /\ {out[j] : j \in DOMAIN out} = U
        /\ Cardinality(U) \in Nat
    <3>1. out \in Seq(U) /\ Len(out) = Cardinality(U) /\ DOMAIN out = 1 .. Cardinality(U)
          /\ {out[j] : j \in DOMAIN out} = U
      <4>1. Len(rules') \in Nat /\ U \subseteq 0 .. Len(rules')
        BY <1>3, <2>1
      <4> QED BY ONLY <4>1, InOrderLists
    <3>2. Len(out) \in Nat
      BY <3>1
    <3> QED BY <3>1, <3>2
  <2>3. tallies' = [j \in DOMAIN out |-> Tally(out[j], 0)] /\ warnings' = [j \in DOMAIN out |-> Warning(out[j], "missing")]
    BY <1>1 DEF U
  <2> HIDE DEF out
  <2>4. Len(tallies') = Cardinality(U)
    BY <2>2, <2>3
  <2>5. \A i : Count(i)' = 0
    <3>1. \A i : {r \in DOMAIN hits' : i \in hits'[r]} = {}
      BY <1>4
    <3> QED BY <3>1, FS_EmptySet DEF Count
  <2>6. /\ DOMAIN tallies' = DOMAIN out /\ DOMAIN warnings' = DOMAIN out
        /\ \A j \in DOMAIN out : tallies'[j].rule = out[j] /\ tallies'[j].matched = 0 /\ warnings'[j].rule = out[j]
    BY <2>3 DEF Tally, Warning
  <2>7. {tallies'[j].rule : j \in DOMAIN tallies'} = Enabled(Specs)'
    BY <2>1, <2>2, <2>6
  <2>8. \A j \in DOMAIN tallies' : tallies'[j].matched = Count(tallies[j].rule)'
    BY <2>5, <2>6
  <2>9. {warnings'[j].rule : j \in DOMAIN warnings'} =
            {tallies'[j].rule : j \in {j \in DOMAIN tallies' : tallies'[j].matched = 0}}
    BY <2>6
  <2>10. Len(tallies') = Cardinality(Enabled(Specs)')
    BY <2>1, <2>4
  <2> QED BY <1>1, <1>2, <1>4, <2>1, <2>7, <2>8, <2>9, <2>10 DEF Evaluated
<1> QED BY <1>5, <1>6

\* One row more, by the same rules.
LEMMA RowInv == ASSUME Evaluated, Answered, EvaluateRow PROVE Evaluated'
<1>1. /\ at = "evaluating" /\ UNCHANGED <<at, columns, rows, rules, tallies, warnings>>
      /\ Len(hits) < Len(rows) /\ hits' = Append(hits, Matched(rows[Len(hits) + 1]))
  BY DEF EvaluateRow, result
<1>2. hits \in Seq(SUBSET DOMAIN Specs) /\ \A r \in DOMAIN hits : hits[r] = Matched(rows[r])
  BY DEF Evaluated
<1>3. /\ Specs' = Specs /\ Enabled(Specs)' = Enabled(Specs) /\ Usable(Specs)' = Usable(Specs)
      /\ Unusable(Specs)' = Unusable(Specs) /\ \A r : Matched(rows[r])' = Matched(rows[r])
  BY <1>1 DEF Specs, Enabled, Usable, Unusable, Matched
<1>4. Matched(rows[Len(hits) + 1]) \in SUBSET DOMAIN Specs
  BY DEF Matched, Usable, Enabled
<1> DEFINE h == Matched(rows[Len(hits) + 1])
<1> HIDE DEF h
<1>5. /\ hits' \in Seq(SUBSET DOMAIN Specs) /\ DOMAIN hits' = 1 .. Len(hits) + 1
      /\ \A r \in 1 .. Len(hits) : hits'[r] = hits[r]
      /\ hits'[Len(hits) + 1] = h
      /\ DOMAIN hits = 1 .. Len(hits) /\ Len(hits) \in Nat
  BY <1>1, <1>2, <1>4 DEF h
<1>6. \A r \in DOMAIN hits' : hits'[r] = Matched(rows[r])'
  <2> SUFFICES ASSUME NEW r \in 1 .. Len(hits) + 1 PROVE hits'[r] = Matched(rows[r])
    BY <1>3, <1>5
  <2>1. CASE r = Len(hits) + 1
    BY <1>5, <2>1 DEF h
  <2>2. CASE r # Len(hits) + 1
    <3>1. r \in 1 .. Len(hits)
      BY <1>5, <2>2
    <3> QED BY <1>2, <1>5, <3>1
  <2> QED BY <2>1, <2>2
<1>7. hits' \in Seq(SUBSET DOMAIN Specs')
  BY <1>3, <1>5
<1> QED BY <1>1, <1>3, <1>6, <1>7 DEF Evaluated

\* s has a elements, t has b, and u is the one after the other.
Concatenated(u, s, a, t, b) ==
  /\ DOMAIN u = 1 .. a + b /\ Len(u) = a + b
  /\ \A j \in 1 .. a : u[j] = s[j]
  /\ \A j \in 1 .. b : u[a + j] = t[j]

LEMMA Joined ==
  ASSUME NEW a \in Nat, NEW b \in Nat, NEW S, NEW s \in [1 .. a -> S], NEW t \in [1 .. b -> S]
  PROVE  Concatenated(s \o t, s, a, t, b)
<1>1. s \in Seq(S) /\ t \in Seq(S) /\ Len(s) = a /\ Len(t) = b
  OBVIOUS
<1>2. /\ s \o t \in Seq(S) /\ Len(s \o t) = Len(s) + Len(t)
      /\ \A i \in 1 .. Len(s) + Len(t) : (s \o t)[i] = IF i <= Len(s) THEN s[i] ELSE t[i - Len(s)]
  BY <1>1, ConcatProperties
<1> DEFINE st == s \o t
<1> HIDE DEF st
<1>3. DOMAIN st = 1 .. a + b /\ Len(st) = a + b
  BY <1>1, <1>2 DEF st
<1>4. ASSUME NEW j \in 1 .. a PROVE st[j] = s[j]
  BY <1>1, <1>2 DEF st
<1>5. ASSUME NEW j \in 1 .. b PROVE st[a + j] = t[j]
  <2>1. a + j \in 1 .. a + b /\ ~(a + j <= a) /\ (a + j) - a = j
    OBVIOUS
  <2> QED BY <1>1, <1>2, <2>1 DEF st
<1> QED BY <1>3, <1>4, <1>5 DEF st, Concatenated

\* The rules that were used follow in the tally, those without a match in the
\* warnings.
LEMMA TallyInv == ASSUME Evaluated, TallyRules PROVE Evaluated'
<1> DEFINE un == InOrder(Unusable(Specs))
           us == InOrder(Usable(Specs))
           N == {i \in Usable(Specs) : Count(i) = 0}
           none == InOrder(N)
<1>1. /\ at = "evaluating" /\ at' = "done" /\ UNCHANGED <<columns, rows, rules, hits>>
      /\ tallies' = tallies \o Counted /\ warnings' = warnings \o Explained
      /\ tallies = [j \in DOMAIN un |-> Tally(un[j], 0)]
      /\ warnings = [j \in DOMAIN un |-> Warning(un[j], "missing")]
  BY DEF TallyRules, result, Evaluated
<1>2. /\ Len(rules) \in Nat /\ Unusable(Specs) \subseteq 0 .. Len(rules)
      /\ Usable(Specs) \subseteq 0 .. Len(rules) /\ N \subseteq 0 .. Len(rules)
      /\ Enabled(Specs) = Unusable(Specs) \cup Usable(Specs)
      /\ Unusable(Specs) \cap Usable(Specs) = {}
  BY RulePositions
<1>3. /\ Specs' = Specs /\ Enabled(Specs)' = Enabled(Specs) /\ \A i : Count(i)' = Count(i)
      /\ \A r : Matched(rows[r])' = Matched(rows[r])
  BY <1>1 DEF Specs, Enabled, Usable, Count, Matched
<1> HIDE DEF N
<1>4. /\ un \in Seq(Unusable(Specs)) /\ Len(un) = Cardinality(Unusable(Specs))
      /\ DOMAIN un = 1 .. Cardinality(Unusable(Specs))
      /\ {un[j] : j \in DOMAIN un} = Unusable(Specs)
  BY <1>2, InOrderLists
<1>5. /\ us \in Seq(Usable(Specs)) /\ Len(us) = Cardinality(Usable(Specs))
      /\ DOMAIN us = 1 .. Cardinality(Usable(Specs))
      /\ {us[j] : j \in DOMAIN us} = Usable(Specs)
  BY <1>2, InOrderLists
<1>6. /\ none \in Seq(N) /\ Len(none) = Cardinality(N) /\ DOMAIN none = 1 .. Cardinality(N)
      /\ {none[j] : j \in DOMAIN none} = N
  BY <1>2, InOrderLists
<1> DEFINE a == Len(un)
           b == Len(us)
           c == Len(none)
           A == 1 .. a
<1>7. a \in Nat /\ b \in Nat /\ c \in Nat /\ DOMAIN un = 1 .. a /\ DOMAIN us = 1 .. b /\ DOMAIN none = 1 .. c
  BY <1>4, <1>5, <1>6
<1>8. Counted = [j \in DOMAIN us |-> Tally(us[j], Count(us[j]))]
  BY DEF Counted
<1>b. Explained = [j \in DOMAIN none |-> Explained[j]] /\ \A j \in DOMAIN none : Explained[j].rule = none[j]
  <2>1. \A i, n : Warning(i, n).rule = i
    BY DEF Warning
  <2>2. Explained = [j \in DOMAIN none |->
           Warning(none[j], IF Unlike(Specs[none[j]], columns, rows) THEN "no_boolean" ELSE "nothing")]
    BY DEF Explained, N
  <2> HIDE DEF none
  <2>3. ASSUME NEW j \in DOMAIN none
        PROVE  Explained[j] = Warning(none[j], IF Unlike(Specs[none[j]], columns, rows) THEN "no_boolean" ELSE "nothing")
    BY <2>2
  <2>4. \A j \in DOMAIN none : Explained[j].rule = none[j]
    BY <2>1, <2>3
  <2>5. Explained = [j \in DOMAIN none |-> Explained[j]]
    BY <2>2
  <2> QED BY <2>4, <2>5
<1> HIDE DEF un, us, none, a, b, c
<1>9. /\ DOMAIN tallies' = 1 .. a + b /\ Len(tallies') = a + b
      /\ \A j \in 1 .. a : tallies'[j] = Tally(un[j], 0)
      /\ \A j \in 1 .. b : tallies'[a + j] = Tally(us[j], Count(us[j]))
  <2> DEFINE X == {tallies[j] : j \in 1 .. a} \cup {Counted[j] : j \in 1 .. b}
  <2>1. tallies = [j \in 1 .. a |-> Tally(un[j], 0)] /\ Counted = [j \in 1 .. b |-> Tally(us[j], Count(us[j]))]
    BY <1>1, <1>7, <1>8
  <2>2. tallies \in [1 .. a -> X] /\ Counted \in [1 .. b -> X]
    BY <2>1
  <2>3. /\ \A j \in 1 .. a : tallies[j] = Tally(un[j], 0)
        /\ \A j \in 1 .. b : Counted[j] = Tally(us[j], Count(us[j]))
    BY <2>1
  <2> HIDE DEF X
  <2>4. /\ DOMAIN tallies' = 1 .. a + b /\ Len(tallies') = a + b
        /\ \A j \in 1 .. a : tallies'[j] = tallies[j]
        /\ \A j \in 1 .. b : tallies'[a + j] = Counted[j]
    <3>1. a \in Nat /\ b \in Nat /\ tallies' = tallies \o Counted
      BY <1>1, <1>7
    <3>2. Concatenated(tallies \o Counted, tallies, a, Counted, b)
      BY <2>2, <3>1, Joined
    <3> QED BY <3>1, <3>2 DEF Concatenated
  <2> QED BY <2>3, <2>4
<1>10. /\ DOMAIN warnings' = 1 .. a + c
       /\ \A j \in 1 .. a : warnings'[j] = Warning(un[j], "missing")
       /\ \A j \in 1 .. c : warnings'[a + j].rule = none[j]
  <2> DEFINE X == {warnings[j] : j \in 1 .. a} \cup {Explained[j] : j \in 1 .. c}
  <2>1. warnings = [j \in 1 .. a |-> Warning(un[j], "missing")] /\ Explained = [j \in 1 .. c |-> Explained[j]]
    BY <1>1, <1>7, <1>b
  <2>2. warnings \in [1 .. a -> X] /\ Explained \in [1 .. c -> X]
    BY <2>1
  <2>3. /\ \A j \in 1 .. a : warnings[j] = Warning(un[j], "missing")
        /\ \A j \in 1 .. c : Explained[j].rule = none[j]
    BY <1>7, <1>b, <2>1
  <2> HIDE DEF X
  <2>4. /\ DOMAIN warnings' = 1 .. a + c
        /\ \A j \in 1 .. a : warnings'[j] = warnings[j]
        /\ \A j \in 1 .. c : warnings'[a + j] = Explained[j]
    <3>1. a \in Nat /\ c \in Nat /\ warnings' = warnings \o Explained
      BY <1>1, <1>7
    <3>2. Concatenated(warnings \o Explained, warnings, a, Explained, c)
      BY <2>2, <3>1, Joined
    <3> QED BY <3>1, <3>2 DEF Concatenated
  <2> QED BY <2>3, <2>4
<1>11. /\ \A i \in Unusable(Specs) : Count(i) = 0 /\ \E j \in 1 .. a : un[j] = i
       /\ \A i \in Usable(Specs) : \E j \in 1 .. b : us[j] = i
       /\ \A i \in N : \E j \in 1 .. c : none[j] = i
       /\ \A j \in 1 .. a : un[j] \in Unusable(Specs)
       /\ \A j \in 1 .. b : us[j] \in Usable(Specs)
       /\ \A j \in 1 .. c : none[j] \in N
  <2>1. {un[j] : j \in 1 .. a} = Unusable(Specs) /\ {us[j] : j \in 1 .. b} = Usable(Specs) /\ {none[j] : j \in 1 .. c} = N
    BY <1>4, <1>5, <1>6, <1>7
  <2> QED BY <2>1, UnusableCount
<1>12. /\ \A j \in 1 .. a : tallies'[j].rule = un[j] /\ tallies'[j].matched = 0 /\ warnings'[j].rule = un[j]
       /\ \A j \in 1 .. b : tallies'[a + j].rule = us[j] /\ tallies'[a + j].matched = Count(us[j])
       /\ \A j \in 1 .. c : warnings'[a + j].rule = none[j]
  <2>1. \A i, n : Tally(i, n).rule = i /\ Tally(i, n).matched = n
    BY DEF Tally
  <2>2. \A i, n : Warning(i, n).rule = i
    BY DEF Warning
  <2> QED BY ONLY <1>9, <1>10, <2>1, <2>2
<1>13. /\ \A j \in 1 .. a + b : j \in 1 .. a \/ \E k \in 1 .. b : j = a + k
       /\ \A j \in 1 .. a + c : j \in 1 .. a \/ \E k \in 1 .. c : j = a + k
       /\ \A j \in 1 .. a : j \in 1 .. a + b /\ j \in 1 .. a + c
       /\ \A k \in 1 .. b : a + k \in 1 .. a + b
       /\ \A k \in 1 .. c : a + k \in 1 .. a + c
  <2>1. ASSUME NEW n \in Nat, NEW j \in 1 .. a + n, j \notin 1 .. a PROVE \E k \in 1 .. n : j = a + k
    <3>1. j - a \in 1 .. n /\ j = a + (j - a)
      BY <1>7, <2>1
    <3> QED BY <3>1
  <2> QED BY <1>7, <2>1
<1>14. {tallies'[j].rule : j \in DOMAIN tallies'} = Enabled(Specs)'
  <2>1. ASSUME NEW j \in 1 .. a + b PROVE tallies'[j].rule \in Enabled(Specs)
    BY <1>2, <1>11, <1>12, <1>13
  <2>2. ASSUME NEW i \in Enabled(Specs) PROVE \E j \in 1 .. a + b : tallies'[j].rule = i
    <3>1. CASE i \in Unusable(Specs)
      BY <1>11, <1>12, <1>13, <3>1
    <3>2. CASE i \in Usable(Specs)
      <4> PICK k \in 1 .. b : us[k] = i
        BY <1>11, <3>2
      <4> QED BY <1>12, <1>13
    <3> QED BY <1>2, <3>1, <3>2
  <2> QED BY <1>3, <1>9, <2>1, <2>2
<1>15. Len(tallies') = Cardinality(Enabled(Specs)')
  <2>1. IsFiniteSet(Unusable(Specs)) /\ IsFiniteSet(Usable(Specs))
    <3>1. IsFiniteSet(0 .. Len(rules))
      BY <1>2, FS_Interval
    <3>2. Unusable(Specs) \in SUBSET (0 .. Len(rules)) /\ Usable(Specs) \in SUBSET (0 .. Len(rules))
      BY <1>2
    <3> QED BY <3>1, <3>2, FS_Subset
  <2>2. Cardinality(Unusable(Specs) \cup Usable(Specs)) =
          Cardinality(Unusable(Specs)) + Cardinality(Usable(Specs)) - Cardinality(Unusable(Specs) \cap Usable(Specs))
    BY <2>1, FS_Union
  <2>3. Cardinality(Unusable(Specs) \cap Usable(Specs)) = 0
    BY <1>2, FS_EmptySet
  <2>4. Cardinality(Unusable(Specs)) = a /\ Cardinality(Usable(Specs)) = b
    BY <1>4, <1>5 DEF a, b
  <2>5. Cardinality(Enabled(Specs)') = a + b - 0
    BY <1>2, <1>3, <2>2, <2>3, <2>4
  <2> HIDE DEF a, b
  <2>6. a + b - 0 = a + b
    BY <1>7
  <2> QED BY <1>9, <2>5, <2>6
<1>16. \A j \in DOMAIN tallies' : tallies'[j].matched = Count(tallies[j].rule)'
  <2> SUFFICES ASSUME NEW j \in 1 .. a + b PROVE tallies'[j].matched = Count(tallies'[j].rule)
    <3>1. \A j : Count(tallies[j].rule)' = Count(tallies'[j].rule)
      BY <1>1 DEF Count
    <3> QED BY <1>9, <3>1
  <2>1. CASE j \in 1 .. a
    BY <1>11, <1>12, <2>1
  <2>2. CASE \E k \in 1 .. b : j = a + k
    BY <1>12, <2>2
  <2> QED BY <1>13, <2>1, <2>2
<1>17. {warnings'[j].rule : j \in DOMAIN warnings'} =
         {tallies'[j].rule : j \in {j \in DOMAIN tallies' : tallies'[j].matched = 0}}
  <2>1. ASSUME NEW j \in 1 .. a + c
        PROVE  \E k \in 1 .. a + b : tallies'[k].matched = 0 /\ tallies'[k].rule = warnings'[j].rule
    <3>1. CASE j \in 1 .. a
      BY <1>12, <1>13, <3>1
    <3>2. CASE \E k \in 1 .. c : j = a + k
      <4> PICK k \in 1 .. c : j = a + k
        BY <3>2
      <4>1. warnings'[j].rule = none[k] /\ none[k] \in Usable(Specs) /\ Count(none[k]) = 0
        BY <1>11, <1>12 DEF N
      <4> PICK l \in 1 .. b : us[l] = none[k]
        BY <1>11, <4>1
      <4> QED BY <1>12, <1>13, <4>1
    <3> QED BY <1>13, <3>1, <3>2
  <2>2. ASSUME NEW j \in 1 .. a + b, tallies'[j].matched = 0
        PROVE  \E k \in 1 .. a + c : warnings'[k].rule = tallies'[j].rule
    <3>1. CASE j \in 1 .. a
      BY <1>12, <1>13, <3>1
    <3>2. CASE \E k \in 1 .. b : j = a + k
      <4> PICK k \in 1 .. b : j = a + k
        BY <3>2
      <4>1. tallies'[j].rule = us[k] /\ us[k] \in N
        BY <1>11, <1>12, <2>2 DEF N
      <4> PICK l \in 1 .. c : none[l] = us[k]
        BY <1>11, <4>1
      <4> QED BY <1>12, <1>13, <4>1
    <3> QED BY <1>13, <3>1, <3>2
  <2> DEFINE K == {j \in DOMAIN tallies' : tallies'[j].matched = 0}
  <2>3. \A j \in DOMAIN warnings' : \E k \in K : warnings'[j].rule = tallies'[k].rule
    BY <1>9, <1>10, <2>1
  <2>4. \A k \in K : \E j \in DOMAIN warnings' : tallies'[k].rule = warnings'[j].rule
    BY <1>9, <1>10, <2>2
  <2> HIDE DEF K
  <2>5. {warnings'[j].rule : j \in DOMAIN warnings'} = {tallies'[j].rule : j \in K}
    BY ONLY <2>3, <2>4
  <2> QED BY <2>5 DEF K
<1>18. /\ rules' \in Seq(Range(rules')) /\ hits' \in Seq(SUBSET DOMAIN Specs')
       /\ \A r \in DOMAIN hits' : hits'[r] = Matched(rows[r])'
  BY <1>1, <1>3 DEF Evaluated
<1> QED BY <1>1, <1>14, <1>15, <1>16, <1>17, <1>18 DEF Evaluated

LEMMA EvaluatedStep == ASSUME Answered, Evaluated, ExecutionNext PROVE Evaluated'
<1>1. ASSUME UNCHANGED outcome, at \notin {"evaluating", "done"}, at' \notin {"evaluating", "done"}
      PROVE  Evaluated'
  <2>1. hits = <<>> /\ UNCHANGED <<rules, hits>>
    BY <1>1 DEF Evaluated, outcome
  <2>2. Specs' = Specs
    BY <2>1 DEF Specs
  <2>3. DOMAIN hits' = {}
    BY <2>1
  <2> QED BY <1>1, <2>1, <2>2, <2>3 DEF Evaluated
<1>2. ASSUME NEW m \in Meants, NEW n \in Requested, Ask(m, n) PROVE Evaluated'
  BY <1>1, <1>2 DEF Ask
<1>3. CASE Validate
  BY <1>1, <1>3 DEF Validate
<1>4. ASSUME NEW answer \in Results, Execute(answer) PROVE Evaluated'
  BY <1>1, <1>4 DEF Execute
<1>5. CASE CoerceRow
  <2>1. at = "coercing" /\ at' \in {"refused", "coercing"} /\ UNCHANGED outcome
    BY <1>5 DEF CoerceRow
  <2> QED BY <1>1, <2>1
<1>6. CASE Respond
  <2>1. at' = "idle" /\ rules' = <<>> /\ hits' = <<>>
    BY <1>6 DEF Respond
  <2>2. <<>> \in Seq(Range(<<>>)) /\ <<>> \in Seq(SUBSET DOMAIN Specs') /\ DOMAIN <<>> = {}
    OBVIOUS
  <2> QED BY <2>1, <2>2 DEF Evaluated
<1> QED BY <1>2, <1>3, <1>4, <1>5, <1>6, StartInv, RowInv, TallyInv DEF ExecutionNext

LEMMA ExecutionInv == ExecutionSpec => [](Answered /\ Evaluated)
<1>1. ExecutionInit => Answered /\ Evaluated
  <2> SUFFICES ASSUME ExecutionInit PROVE Answered /\ Evaluated
    OBVIOUS
  <2>1. <<>> \in Fetches /\ <<>> \in RowLists /\ Len(<<>>) = 0 /\ DOMAIN <<>> = {}
    BY DEF Fetches, RowLists
  <2>2. Answered
    BY <2>1, ExecutionAssumption DEF ExecutionInit, Answered
  <2>3. <<>> \in Seq(Range(<<>>)) /\ <<>> \in Seq(SUBSET DOMAIN Specs)
    OBVIOUS
  <2>4. rules = <<>> /\ hits = <<>> /\ at = "idle"
    BY DEF ExecutionInit
  <2>5. Evaluated
    BY <2>1, <2>3, <2>4 DEF Evaluated
  <2> QED BY <2>2, <2>5
<1>2. Answered /\ Evaluated /\ [ExecutionNext]_executionVars => (Answered /\ Evaluated)'
  <2> SUFFICES ASSUME Answered, Evaluated, [ExecutionNext]_executionVars PROVE (Answered /\ Evaluated)'
    OBVIOUS
  <2>1. CASE ExecutionNext
    BY <2>1, AnsweredStep, EvaluatedStep
  <2>2. CASE UNCHANGED executionVars
    <3>1. Answered'
      BY <2>2 DEF Answered, executionVars
    <3>2. UNCHANGED <<at, columns, rows, rules, hits, tallies, warnings>>
      BY <2>2 DEF executionVars
    <3>3. /\ Specs' = Specs /\ Enabled(Specs)' = Enabled(Specs) /\ InOrder(Unusable(Specs)') = InOrder(Unusable(Specs))
          /\ \A r : Matched(rows[r])' = Matched(rows[r])
      BY <3>2 DEF Specs, Enabled, Unusable, Usable, Matched
    <3>4. \A j : Count(tallies[j].rule)' = Count(tallies[j].rule)
      BY <3>2 DEF Count
    <3>5. /\ rules' \in Seq(Range(rules')) /\ hits' \in Seq(SUBSET DOMAIN Specs')
          /\ \A r \in DOMAIN hits' : hits'[r] = Matched(rows[r])'
          /\ at' \notin {"evaluating", "done"} => hits' = <<>>
      BY <3>2, <3>3 DEF Evaluated
    <3>6. CASE at = "evaluating"
      <4>1. /\ tallies' = [j \in DOMAIN InOrder(Unusable(Specs)') |-> Tally(InOrder(Unusable(Specs)')[j], 0)]
            /\ warnings' = [j \in DOMAIN InOrder(Unusable(Specs)') |-> Warning(InOrder(Unusable(Specs)')[j], "missing")]
        BY <3>2, <3>3, <3>6 DEF Evaluated
      <4> QED BY <3>1, <3>2, <3>5, <3>6, <4>1 DEF Evaluated
    <3>7. CASE at = "done"
      <4>1. /\ {tallies'[j].rule : j \in DOMAIN tallies'} = Enabled(Specs)'
            /\ Len(tallies') = Cardinality(Enabled(Specs)')
            /\ {warnings'[j].rule : j \in DOMAIN warnings'} =
                 {tallies'[j].rule : j \in {j \in DOMAIN tallies' : tallies'[j].matched = 0}}
        <5>1. tallies' = tallies /\ warnings' = warnings
          BY <3>2
        <5>2. /\ {tallies[j].rule : j \in DOMAIN tallies} = Enabled(Specs)
              /\ Len(tallies) = Cardinality(Enabled(Specs))
              /\ {warnings[j].rule : j \in DOMAIN warnings} =
                   {tallies[j].rule : j \in {j \in DOMAIN tallies : tallies[j].matched = 0}}
          BY <3>7 DEF Evaluated
        <5>3. /\ {tallies'[j].rule : j \in DOMAIN tallies'} = {tallies[j].rule : j \in DOMAIN tallies}
              /\ Len(tallies') = Len(tallies)
          BY ONLY <5>1
        <5>4. {warnings'[j].rule : j \in DOMAIN warnings'} = {warnings[j].rule : j \in DOMAIN warnings}
          BY ONLY <5>1
        <5>5. {tallies'[j].rule : j \in {j \in DOMAIN tallies' : tallies'[j].matched = 0}}
                = {tallies[j].rule : j \in {j \in DOMAIN tallies : tallies[j].matched = 0}}
          BY ONLY <5>1
        <5>6. Enabled(Specs)' = Enabled(Specs)
          BY <3>3
        <5> QED BY ONLY <5>2, <5>3, <5>4, <5>5, <5>6, ZenonT(30)
      <4>2. \A j \in DOMAIN tallies' : tallies'[j].matched = Count(tallies[j].rule)'
        BY <3>2, <3>4, <3>7 DEF Evaluated
      <4> QED BY <3>1, <3>2, <3>5, <3>7, <4>1, <4>2 DEF Evaluated
    <3>8. CASE at \notin {"evaluating", "done"}
      BY <3>1, <3>2, <3>5, <3>8 DEF Evaluated
    <3> QED BY <3>1, <3>6, <3>7, <3>8
  <2> QED BY <2>1, <2>2
<1> QED BY <1>1, <1>2, PTL DEF ExecutionSpec

\* A caller gets the first rows the target has, no more than it asked for and
\* together no wider than the budget, and is told whether there are more; a run
\* is refused for its size only when the next row would not fit (execute_sql).
THEOREM TruncatedTells == ExecutionSpec => []TruncatedTellsTheRest
<1>1. Answered /\ Kept => TruncatedTellsTheRest
  <2> SUFFICES ASSUME Answered, Kept PROVE TruncatedTellsTheRest
    OBVIOUS
  <2>1. /\ limit \in Nat /\ Len(held) \in Nat /\ Len(rows) \in Nat /\ Len(fetched) \in Nat
        /\ Len(rows) <= Len(fetched) /\ Len(fetched) <= limit /\ limit <= MaxRowLimit
        /\ DOMAIN rows = 1 .. Len(rows) /\ DOMAIN fetched = 1 .. Len(fetched)
    BY DEF Answered, Kept, RowLists, Fetches
  <2>2. at \in {"coercing", "evaluating", "done"} =>
          truncated = (Len(held) > limit) /\ Len(fetched) = IF Len(held) > limit THEN limit ELSE Len(held)
    BY DEF Answered
  <2>3. at \in {"evaluating", "done"} => Len(rows) = Len(fetched)
    BY DEF Answered
  <2>4. Min({Len(held), limit}) = IF Len(held) <= limit THEN Len(held) ELSE limit
    BY <2>1, LesserOf
  <2>5. Len(rows) <= limit
    BY <2>1
  <2>6. ASSUME at \in {"evaluating", "done"} PROVE Len(rows) = Min({Len(held), limit})
    <3>1. Len(rows) = IF Len(held) > limit THEN limit ELSE Len(held)
      BY <2>2, <2>3, <2>6
    <3>2. Len(held) > limit <=> ~(Len(held) <= limit)
      BY <2>1
    <3> QED BY <2>4, <3>1, <3>2
  <2>7. ASSUME NEW i \in DOMAIN rows PROVE i \in DOMAIN held /\ rows[i] = CoercedRow(held[i])
    <3>1. i \in DOMAIN fetched
      BY <2>1
    <3> QED BY <3>1 DEF Answered, Kept
  <2>8. Weight(rows) = used /\ used <= Budget
    BY SumsWeigh DEF Answered, Kept
  <2>9. ASSUME at = "refused", held # <<>>
        PROVE  Weight(rows) + Width(CoercedRow(held[Len(rows) + 1])) > Budget
    <3>1. Len(rows) < Len(fetched) /\ used + Width(NextRow) > Budget
      BY <2>9 DEF Kept, Spent
    <3>2. Len(rows) + 1 \in DOMAIN fetched
      BY <2>1, <3>1
    <3>3. NextRow = CoercedRow(held[Len(rows) + 1])
      BY <3>2 DEF NextRow, Answered
    <3> QED BY <2>8, <3>1, <3>3
  <2> QED BY <2>1, <2>2, <2>5, <2>6, <2>7, <2>8, <2>9 DEF TruncatedTellsTheRest
<1>2. ExecutionInit => Kept
  BY SumsOfNone, ExecutionAssumption DEF ExecutionInit, Kept
<1>3. Answered /\ Kept /\ [ExecutionNext]_executionVars => Kept'
  <2>1. Answered /\ Kept /\ UNCHANGED executionVars => Kept'
    BY DEF executionVars, Kept, Spent, NextRow
  <2> QED BY <2>1, KeptStep
<1> QED BY <1>1, <1>2, <1>3, ExecutionInv, PTL DEF ExecutionSpec

\* A missing value satisfies one operator alone (evaluate_condition).
LEMMA NullSatisfies == ASSUME NEW k, Satisfies(k, Null) PROVE k.operator = "is_null"
<1>1. Null.kind = "null"
  BY DEF Null
<1> QED BY <1>1 DEF Satisfies

\* Each enabled rule is in the tally once, with the rows it flagged, and is
\* warned about if they are none; rows are flagged by the rules they match and
\* never for want of a value (engine.evaluate).
THEOREM OutcomesAddUp == ExecutionSpec => []OutcomeAddsUp
<1>1. Evaluated => OutcomeAddsUp
  <2> SUFFICES ASSUME Evaluated, at = "done" PROVE OutcomeAddsUp
    BY DEF OutcomeAddsUp
  <2>1. \A r \in DOMAIN hits : hits[r] = {i \in Usable(Specs) : Matches(Specs[i], columns, rows[r])}
    BY DEF Evaluated, Matched
  <2>2. \A i \in Enabled(Specs), r \in DOMAIN hits :
          i \in hits[r] <=> /\ Missing(Specs[i], columns) = {}
                            /\ Matches(Specs[i], columns, rows[r])
    BY <2>1 DEF Usable
  <2>3. ASSUME NEW r \in DOMAIN hits, NEW i \in hits[r], NEW k \in Range(Specs[i].conditions),
               rows[r][Position(columns, k.column)] = Null
        PROVE  k.operator = "is_null"
    <3>1. Matches(Specs[i], columns, rows[r])
      BY <2>1
    <3>2. Satisfies(k, rows[r][Position(columns, k.column)])
      BY <3>1 DEF Matches
    <3>3. Satisfies(k, Null)
      BY <2>3, <3>2
    <3> QED BY <3>3, NullSatisfies
  <2>4. /\ {tallies[j].rule : j \in DOMAIN tallies} = Enabled(Specs)
        /\ Len(tallies) = Cardinality(Enabled(Specs))
        /\ \A j \in DOMAIN tallies : tallies[j].matched = Count(tallies[j].rule)
        /\ {warnings[j].rule : j \in DOMAIN warnings} =
             {tallies[j].rule : j \in {j \in DOMAIN tallies : tallies[j].matched = 0}}
    BY DEF Evaluated
  <2> QED BY <2>2, <2>3, <2>4 DEF OutcomeAddsUp
<1> QED BY <1>1, ExecutionInv, PTL

(* Lists and typed values.                                                 *)

\* What a text is read as.
LEMMA ReadingOf ==
  ASSUME NEW t \in Texts
  PROVE  /\ Text(t).kind = "text" /\ AsText(Text(t)) = t
         /\ AsNumber(Text(t)) = Lex[t].number /\ AsBool(Text(t)) = Lex[t].bool
         /\ IsWord(Text(t)) = Lex[t].word /\ Lex[t].word \in BOOLEAN
         /\ Key(Text(t)) = IF Lex[t].number # NoValue THEN <<"number", Lex[t].number>> ELSE <<"text", Lex[t].key>>
<1>1. Text(t).kind = "text" /\ Text(t).text = t
  BY DEF Text
<1>2. AsText(Text(t)) = t
  BY <1>1 DEF AsText
<1>3. AsNumber(Text(t)) = Lex[t].number
  BY <1>1 DEF AsNumber
<1>4. AsBool(Text(t)) = Lex[t].bool
  BY <1>1 DEF AsBool
<1>5. Lex[t].word \in BOOLEAN
  BY LexiconAssumption DEF Meaning
<1>6. IsWord(Text(t)) = Lex[t].word
  BY <1>1, <1>5 DEF IsWord
<1>7. Key(Text(t)) = IF Lex[t].number # NoValue THEN <<"number", Lex[t].number>> ELSE <<"text", Lex[t].key>>
  BY <1>2, <1>3 DEF Key, IsNumber
<1> QED BY <1>1, <1>2, <1>3, <1>4, <1>5, <1>6, <1>7

\* What is in a member set: the numbers, the folded texts, the booleans and
\* the words of its items.
LEMMA MembersAre ==
  ASSUME NEW items \in SUBSET Texts
  PROVE  /\ \A n : <<"number", n>> \in MembersOf(items) <=>
                     \E t \in Listed(items) : Lex[t].number = n /\ n # NoValue
         /\ \A x : <<"text", x>> \in MembersOf(items) <=>
                     \E t \in Listed(items) : Lex[t].number = NoValue /\ Lex[t].key = x
         /\ \A b : <<"bool", b>> \in MembersOf(items) <=>
                     \E t \in Listed(items) : Lex[t].bool = b /\ b # NoValue
         /\ \A b : <<"word", b>> \in MembersOf(items) <=>
                     \E t \in Listed(items) : Lex[t].word /\ Lex[t].bool = b
<1>1. \A t \in Listed(items) : t \in Texts
  BY DEF Listed
<1>2. \A t \in Listed(items) :
        /\ Key(Text(t)) = IF Lex[t].number # NoValue THEN <<"number", Lex[t].number>> ELSE <<"text", Lex[t].key>>
        /\ Lex[t].word \in BOOLEAN
  BY <1>1, ReadingOf
<1>3. \A kind, x : <<kind, x>> \in MembersOf(items) <=>
        \E t \in Listed(items) : <<kind, x>> = Key(Text(t)) \/ <<kind, x>> \in Tokens(t)
  BY DEF MembersOf
<1>4. \A kind, x : \A t : <<kind, x>> \in Tokens(t) <=>
        \/ kind = "bool" /\ x = Lex[t].bool /\ x # NoValue
        \/ kind = "word" /\ Lex[t].word /\ x = Lex[t].bool
  BY DEF Tokens
<1>5. ASSUME NEW t \in Listed(items)
      PROVE  /\ \A n : <<"number", n>> = Key(Text(t)) \/ <<"number", n>> \in Tokens(t) <=> Lex[t].number = n /\ n # NoValue
             /\ \A x : <<"text", x>> = Key(Text(t)) \/ <<"text", x>> \in Tokens(t) <=> Lex[t].number = NoValue /\ Lex[t].key = x
             /\ \A b : <<"bool", b>> = Key(Text(t)) \/ <<"bool", b>> \in Tokens(t) <=> Lex[t].bool = b /\ b # NoValue
             /\ \A b : <<"word", b>> = Key(Text(t)) \/ <<"word", b>> \in Tokens(t) <=> Lex[t].word /\ Lex[t].bool = b
  <2>1. CASE Lex[t].number # NoValue
    <3>1. \A kind, x : <<kind, x>> = Key(Text(t)) <=> kind = "number" /\ x = Lex[t].number
      BY <1>2, <2>1
    <3> QED BY <1>4, <2>1, <3>1
  <2>2. CASE Lex[t].number = NoValue
    <3>1. \A kind, x : <<kind, x>> = Key(Text(t)) <=> kind = "text" /\ x = Lex[t].key
      BY <1>2, <2>2
    <3> QED BY <1>4, <2>2, <3>1
  <2> QED BY <2>1, <2>2
<1> QED BY <1>3, <1>5

LEMMA ListReadsLikeIn ==
  ASSUME NEW items \in SUBSET Texts, NEW c \in Cells \ {Null}
  PROVE  IsMember(MembersOf(items), c) <=> \E t \in Listed(items) : Equals(c, Text(t)) \/ Folded(c, t)
<1> DEFINE M == MembersOf(items)
<1>1. /\ \A n : <<"number", n>> \in M <=> \E t \in Listed(items) : Lex[t].number = n /\ n # NoValue
      /\ \A x : <<"text", x>> \in M <=> \E t \in Listed(items) : Lex[t].number = NoValue /\ Lex[t].key = x
      /\ \A b : <<"bool", b>> \in M <=> \E t \in Listed(items) : Lex[t].bool = b /\ b # NoValue
      /\ \A b : <<"word", b>> \in M <=> \E t \in Listed(items) : Lex[t].word /\ Lex[t].bool = b
  BY MembersAre
<1> HIDE DEF M
<1>2. \A t \in Listed(items) :
        /\ t \in Texts /\ Text(t).kind = "text" /\ AsText(Text(t)) = t
        /\ AsNumber(Text(t)) = Lex[t].number /\ AsBool(Text(t)) = Lex[t].bool
        /\ IsWord(Text(t)) = Lex[t].word /\ IsNumber(Text(t)) = (Lex[t].number # NoValue)
  BY ReadingOf DEF Listed, IsNumber
<1>3. ASSUME NEW b \in BOOLEAN, c = Bool(b)
      PROVE  IsMember(M, c) <=> \E t \in Listed(items) : Equals(c, Text(t)) \/ Folded(c, t)
  <2>1. c.kind = "bool" /\ c.bool = b /\ ~IsNumber(c) /\ ~IsWord(c) /\ AsText(c) = BoolText[b] /\ b # NoValue
    BY <1>3, LexiconAssumption DEF Bool, IsNumber, AsNumber, IsWord, AsText
  <2>2. IsMember(M, c) <=> \E t \in Listed(items) : \/ Lex[t].number = NoValue /\ Lex[t].key = Lex[BoolText[b]].key
                                                    \/ Lex[t].bool = b
    BY <1>1, <2>1 DEF IsMember, Key
  <2>3. BoolText[b] \in Texts /\ Lex[BoolText[b]].bool = b
    BY LexiconAssumption
  <2>4. \A t \in Listed(items) : Lex[t].key = Lex[BoolText[b]].key => Lex[t].bool = b
    BY <1>2, <2>3, LexiconAssumption
  <2>5. \A t \in Listed(items) : (Equals(c, Text(t)) <=> Lex[t].bool = b) /\ ~Folded(c, t)
    <3>1. \A t \in Listed(items) : Equals(c, Text(t)) <=> AsBool(Text(t)) = b
      BY <2>1 DEF Equals
    <3> QED BY <1>2, <2>1, <3>1 DEF Folded
  <2> QED BY <2>2, <2>4, <2>5
<1>4. ASSUME NEW n \in Numbers, c = Number(n)
      PROVE  IsMember(M, c) <=> \E t \in Listed(items) : Equals(c, Text(t)) \/ Folded(c, t)
  <2>1. c.kind = "number" /\ AsNumber(c) = n /\ IsNumber(c) /\ ~IsWord(c) /\ AsText(c) = NumberText[n] /\ n # NoValue
    BY <1>4, LexiconAssumption DEF Number, IsNumber, AsNumber, IsWord, AsText
  <2>2. IsMember(M, c) <=> \E t \in Listed(items) : Lex[t].number = n
    BY <1>1, <2>1 DEF IsMember, Key
  <2>3. Lex[NumberText[n]].number = n
    BY LexiconAssumption
  <2>4. ASSUME NEW t \in Listed(items) PROVE Equals(c, Text(t)) <=> Lex[t].number = n
    <3>1. CASE Lex[t].number # NoValue
      BY <1>2, <2>1, <3>1 DEF Equals
    <3>2. CASE Lex[t].number = NoValue
      <4>1. Equals(c, Text(t)) <=> NumberText[n] = t
        BY <1>2, <2>1, <3>2 DEF Equals
      <4> QED BY <2>1, <2>3, <3>2, <4>1
    <3> QED BY <3>1, <3>2
  <2>5. \A t \in Listed(items) : ~Folded(c, t)
    BY <2>1 DEF Folded
  <2> QED BY <2>2, <2>4, <2>5
<1>5. ASSUME NEW x \in Texts, c = Text(x)
      PROVE  IsMember(M, c) <=> \E t \in Listed(items) : Equals(c, Text(t)) \/ Folded(c, t)
  <2>1. /\ c.kind = "text" /\ c.text = x /\ AsText(c) = x /\ AsNumber(c) = Lex[x].number /\ AsBool(c) = Lex[x].bool
        /\ IsWord(c) = Lex[x].word /\ IsNumber(c) = (Lex[x].number # NoValue)
        /\ Key(c) = IF Lex[x].number # NoValue THEN <<"number", Lex[x].number>> ELSE <<"text", Lex[x].key>>
    BY <1>5, ReadingOf DEF IsNumber, Text
  <2>2. Lex[x].word \in BOOLEAN /\ (Lex[x].word => Lex[x].number = NoValue)
    BY ReadingOf, LexiconAssumption
  <2>3. \A t \in Listed(items) : Lex[t].word \in BOOLEAN /\ (Lex[t].word => Lex[t].number = NoValue)
    BY <1>2, ReadingOf, LexiconAssumption
  <2>4. \A t \in Listed(items) :
          Folded(c, t) <=> Lex[x].number = NoValue /\ Lex[t].number = NoValue /\ Lex[x].key = Lex[t].key
    BY <1>2, <2>1 DEF Folded
  <2>5. CASE Lex[x].number # NoValue
    <3>1. ~Lex[x].word
      BY <2>2, <2>5
    <3>2. IsMember(M, c) <=> \E t \in Listed(items) : Lex[t].number = Lex[x].number
      BY <1>1, <2>1, <2>5, <3>1 DEF IsMember
    <3>3. ASSUME NEW t \in Listed(items) PROVE Equals(c, Text(t)) <=> Lex[t].number = Lex[x].number
      <4>1. CASE Lex[t].number # NoValue
        BY <1>2, <2>1, <2>5, <3>1, <4>1 DEF Equals
      <4>2. CASE Lex[t].number = NoValue
        <5>1. Equals(c, Text(t)) <=> x = t
          BY <1>2, <2>1, <3>1, <4>2 DEF Equals
        <5> QED BY <2>5, <4>2, <5>1
      <4> QED BY <4>1, <4>2
    <3> QED BY <2>4, <2>5, <3>2, <3>3
  <2>6. CASE Lex[x].number = NoValue /\ Lex[x].word
    <3>1. IsMember(M, c) <=> \E t \in Listed(items) : \/ Lex[t].number = NoValue /\ Lex[t].key = Lex[x].key
                                                      \/ Lex[t].word /\ Lex[t].bool = Lex[x].bool
      BY <1>1, <2>1, <2>6 DEF IsMember
    <3>2. ASSUME NEW t \in Listed(items) PROVE Equals(c, Text(t)) <=> Lex[t].word /\ Lex[t].bool = Lex[x].bool
      <4>1. CASE Lex[t].word
        BY <1>2, <2>1, <2>6, <4>1 DEF Equals
      <4>2. CASE ~Lex[t].word
        <5>1. Equals(c, Text(t)) <=> x = t
          BY <1>2, <2>1, <2>6, <4>2 DEF Equals
        <5> QED BY <2>6, <4>2, <5>1
      <4> QED BY <4>1, <4>2
    <3> QED BY <2>4, <2>6, <3>1, <3>2
  <2>7. CASE Lex[x].number = NoValue /\ ~Lex[x].word
    <3>1. IsMember(M, c) <=> \E t \in Listed(items) : Lex[t].number = NoValue /\ Lex[t].key = Lex[x].key
      BY <1>1, <2>1, <2>7 DEF IsMember
    <3>2. \A t \in Listed(items) : Equals(c, Text(t)) <=> x = t
      BY <1>2, <2>1, <2>7 DEF Equals
    <3> QED BY <2>4, <2>7, <3>1, <3>2
  <2> QED BY <2>2, <2>5, <2>6, <2>7
<1> QED BY <1>3, <1>4, <1>5 DEF Cells, M

\* A list flags the rows that `in' with its items flags, and those that differ
\* from one in case or blanks alone (lists/matching.py).
THEOREM ListsRead == ExecutionSpec => []ListsReadLikeIn
<1>1. Answered => ListsReadLikeIn
  <2> SUFFICES ASSUME Answered, NEW l \in DOMAIN ItemLists, NEW r \in DOMAIN rows, NEW p \in DOMAIN rows[r],
                      rows[r][p] # Null
               PROVE  IsMember(MembersOf(ItemLists[l]), rows[r][p]) <=>
                        \E t \in Listed(ItemLists[l]) : Equals(rows[r][p], Text(t)) \/ Folded(rows[r][p], t)
    BY DEF ListsReadLikeIn
  <2>1. rows \in Seq(Seq(Cells))
    BY DEF Answered, RowLists
  <2>2. rows[r] \in Seq(Cells)
    BY <2>1
  <2>3. rows[r][p] \in Cells \ {Null}
    BY <2>2
  <2>4. ItemLists[l] \in SUBSET Texts
    BY ExecutionAssumption
  <2> QED BY <2>3, <2>4, ListReadsLikeIn
<1> QED BY <1>1, ExecutionInv, PTL
-----------------------------------------------------------------------------
(* The guard: what it returns, it would accept.  The checks are made on the  *)
(* statement with its semicolon, and the text is returned without.           *)

Plain(s) == \A i \in DOMAIN s : s[i].type # "comment"

LEMMA SemicolonType == Semicolon.type = "punctuation"
<1>1. \A w : Mark(w).type = "punctuation"
  BY DEF Mark
<1> QED BY <1>1, Zenon DEF Semicolon

LEMMA StrippedIs ==
  ASSUME NEW T, NEW tokens \in Seq(T)
  PROVE  /\ Stripped(tokens) \in Seq(T) /\ Plain(Stripped(tokens))
         /\ Len(Stripped(tokens)) <= Len(tokens)
<1> DEFINE W == Words(tokens)
           n == Cardinality(W)
           L == Len(tokens)
           rank(i) == Cardinality(W \cap (1 .. i))
<1>1. L \in Nat /\ DOMAIN tokens = 1 .. L /\ \A i \in 1 .. L : tokens[i] \in T
  OBVIOUS
<1>2. W \in SUBSET (1 .. L) /\ \A i \in W : i \in Nat /\ tokens[i].type # "comment"
  BY <1>1 DEF Words
<1>3. /\ Stripped(tokens) = [k \in 1 .. n |-> tokens[CHOOSE i \in W : rank(i) = k]]
  BY DEF Stripped
<1> HIDE DEF W, L
<1>4. IsFiniteSet(W) /\ n \in Nat /\ n <= L
  <2>1. IsFiniteSet(1 .. L) /\ Cardinality(1 .. L) = L
    BY <1>1, FS_Interval
  <2> QED BY <1>2, <2>1, FS_Subset, FS_CardinalityType
<1>5. ASSUME NEW i \in W
      PROVE  W \cap (1 .. i) \in SUBSET W /\ IsFiniteSet(W \cap (1 .. i)) /\ rank(i) \in 1 .. n
  <2>1. W \cap (1 .. i) \in SUBSET W /\ i \in W \cap (1 .. i)
    BY <1>1, <1>2
  <2>2. IsFiniteSet(W \cap (1 .. i)) /\ rank(i) <= n
    BY <1>4, <2>1, FS_Subset
  <2>3. rank(i) \in Nat /\ rank(i) # 0
    BY <2>1, <2>2, FS_CardinalityType, FS_EmptySet
  <2> QED BY <1>4, <2>1, <2>2, <2>3
<1>6. ASSUME NEW i \in W, NEW j \in W, i < j PROVE rank(i) # rank(j)
  <2>1. W \cap (1 .. i) \in SUBSET (W \cap (1 .. j))
    BY <1>2, <1>6
  <2>2. j \in W \cap (1 .. j) /\ j \notin W \cap (1 .. i)
    BY <1>1, <1>2, <1>6
  <2>3. rank(i) = rank(j) => W \cap (1 .. i) = W \cap (1 .. j)
    BY <1>5, <2>1, FS_Subset
  <2> QED BY <2>2, <2>3
<1> DEFINE f == [i \in W |-> rank(i)]
<1>7. IsFiniteSet(1 .. n) /\ Cardinality(1 .. n) = n
  BY <1>4, FS_Interval
<1>8. f \in Injection(W, 1 .. n)
  <2>1. f \in [W -> 1 .. n]
    BY <1>5
  <2>2. \A i, j \in W : f[i] = f[j] => i = j
    BY <1>2, <1>6
  <2> QED BY <2>1, <2>2 DEF Injection, IsInjective
<1>9. f \in Surjection(W, 1 .. n)
  <2> HIDE DEF f
  <2> QED BY <1>7, <1>8, FS_Injection
<1>10. \A k \in 1 .. n : \E i \in W : rank(i) = k
  BY <1>9 DEF Surjection
<1> HIDE DEF rank, f
<1>11. \A k \in 1 .. n : (CHOOSE i \in W : rank(i) = k) \in W
  BY <1>10
<1> DEFINE s == [k \in 1 .. n |-> tokens[CHOOSE i \in W : rank(i) = k]]
<1>12. s \in Seq(T) /\ Len(s) = n /\ DOMAIN s = 1 .. n /\ \A k \in 1 .. n : s[k].type # "comment"
  <2>1. \A k \in 1 .. n : s[k] \in T /\ s[k].type # "comment"
    BY <1>1, <1>2, <1>11
  <2>2. s \in [1 .. n -> T]
    BY <2>1
  <2> HIDE DEF s
  <2> QED BY <1>4, <2>1, <2>2
<1> HIDE DEF s, n
<1>13. Stripped(tokens) = s
  BY <1>3 DEF s, n, rank
<1> QED BY <1>4, <1>12, <1>13 DEF Plain, L

\* A text without comments is stripped of none.
LEMMA StrippedPlain ==
  ASSUME NEW T, NEW s \in Seq(T), Plain(s)
  PROVE  Stripped(s) = s
<1> DEFINE L == Len(s)
<1>1. L \in Nat /\ DOMAIN s = 1 .. L
  OBVIOUS
<1>2. Words(s) = 1 .. L
  BY <1>1 DEF Words, Plain
<1>3. Cardinality(1 .. L) = L
  BY <1>1, FS_Interval, SMTT(30)
<1>4. ASSUME NEW i \in 1 .. L PROVE Cardinality((1 .. L) \cap (1 .. i)) = i
  <2>1. (1 .. L) \cap (1 .. i) = 1 .. i /\ i \in Nat
    BY <1>1
  <2>2. Cardinality(1 .. i) = i
    BY <2>1, FS_Interval
  <2> QED BY <2>1, <2>2
<1>5. Stripped(s) = [k \in 1 .. L |-> s[CHOOSE i \in 1 .. L : Cardinality((1 .. L) \cap (1 .. i)) = k]]
  BY <1>2, <1>3 DEF Stripped
<1> HIDE DEF L
<1>6. ASSUME NEW k \in 1 .. L
      PROVE  (CHOOSE i \in 1 .. L : Cardinality((1 .. L) \cap (1 .. i)) = k) = k
  <2>1. \A i \in 1 .. L : Cardinality((1 .. L) \cap (1 .. i)) = k <=> i = k
    BY <1>4
  <2> QED BY <2>1
<1>7. Stripped(s) = [k \in 1 .. L |-> s[k]]
  BY <1>5, <1>6
<1> QED BY <1>7 DEF L

\* A statement has no semicolon but for its last token.
LEMMA SpanIs ==
  ASSUME NEW T, NEW s \in Seq(T), NEW span \in Spans(s)
  PROVE  /\ span[1] \in 1 .. Len(s) /\ span[2] \in 1 .. Len(s) /\ span[1] <= span[2]
         /\ \A k \in span[1] .. span[2] - 1 : s[k] # Semicolon
<1> DEFINE L == Len(s)
           ends == {i \in DOMAIN s : s[i] = Semicolon} \cup {0, L}
<1>1. L \in Nat /\ DOMAIN s = 1 .. L
  OBVIOUS
<1>2. PICK i \in ends \ {L} : span = <<i + 1, Min({j \in ends : j > i})>>
  BY DEF Spans
<1>3. ends \subseteq 0 .. L /\ i \in 0 .. L - 1 /\ L \in ends
  BY <1>1
<1> DEFINE later == {j \in ends : j > i}
<1>4. later \subseteq 0 .. L /\ L \in later
  BY <1>1, <1>3
<1>5. Min(later) \in later /\ \A j \in later : Min(later) <= j
  <2> HIDE DEF later
  <2>1. \E m \in later : \A j \in later : m <= j
    BY <1>1, <1>4, LeastOf
  <2> QED BY <2>1 DEF Min
<1>6. Min(later) \in 1 .. L /\ i + 1 <= Min(later)
  <2>1. \A j \in later : j \in 0 .. L /\ j > i
    BY <1>4
  <2> HIDE DEF later
  <2> QED BY <1>1, <1>3, <1>5, <2>1
<1>7. ASSUME NEW k \in i + 1 .. Min(later) - 1 PROVE s[k] # Semicolon
  <2>1. k \in DOMAIN s /\ k > i /\ ~ (Min(later) <= k)
    BY <1>1, <1>3, <1>6
  <2>2. k \notin later
    BY <1>5, <2>1
  <2> QED BY <2>1, <2>2
<1> HIDE DEF later
<1>8. span[1] = i + 1 /\ span[2] = Min(later)
  BY <1>2 DEF later
<1> QED BY <1>1, <1>3, <1>6, <1>7, <1>8

Unended(s) == \A i \in DOMAIN s : s[i] # Semicolon

\* A text without semicolons is one statement.
LEMMA SpansOne ==
  ASSUME NEW T, NEW s \in Seq(T), Unended(s), s # <<>>
  PROVE  Spans(s) = {<<1, Len(s)>>}
<1>1. Len(s) \in Nat /\ Len(s) # 0 /\ DOMAIN s = 1 .. Len(s)
  OBVIOUS
<1>2. {i \in DOMAIN s : s[i] = Semicolon} \cup {0, Len(s)} = {0, Len(s)}
  BY DEF Unended
<1>3. {0, Len(s)} \ {Len(s)} = {0}
  BY <1>1
<1>4. {j \in {0, Len(s)} : j > 0} = {Len(s)}
  BY <1>1
<1>5. Min({Len(s)}) = Len(s)
  BY <1>1 DEF Min
<1>6. Spans(s) = {<<i + 1, Min({j \in {0, Len(s)} : j > i})>> : i \in {0}}
  BY <1>2, <1>3 DEF Spans
<1> QED BY <1>4, <1>5, <1>6

\* What the checks say of a statement they say of it without its semicolon.
LEMMA WithoutEnd ==
  ASSUME NEW T, NEW s \in Seq(T), NEW n \in Nat \ {0}, NEW bare \in Seq(T),
         Len(bare) = n, Len(s) = n \/ (Len(s) = n + 1 /\ s[n + 1] = Semicolon),
         \A i \in 1 .. n : bare[i] = s[i]
  PROVE  /\ TypeOf(bare) = TypeOf(s)
         /\ ~HasForbiddenKeyword(s) => ~HasForbiddenKeyword(bare)
         /\ ~Calls(s) => ~Calls(bare)
         /\ ~Locks(s) => ~Locks(bare)
<1>1. /\ DOMAIN bare = 1 .. n /\ Len(s) \in {n, n + 1} /\ DOMAIN s = 1 .. Len(s)
      /\ 1 .. n \subseteq 1 .. Len(s)
  OBVIOUS
<1>2. bare[1] = s[1]
  <2>1. 1 \in 1 .. n
    BY ONLY n \in Nat \ {0}
  <2> QED BY <2>1
<1>3. TypeOf(bare) = TypeOf(s)
  <2> DEFINE depth(x, i) == Cardinality({j \in 1 .. i : x[j] = Opening})
                              - Cardinality({j \in 1 .. i : x[j] = Closing})
             commands(x) == {i \in DOMAIN x : depth(x, i) = 0 /\ x[i].type = "keyword"
                                               /\ x[i].word \in DataKeywords}
  <2>1. ASSUME NEW i \in 1 .. n PROVE depth(bare, i) = depth(s, i)
    <3>1. 1 .. i \subseteq 1 .. n
      OBVIOUS
    <3>2. /\ {j \in 1 .. i : bare[j] = Opening} = {j \in 1 .. i : s[j] = Opening}
          /\ {j \in 1 .. i : bare[j] = Closing} = {j \in 1 .. i : s[j] = Closing}
      BY <3>1
    <3> QED BY <3>2
  <2> HIDE DEF depth
  <2>2. commands(bare) = commands(s)
    <3>1. ASSUME NEW i \in DOMAIN s, i \notin 1 .. n PROVE s[i].type # "keyword"
      <4>1. s[i] = Semicolon
        <5>1. i \in 1 .. Len(s)
          BY ONLY <1>1, <3>1
        <5>2. Len(s) # n
          BY ONLY <3>1, <5>1
        <5>3. Len(s) = n + 1 /\ s[n + 1] = Semicolon
          BY ONLY <5>2, Len(s) = n \/ (Len(s) = n + 1 /\ s[n + 1] = Semicolon)
        <5>4. i = n + 1
          BY ONLY <3>1, <5>1, <5>3, n \in Nat \ {0}
        <5> QED BY ONLY <5>3, <5>4
      <4>2. Semicolon.type # "keyword"
        BY SemicolonType
      <4> QED BY <4>1, <4>2
    <3> QED BY <1>1, <2>1, <3>1
  <2>3. \A i \in commands(s) : bare[i] = s[i]
    BY <1>1, <2>2
  <2>4. /\ TypeOf(bare) = IF \/ bare[1] \notin {Keyword("WITH")} \cup {Keyword(w) : w \in DataKeywords}
                             \/ commands(bare) = {}
                          THEN "UNKNOWN" ELSE bare[Min(commands(bare))].word
        /\ TypeOf(s) = IF \/ s[1] \notin {Keyword("WITH")} \cup {Keyword(w) : w \in DataKeywords}
                          \/ commands(s) = {}
                       THEN "UNKNOWN" ELSE s[Min(commands(s))].word
    BY DEF TypeOf, depth
  <2>5. commands(s) # {} => Min(commands(s)) \in commands(s)
    <3> DEFINE C == commands(s)
    <3>1. C \subseteq 0 .. n
      <4>1. C \subseteq 1 .. n
        BY ONLY <1>1, <2>2
      <4> QED BY ONLY <4>1, n \in Nat \ {0}
    <3> HIDE DEF C
    <3>2. C # {} => Min(C) \in C
      <4>1. C # {} => \E m \in C : \A j \in C : m <= j
        BY <3>1, LeastOf
      <4> QED BY <4>1 DEF Min
    <3> QED BY <3>2 DEF C
  <2> HIDE DEF commands
  <2> QED BY <1>2, <2>2, <2>3, <2>4, <2>5
<1>4. HasForbiddenKeyword(bare) => HasForbiddenKeyword(s)
  <2>1. ToSet(bare) \subseteq ToSet(s)
    BY <1>1 DEF ToSet
  <2> QED BY <2>1 DEF HasForbiddenKeyword
<1>5. Calls(bare) => Calls(s)
  <2> SUFFICES ASSUME Calls(bare) PROVE Calls(s)
    OBVIOUS
  <2>1. PICK i \in 1 .. n :
          /\ bare[i].type \in {"name", "symbol", "keyword"}
          /\ bare[i].word \in ForbiddenFunctions
          /\ \/ Followed(bare, i, Opening)
             \/ Preceded(bare, i, Period) /\ bare[i].word \in PostgresFunctions
    BY <1>1 DEF Calls
  <2>2. Followed(bare, i, Opening) => Followed(s, i, Opening)
    <3> SUFFICES ASSUME i < n, bare[i + 1] = Opening PROVE i < Len(s) /\ s[i + 1] = Opening
      BY <1>1 DEF Followed
    <3>1. i + 1 \in 1 .. n
      OBVIOUS
    <3>2. bare[i + 1] = s[i + 1]
      BY <3>1
    <3>3. i < Len(s)
      <4>1. Len(s) = n \/ Len(s) = n + 1
        BY <1>1
      <4> QED BY ONLY <4>1, i < n, n \in Nat \ {0}
    <3> QED BY <3>2, <3>3
  <2>3. Preceded(bare, i, Period) => Preceded(s, i, Period)
    <3> SUFFICES ASSUME i > 1, bare[i - 1] = Period PROVE s[i - 1] = Period
      BY DEF Preceded
    <3>1. i - 1 \in 1 .. n
      OBVIOUS
    <3> QED BY <3>1
  <2> QED BY <1>1, <2>1, <2>2, <2>3 DEF Calls
<1>6. Locks(bare) => Locks(s)
  <2> SUFFICES ASSUME Locks(bare) PROVE Locks(s)
    OBVIOUS
  <2>1. PICK i \in 1 .. n, j \in 1 .. n :
          /\ i < j /\ bare[i] = Keyword("FOR")
          /\ \A h \in i + 1 .. j - 1 : bare[h] \in {Keyword("NO"), Keyword("KEY")}
          /\ bare[j].type = "keyword" /\ bare[j].word \in LockingWords
    BY <1>1 DEF Locks
  <2>2. \A h \in i + 1 .. j - 1 : h \in 1 .. n
    OBVIOUS
  <2>3. \A h \in i + 1 .. j - 1 : s[h] \in {Keyword("NO"), Keyword("KEY")}
    BY <2>1, <2>2
  <2> QED BY <1>1, <2>1, <2>3 DEF Locks
<1> QED BY <1>3, <1>4, <1>5, <1>6

\* What was accepted passed every check, as one statement.
LEMMA AcceptedIs ==
  ASSUME NEW tokens, Validated(tokens).code = "accepted"
  PROVE  /\ ~(Len(tokens) > MaxLength)
         /\ \E span \in Spans(Stripped(tokens)) : \E s :
              /\ s = SubSeq(Stripped(tokens), span[1], span[2])
              /\ Validated(tokens) = Accepted(Bare(s)) /\ Bare(s) # <<>>
              /\ TypeOf(s) \in AllowedTypes
              /\ ~HasForbiddenKeyword(s) /\ ~Calls(s) /\ ~Locks(s) /\ ~IsAmbiguous(Bare(s))
<1> DEFINE stripped == Stripped(tokens)
           part(span) == SubSeq(stripped, span[1], span[2])
           statements == {span \in Spans(stripped) : Bare(part(span)) # <<>>}
           the == CHOOSE span \in statements : TRUE
           s == part(the)
<1>1. \A code : Rejected(code).code = code
  BY DEF Rejected
<1>2. Validated(tokens) =
        CASE tokens = <<>> -> Rejected("EMPTY_STATEMENT")
          [] Len(tokens) > MaxLength -> Rejected("SQL_TOO_LONG")
          [] IsAmbiguous(tokens) -> Rejected("INVALID_SQL")
          [] statements = {} -> Rejected("EMPTY_STATEMENT")
          [] Cardinality(statements) > 1 -> Rejected("MULTIPLE_STATEMENTS")
          [] TypeOf(s) \notin AllowedTypes -> Rejected("NON_SELECT_STATEMENT")
          [] HasForbiddenKeyword(s) -> Rejected("FORBIDDEN_KEYWORD")
          [] Calls(s) -> Rejected("FORBIDDEN_FUNCTION")
          [] Locks(s) -> Rejected("FORBIDDEN_KEYWORD")
          [] IsAmbiguous(Bare(s)) -> Rejected("INVALID_SQL")
          [] OTHER -> Accepted(Bare(s))
  BY Zenon DEF Validated
<1>3. (statements # {} => the \in statements) /\ \A span \in statements : span \in Spans(stripped) /\ Bare(part(span)) # <<>>
  OBVIOUS
<1> HIDE DEF statements, the, s
<1>4. /\ ~(Len(tokens) > MaxLength) /\ statements # {}
      /\ Validated(tokens) = Accepted(Bare(s))
      /\ TypeOf(s) \in AllowedTypes
      /\ ~HasForbiddenKeyword(s) /\ ~Calls(s) /\ ~Locks(s) /\ ~IsAmbiguous(Bare(s))
  BY <1>1, <1>2
<1>5. the \in Spans(stripped) /\ s = part(the) /\ Bare(s) # <<>>
  BY <1>3, <1>4 DEF s
<1> QED BY <1>4, <1>5

LEMMA AcceptedIf ==
  ASSUME NEW s, s # <<>>, ~(Len(s) > MaxLength), ~IsAmbiguous(s),
         Stripped(s) = s, NEW span, Spans(s) = {span}, SubSeq(s, span[1], span[2]) = s, Bare(s) = s,
         TypeOf(s) \in AllowedTypes, ~HasForbiddenKeyword(s), ~Calls(s), ~Locks(s)
  PROVE  Validated(s) = Accepted(s)
<1> DEFINE part(x) == SubSeq(s, x[1], x[2])
           statements == {x \in Spans(s) : Bare(part(x)) # <<>>}
           one == part(CHOOSE x \in statements : TRUE)
<1>1. statements = {span}
  OBVIOUS
<1>2. Cardinality(statements) = 1
  BY <1>1, FS_Singleton
<1>3. one = s
  BY <1>1
<1>4. Validated(s) =
        CASE s = <<>> -> Rejected("EMPTY_STATEMENT")
          [] Len(s) > MaxLength -> Rejected("SQL_TOO_LONG")
          [] IsAmbiguous(s) -> Rejected("INVALID_SQL")
          [] statements = {} -> Rejected("EMPTY_STATEMENT")
          [] Cardinality(statements) > 1 -> Rejected("MULTIPLE_STATEMENTS")
          [] TypeOf(one) \notin AllowedTypes -> Rejected("NON_SELECT_STATEMENT")
          [] HasForbiddenKeyword(one) -> Rejected("FORBIDDEN_KEYWORD")
          [] Calls(one) -> Rejected("FORBIDDEN_FUNCTION")
          [] Locks(one) -> Rejected("FORBIDDEN_KEYWORD")
          [] IsAmbiguous(Bare(one)) -> Rejected("INVALID_SQL")
          [] OTHER -> Accepted(Bare(one))
  BY Zenon DEF Validated
<1> HIDE DEF statements, one
<1>5. statements # {} /\ ~(Cardinality(statements) > 1)
  BY <1>1, <1>2
<1> QED BY <1>3, <1>4, <1>5

LEMMA GuardStands ==
  ASSUME NEW T, NEW tokens \in Seq(T), Validated(tokens).code = "accepted"
  PROVE  Validated(Validated(tokens).text) = Validated(tokens)
<1> DEFINE x == Stripped(tokens)
<1>1. x \in Seq(T) /\ Plain(x) /\ Len(x) <= Len(tokens) /\ Len(tokens) \in Nat /\ MaxLength \in Nat
  BY StrippedIs, GuardAssumption
<1> HIDE DEF x
<1>2. PICK span \in Spans(x) : \E s :
        /\ s = SubSeq(x, span[1], span[2])
        /\ Validated(tokens) = Accepted(Bare(s)) /\ Bare(s) # <<>>
        /\ TypeOf(s) \in AllowedTypes
        /\ ~HasForbiddenKeyword(s) /\ ~Calls(s) /\ ~Locks(s) /\ ~IsAmbiguous(Bare(s))
  BY AcceptedIs DEF x
<1>2a. PICK s :
        /\ s = SubSeq(x, span[1], span[2])
        /\ Validated(tokens) = Accepted(Bare(s)) /\ Bare(s) # <<>>
        /\ TypeOf(s) \in AllowedTypes
        /\ ~HasForbiddenKeyword(s) /\ ~Calls(s) /\ ~Locks(s) /\ ~IsAmbiguous(Bare(s))
  BY <1>2
<1>3. ~(Len(tokens) > MaxLength)
  BY AcceptedIs
<1> DEFINE a == span[1]
           b == span[2]
           m == b - a + 1
           t == Bare(s)
<1>4. /\ a \in 1 .. Len(x) /\ b \in 1 .. Len(x) /\ a <= b /\ Len(x) \in Nat
      /\ \A k \in a .. b - 1 : x[k] # Semicolon
  BY <1>1, SpanIs
<1> HIDE DEF a, b
<1>5. /\ s \in Seq(T) /\ Len(s) = m /\ m \in Nat \ {0} /\ m <= Len(x) /\ DOMAIN s = 1 .. m
      /\ \A k \in 1 .. m : s[k] = x[a + k - 1]
  <2>1. s = SubSeq(x, a, b)
    BY <1>2a DEF a, b
  <2>2. \A i \in a .. b : x[i] \in T
    BY <1>1, <1>4
  <2>3. /\ s \in Seq(T) /\ Len(s) = IF a <= b THEN b - a + 1 ELSE 0
        /\ \A k \in 1 .. b - a + 1 : s[k] = x[a + k - 1]
    BY <1>4, <2>1, <2>2, SubSeqProperties
  <2> QED BY <1>4, <2>3
<1> HIDE DEF m
<1>6. /\ \A k \in 1 .. m : s[k].type # "comment"
      /\ \A k \in 1 .. m - 1 : s[k] # Semicolon
  <2>1. ASSUME NEW k \in 1 .. m
        PROVE  s[k].type # "comment" /\ (k \in 1 .. m - 1 => s[k] # Semicolon)
    <3>1. a + k - 1 \in 1 .. Len(x) /\ (k \in 1 .. m - 1 => a + k - 1 \in a .. b - 1)
      BY <1>4, <1>5 DEF m
    <3>2. s[k] = x[a + k - 1]
      BY <1>5
    <3>3. x[a + k - 1].type # "comment"
      BY <1>1, <3>1 DEF Plain
    <3> QED BY <1>4, <3>1, <3>2, <3>3
  <2> QED BY <1>5, <2>1
<1>7. \E n \in Nat \ {0} :
        /\ t \in Seq(T) /\ Len(t) = n /\ \A i \in 1 .. n : t[i] = s[i]
        /\ m = n \/ (m = n + 1 /\ s[n + 1] = Semicolon)
        /\ m = n => s[n] # Semicolon
  <2>1. CASE Last(s) = Semicolon
    <3>1. t = SubSeq(s, 1, m - 1) /\ s[m] = Semicolon
      BY <1>5, <2>1 DEF Bare, Front, Last
    <3>2. /\ t \in Seq(T) /\ Len(t) = IF 1 <= m - 1 THEN m - 1 - 1 + 1 ELSE 0
          /\ \A i \in 1 .. m - 1 - 1 + 1 : t[i] = s[1 + i - 1]
      <4>1. m - 1 \in Int /\ 1 \in Int /\ \A i \in 1 .. m - 1 : s[i] \in T
        BY <1>5
      <4> HIDE DEF t
      <4> QED BY <1>5, <3>1, <4>1, SubSeqProperties
    <3>3. m - 1 # 0
      <4> SUFFICES ASSUME m - 1 = 0 PROVE FALSE
        OBVIOUS
      <4>1. Len(t) = 0 /\ t # <<>>
        BY <1>2a, <3>2
      <4> HIDE DEF t
      <4> QED BY <3>2, <4>1
    <3> DEFINE n == m - 1
    <3>4. n \in Nat \ {0} /\ m = n + 1 /\ m # n
      BY <1>5, <3>3
    <3>5. Len(t) = n
      BY <3>2, <3>4
    <3>6. ASSUME NEW i \in 1 .. n PROVE t[i] = s[i]
      <4>1. i \in 1 .. m - 1 - 1 + 1 /\ 1 + i - 1 = i
        BY <3>4
      <4>2. t[i] = s[1 + i - 1]
        BY <3>2, <4>1
      <4> QED BY <4>1, <4>2
    <3>7. s[n + 1] = Semicolon
      BY <3>1, <3>4
    <3> HIDE DEF n, t
    <3> QED BY <3>2, <3>4, <3>5, <3>6, <3>7
  <2>2. CASE Last(s) # Semicolon
    BY <1>5, <2>2 DEF Bare, Last
  <2> QED BY <2>1, <2>2
<1>8. PICK n \in Nat \ {0} :
        /\ t \in Seq(T) /\ Len(t) = n /\ \A i \in 1 .. n : t[i] = s[i]
        /\ m = n \/ (m = n + 1 /\ s[n + 1] = Semicolon)
        /\ m = n => s[n] # Semicolon
  BY <1>7
<1>9. Validated(tokens) = Accepted(t) /\ t # <<>> /\ ~IsAmbiguous(t)
  BY <1>2a
<1>10. TypeOf(s) \in AllowedTypes /\ ~HasForbiddenKeyword(s) /\ ~Calls(s) /\ ~Locks(s)
  BY <1>2a
<1> HIDE DEF t
<1>11. TypeOf(t) \in AllowedTypes /\ ~HasForbiddenKeyword(t) /\ ~Calls(t) /\ ~Locks(t)
  <2>1. Len(s) = n \/ (Len(s) = n + 1 /\ s[n + 1] = Semicolon)
    BY <1>5, <1>8
  <2>2. n \in Nat \ {0} /\ s \in Seq(T) /\ t \in Seq(T) /\ Len(t) = n /\ \A i \in 1 .. n : t[i] = s[i]
    BY <1>5, <1>8
  <2>3. /\ TypeOf(t) = TypeOf(s)
        /\ ~HasForbiddenKeyword(s) => ~HasForbiddenKeyword(t)
        /\ ~Calls(s) => ~Calls(t)
        /\ ~Locks(s) => ~Locks(t)
    BY ONLY <2>1, <2>2, WithoutEnd
  <2> QED BY <1>10, <2>3
<1>12. DOMAIN t = 1 .. n /\ n <= m
  BY <1>8
<1>13. Plain(t)
  <2>1. \A i \in 1 .. n : i \in 1 .. m
    BY <1>5, <1>12
  <2> QED BY <1>6, <1>8, <1>12, <2>1 DEF Plain
<1>14. Unended(t)
  <2>1. ASSUME NEW i \in 1 .. n PROVE s[i] # Semicolon
    <3>1. CASE i \in 1 .. m - 1
      BY <1>6, <3>1
    <3>2. CASE i \notin 1 .. m - 1
      <4>1. i = n /\ m = n
        BY <1>5, <1>8, <1>12, <3>2
      <4> QED BY <1>8, <4>1
    <3> QED BY <3>1, <3>2
  <2> QED BY <1>8, <1>12, <2>1 DEF Unended
<1>15. Stripped(t) = t /\ Spans(t) = {<<1, Len(t)>>}
  BY <1>8, <1>9, <1>13, <1>14, StrippedPlain, SpansOne
<1>16. Bare(t) = t
  <2>1. Last(t) # Semicolon
    BY <1>8, <1>12, <1>14 DEF Last, Unended
  <2> QED BY <2>1 DEF Bare
<1>17. SubSeq(t, 1, Len(t)) = t
  BY <1>8
<1>18. ~(Len(t) > MaxLength)
  BY <1>1, <1>3, <1>5, <1>8, <1>12
<1>19. Validated(t) = Accepted(t)
  <2> DEFINE whole == <<1, Len(t)>>
  <2>1. whole[1] = 1 /\ whole[2] = Len(t)
    OBVIOUS
  <2>2. Spans(t) = {whole}
    BY <1>15
  <2> HIDE DEF whole
  <2>3. SubSeq(t, whole[1], whole[2]) = t
    BY <1>17, <2>1
  <2> QED BY <1>9, <1>11, <1>15, <1>16, <1>18, <2>2, <2>3, AcceptedIf
<1>20. Accepted(t).text = t
  BY DEF Accepted
<1> QED BY <1>9, <1>19, <1>20

-----------------------------------------------------------------------------
(* The guard: its verdict is what the author meant.  A statement written     *)
(* down is a comment in a sequence of parts.                                 *)

\* The tokens m is written with, but for comments and semicolons.
Vocabulary(m) ==
  {Keyword(w) : w \in {m.command, "WITH", "AS", "SELECT", "INSERT", "SHARE", "INTO", "FOR", "NO",
                       "KEY", "UPDATE"}}
    \cup {Name(w) : w \in {m.word, "a", "x", "t"}}
    \cup {Symbol(m.word), Opening, Closing, Period, Literal, Ambiguous}

\* What the checks tell tokens apart by.
LEMMA TokensDiffer ==
  /\ \A w : /\ Keyword(w).type = "keyword" /\ Keyword(w).word = w
            /\ Name(w).type = "name" /\ Name(w).word = w
            /\ Symbol(w).type = "symbol" /\ Symbol(w).word = w
  /\ \A k \in {Semicolon, Opening, Closing, Period} : k.type = "punctuation"
  /\ Opening # Semicolon /\ Opening # Closing /\ Opening # Period
  /\ Closing # Semicolon /\ Closing # Period /\ Period # Semicolon
  /\ Literal.type = "string" /\ Ambiguous.type = "string" /\ Ambiguous # Literal
  /\ Comment.type = "comment"
<1>1. ASSUME NEW w
      PROVE  /\ Keyword(w).type = "keyword" /\ Keyword(w).word = w
             /\ Name(w).type = "name" /\ Name(w).word = w
             /\ Symbol(w).type = "symbol" /\ Symbol(w).word = w
             /\ Mark(w).type = "punctuation" /\ Mark(w).word = w
  BY DEF Keyword, Name, Symbol, Mark
<1>2. /\ Semicolon.type = "punctuation" /\ Semicolon.word = "semicolon"
      /\ Opening.type = "punctuation" /\ Opening.word = "opening"
      /\ Closing.type = "punctuation" /\ Closing.word = "closing"
      /\ Period.type = "punctuation" /\ Period.word = "period"
  BY <1>1 DEF Semicolon, Opening, Closing, Period
<1>3. /\ Literal.type = "string" /\ Ambiguous.type = "string" /\ Comment.type = "comment"
      /\ Literal.word # Ambiguous.word
  BY DEF Literal, Ambiguous, Comment
<1> QED BY <1>1, <1>2, <1>3

LEMMA Elements ==
  ASSUME NEW T, NEW x \in Seq(T), NEW y \in Seq(T)
  PROVE  /\ x \o y \in Seq(T) /\ Len(x \o y) = Len(x) + Len(y)
         /\ DOMAIN (x \o y) = 1 .. Len(x) + Len(y)
         /\ \A i \in 1 .. Len(x) : (x \o y)[i] = x[i]
         /\ \A i \in 1 .. Len(y) : (x \o y)[Len(x) + i] = y[i]
OBVIOUS

LEMMA JoinedSet ==
  ASSUME NEW T, NEW x \in Seq(T), NEW y \in Seq(T)
  PROVE  ToSet(x \o y) = ToSet(x) \cup ToSet(y)
<1>1. /\ DOMAIN x = 1 .. Len(x) /\ DOMAIN y = 1 .. Len(y) /\ Len(x) \in Nat /\ Len(y) \in Nat
  OBVIOUS
<1>2. ASSUME NEW i \in 1 .. Len(x) + Len(y)
      PROVE  (x \o y)[i] \in ToSet(x) \cup ToSet(y)
  <2>1. CASE i \in 1 .. Len(x)
    <3>1. (x \o y)[i] = x[i]
      BY <2>1, Elements
    <3> QED BY ONLY <1>1, <2>1, <3>1 DEF ToSet
  <2>2. CASE i \notin 1 .. Len(x)
    <3>1. i - Len(x) \in 1 .. Len(y) /\ Len(x) + (i - Len(x)) = i
      BY <1>1, <2>2
    <3>2. (x \o y)[i] = y[i - Len(x)]
      BY <3>1, Elements
    <3> QED BY <1>1, <3>1, <3>2 DEF ToSet
  <2> QED BY <2>1, <2>2
<1>3. \A i \in 1 .. Len(x) : x[i] \in ToSet(x \o y)
  <2>1. \A i \in 1 .. Len(x) : i \in 1 .. Len(x) + Len(y)
    BY <1>1
  <2> QED BY <2>1, Elements DEF ToSet
<1>4. ASSUME NEW i \in 1 .. Len(y) PROVE y[i] \in ToSet(x \o y)
  <2>1. Len(x) + i \in 1 .. Len(x) + Len(y)
    BY <1>1
  <2>2. Len(x) + i \in DOMAIN (x \o y) /\ (x \o y)[Len(x) + i] = y[i]
    BY <2>1, Elements
  <2> QED BY <2>2 DEF ToSet
<1>5. ToSet(x \o y) \subseteq ToSet(x) \cup ToSet(y)
  BY <1>2, Elements DEF ToSet
<1>6. ToSet(x) \subseteq ToSet(x \o y) /\ ToSet(y) \subseteq ToSet(x \o y)
  BY <1>1, <1>3, <1>4 DEF ToSet
<1> QED BY <1>5, <1>6

\* t is s with c put in at k.
Shifted(T, t, s, k, c) ==
  /\ t \in Seq(T) /\ Len(t) = Len(s) + 1 /\ t[k] = c
  /\ \A i \in 1 .. k - 1 : t[i] = s[i]
  /\ \A i \in k .. Len(s) : t[i + 1] = s[i]

\* What InsertAt makes.
LEMMA Inserted ==
  ASSUME NEW T, NEW s \in Seq(T), NEW k \in 1 .. Len(s) + 1, NEW c \in T
  PROVE  Shifted(T, InsertAt(s, k, c), s, k, c)
<1> DEFINE L == Len(s)
           a == SubSeq(s, 1, k - 1)
           b == SubSeq(s, k, L)
           t == InsertAt(s, k, c)
<1>1. L \in Nat /\ k \in Nat \ {0} /\ k <= L + 1
  OBVIOUS
<1>2. a \in Seq(T) /\ Len(a) = k - 1 /\ \A i \in 1 .. k - 1 : a[i] = s[i]
  OBVIOUS
<1>3. b \in Seq(T) /\ Len(b) = L - k + 1 /\ \A i \in 1 .. L - k + 1 : b[i] = s[k + i - 1]
  OBVIOUS
<1>4. <<c>> \in Seq(T) /\ Len(<<c>>) = 1 /\ <<c>>[1] = c
  OBVIOUS
<1>5. t = a \o <<c>> \o b
  BY DEF InsertAt
<1> HIDE DEF a, b, t
<1> DEFINE p == a \o <<c>>
<1>6. p \in Seq(T) /\ Len(p) = k /\ p[k] = c /\ \A i \in 1 .. k - 1 : p[i] = s[i]
  BY <1>1, <1>2, <1>4
<1>7. t = p \o b
  BY <1>5
<1> HIDE DEF p
<1>8. t \in Seq(T) /\ Len(t) = L + 1 /\ (\A i \in 1 .. k : t[i] = p[i]) /\ \A i \in 1 .. L - k + 1 : t[k + i] = b[i]
  <2>1. /\ p \o b \in Seq(T) /\ Len(p \o b) = Len(p) + Len(b)
        /\ \A i \in 1 .. Len(p) : (p \o b)[i] = p[i]
        /\ \A i \in 1 .. Len(b) : (p \o b)[Len(p) + i] = b[i]
    BY <1>3, <1>6, Elements
  <2>2. Len(p) = k /\ Len(b) = L - k + 1 /\ k + (L - k + 1) = L + 1
    BY <1>1, <1>3, <1>6
  <2> QED BY <1>7, <2>1, <2>2
<1>9. ASSUME NEW i \in k .. L PROVE t[i + 1] = s[i]
  <2>1. i - k + 1 \in 1 .. L - k + 1 /\ k + (i - k + 1) = i + 1 /\ k + (i - k + 1) - 1 = i
    BY <1>1
  <2> DEFINE d == i - k + 1
  <2>2. d \in 1 .. L - k + 1 /\ k + d = i + 1 /\ k + d - 1 = i
    BY <2>1
  <2> HIDE DEF d
  <2>3. t[k + d] = b[d] /\ b[d] = s[k + d - 1]
    BY ONLY <1>3, <1>8, <2>2
  <2> QED BY ONLY <2>2, <2>3
<1>10. k \in 1 .. k /\ \A i \in 1 .. k - 1 : i \in 1 .. k
  BY <1>1
<1>11. t[k] = c /\ \A i \in 1 .. k - 1 : t[i] = s[i]
  BY ONLY <1>6, <1>8, <1>10, Zenon
<1>12. \A i \in k .. L : t[i + 1] = s[i]
  BY ONLY <1>9
<1> QED BY ONLY <1>8, <1>11, <1>12, Zenon DEF t, L, Shifted

\* A comment among the words is stripped, and nothing else.
LEMMA StrippedInserted ==
  ASSUME NEW T, NEW s \in Seq(T), Plain(s), NEW k \in 1 .. Len(s) + 1, NEW c \in T, c.type = "comment"
  PROVE  Stripped(InsertAt(s, k, c)) = s
<1> DEFINE L == Len(s)
           t == InsertAt(s, k, c)
           W == Words(t)
           place(n) == IF n < k THEN n ELSE n + 1
<1>1. L \in Nat /\ DOMAIN s = 1 .. L /\ k \in 1 .. L + 1
  OBVIOUS
<1>2. /\ t \in Seq(T) /\ Len(t) = L + 1 /\ DOMAIN t = 1 .. L + 1 /\ t[k] = c
      /\ \A i \in 1 .. k - 1 : t[i] = s[i]
      /\ \A i \in k .. L : t[i + 1] = s[i]
  <2>1. Shifted(T, t, s, k, c)
    BY Inserted, Zenon
  <2> HIDE DEF t
  <2> QED BY <1>1, <2>1 DEF Shifted
<1>3. Stripped(t) = [n \in 1 .. Cardinality(W) |-> t[CHOOSE i \in W : Cardinality(W \cap (1 .. i)) = n]]
  BY DEF Stripped
<1> HIDE DEF t
<1>4. ASSUME NEW n \in 1 .. L
      PROVE  place(n) \in 1 .. L + 1 /\ place(n) # k /\ t[place(n)] = s[n]
  BY <1>1, <1>2
<1>5. ASSUME NEW i \in 1 .. L + 1, i # k
      PROVE  \E n \in 1 .. L : i = place(n)
  <2>1. CASE i < k
    <3>1. i \in 1 .. L /\ place(i) = i
      BY <1>1, <2>1
    <3> QED BY <3>1
  <2>2. CASE i > k
    <3>1. i - 1 \in 1 .. L /\ place(i - 1) = i
      BY <1>1, <2>2
    <3> QED BY <3>1
  <2> QED BY <1>1, <1>5, <2>1, <2>2
<1>6. W = {i \in 1 .. L + 1 : i # k}
  <2>1. ASSUME NEW i \in 1 .. L + 1, i # k PROVE t[i].type # "comment"
    <3>1. PICK n \in 1 .. L : i = place(n)
      BY <1>5, <2>1
    <3>2. t[i] = s[n]
      BY <1>4, <3>1
    <3> QED BY <1>1, <3>2 DEF Plain
  <2> QED BY <1>1, <1>2, <2>1 DEF Words
<1> HIDE DEF W
<1>7. ASSUME NEW n \in 0 .. L PROVE Cardinality(W \cap (1 .. place(n))) = n
  <2>1. CASE n < k
    <3>1. W \cap (1 .. place(n)) = 1 .. n
      BY <1>1, <1>6, <2>1
    <3>2. Cardinality(1 .. n) = n
      <4>1. n \in Nat /\ Cardinality(1 .. n) = IF 1 > n THEN 0 ELSE n - 1 + 1
        BY <1>1, FS_Interval
      <4> QED BY <4>1
    <3> QED BY <3>1, <3>2
  <2>2. CASE ~(n < k)
    <3>1. W \cap (1 .. place(n)) = (1 .. n + 1) \ {k}
      BY <1>1, <1>6, <2>2
    <3>2. k \in 1 .. n + 1
      BY <1>1, <2>2
    <3>3. IsFiniteSet(1 .. n + 1) /\ Cardinality(1 .. n + 1) = n + 1
      BY <1>1, FS_Interval
    <3>4. Cardinality((1 .. n + 1) \ {k}) = Cardinality(1 .. n + 1) - 1
      BY <3>2, <3>3, FS_RemoveElement
    <3>5. Cardinality((1 .. n + 1) \ {k}) = n
      BY <1>1, <3>3, <3>4
    <3> QED BY <3>1, <3>5
  <2> QED BY <2>1, <2>2
<1>8. Cardinality(W) = L
  <2>1. W = (1 .. L + 1) \ {k}
    BY <1>6
  <2>2. IsFiniteSet(1 .. L + 1) /\ Cardinality(1 .. L + 1) = L + 1
    BY <1>1, FS_Interval
  <2>3. Cardinality((1 .. L + 1) \ {k}) = Cardinality(1 .. L + 1) - 1
    BY <1>1, <2>2, FS_RemoveElement
  <2> QED BY <1>1, <2>1, <2>2, <2>3
<1>9. ASSUME NEW n \in 1 .. L
      PROVE  (CHOOSE i \in W : Cardinality(W \cap (1 .. i)) = n) = place(n)
  <2>1. place(n) \in W
    BY <1>4, <1>6
  <2>2. ASSUME NEW i \in W, Cardinality(W \cap (1 .. i)) = n PROVE i = place(n)
    <3>1. PICK j \in 1 .. L : i = place(j)
      BY <1>5, <1>6
    <3>2. Cardinality(W \cap (1 .. place(j))) = j
      BY <1>7
    <3> HIDE DEF place
    <3> QED BY <2>2, <3>1, <3>2
  <2>3. Cardinality(W \cap (1 .. place(n))) = n
    BY <1>7
  <2> HIDE DEF place
  <2> QED BY <2>1, <2>2, <2>3
<1>10. Stripped(t) = [n \in 1 .. L |-> s[n]]
  <2> HIDE DEF place
  <2> QED BY <1>3, <1>4, <1>8, <1>9
<1> QED BY <1>1, <1>10 DEF t

\* The least of a set of numbers is the one that is.
LEMMA MinIs ==
  ASSUME NEW S, NEW e \in S, S \subseteq Nat, \A j \in S : e <= j
  PROVE  Min(S) = e
<1>1. \A m \in S : (\A j \in S : m <= j) => m = e
  <2> SUFFICES ASSUME NEW m \in S, \A j \in S : m <= j PROVE m = e
    OBVIOUS
  <2>1. m <= e /\ e <= m /\ m \in Nat /\ e \in Nat
    OBVIOUS
  <2> QED BY <2>1
<1> QED BY <1>1 DEF Min

\* The least of two.
LEMMA LeastOfTwo ==
  ASSUME NEW a \in Nat, NEW b \in Nat
  PROVE  Min({a, b}) = IF a <= b THEN a ELSE b
<1> DEFINE S == {a, b}
<1>1. S \subseteq Nat /\ a \in S /\ b \in S /\ \A j \in S : j = a \/ j = b
  OBVIOUS
<1> HIDE DEF S
<1>2. CASE a <= b
  <2>1. \A j \in S : a <= j
    BY <1>1, <1>2
  <2>2. Min(S) = a
    BY <1>1, <2>1, MinIs, Zenon
  <2> QED BY <1>2, <2>2 DEF S
<1>3. CASE ~(a <= b)
  <2>1. \A j \in S : b <= j
    BY <1>1, <1>3
  <2>2. Min(S) = b
    BY <1>1, <2>1, MinIs, Zenon
  <2> QED BY <1>3, <2>2 DEF S
<1> QED BY <1>2, <1>3

\* s is A tokens, k semicolons and B tokens.
Laid(T, s, A, k, B) ==
  /\ s \in Seq(T) /\ A \in Nat /\ k \in Nat /\ B \in Nat
  /\ Len(s) = A + k + B /\ (k = 0 => B = 0)
  /\ \A i \in 1 .. Len(s) : s[i] = Semicolon <=> i \in A + 1 .. A + k

\* The statements of a text: what is before its semicolons, what is behind them,
\* and the semicolons but for the first.
LEMMA SpansOf ==
  ASSUME NEW T, NEW s, NEW A, NEW k, NEW B, Laid(T, s, A, k, B)
  PROVE  /\ A > 0 => <<1, IF k = 0 THEN A ELSE A + 1>> \in Spans(s)
         /\ B > 0 => <<A + k + 1, A + k + B>> \in Spans(s)
         /\ \A span \in Spans(s) :
              \/ A > 0 /\ span = <<1, IF k = 0 THEN A ELSE A + 1>>
              \/ B > 0 /\ span = <<A + k + 1, A + k + B>>
              \/ \E i \in A + 1 .. A + k : span = <<i, i>>
<1> DEFINE N == A + k + B
           ends == (A + 1 .. A + k) \cup {0, N}
           later(i) == {j \in ends : j > i}
           e == IF k = 0 THEN A ELSE A + 1
           first == <<1, e>>
           last == <<A + k + 1, N>>
<1>1. /\ s \in Seq(T) /\ A \in Nat /\ k \in Nat /\ B \in Nat
      /\ DOMAIN s = 1 .. N /\ N \in Nat /\ Len(s) = N /\ (k = 0 => B = 0)
      /\ \A i \in 1 .. N : s[i] = Semicolon <=> i \in A + 1 .. A + k
  BY DEF Laid
<1> USE <1>1
<1>2. {i \in DOMAIN s : s[i] = Semicolon} \cup {0, Len(s)} = ends
  BY <1>1
<1>3. Spans(s) = {<<i + 1, Min(later(i))>> : i \in ends \ {N}}
  BY <1>2 DEF Spans
<1>4. ends \subseteq 0 .. N
  OBVIOUS
<1> HIDE DEF ends
<1>5. ASSUME NEW i \in ends PROVE later(i) \subseteq Nat
  <2>1. later(i) \subseteq ends /\ 0 .. N \subseteq Nat
    OBVIOUS
  <2> QED BY <1>4, <2>1
<1>6. ASSUME NEW i \in ends \ {N}, NEW n \in later(i), \A j \in later(i) : n <= j
      PROVE  Min(later(i)) = n
  <2>1. later(i) \subseteq Nat
    BY <1>5
  <2> HIDE DEF later
  <2> QED BY <1>6, <2>1, MinIs
<1>7. ASSUME A > 0 PROVE 0 \in ends \ {N} /\ Min(later(0)) = e
  <2>1. 0 \in ends \ {N} /\ e \in later(0)
    BY <1>7 DEF ends
  <2>2. \A j \in later(0) : e <= j
    BY <1>7 DEF ends
  <2> QED BY <1>6, <2>1, <2>2
<1>8. ASSUME B > 0 PROVE A + k \in ends \ {N} /\ Min(later(A + k)) = N
  <2>1. A + k \in ends \ {N} /\ N \in later(A + k)
    BY <1>8 DEF ends
  <2>2. \A j \in later(A + k) : N <= j
    BY <1>8 DEF ends
  <2> QED BY <1>6, <2>1, <2>2
<1>9. ASSUME NEW i \in ends \ {N}, i + 1 \in A + 1 .. A + k PROVE Min(later(i)) = i + 1
  <2>1. i + 1 \in later(i)
    BY <1>4, <1>9 DEF ends
  <2>2. \A j \in later(i) : i + 1 <= j
    BY <1>4
  <2> QED BY <1>6, <2>1, <2>2
<1>10. ASSUME NEW i \in ends \ {N}
       PROVE  (A > 0 /\ i = 0) \/ (B > 0 /\ i = A + k) \/ i + 1 \in A + 1 .. A + k
  BY DEF ends
<1>11. ASSUME NEW span \in Spans(s)
       PROVE  \/ A > 0 /\ span = first
              \/ B > 0 /\ span = last
              \/ \E i \in A + 1 .. A + k : span = <<i, i>>
  <2>1. PICK i \in ends \ {N} : span = <<i + 1, Min(later(i))>>
    BY <1>3
  <2> HIDE DEF later
  <2>2. CASE A > 0 /\ i = 0
    BY <1>7, <2>1, <2>2
  <2>3. CASE B > 0 /\ i = A + k
    BY <1>8, <2>1, <2>3
  <2>4. CASE i + 1 \in A + 1 .. A + k
    BY <1>9, <2>1, <2>4
  <2> QED BY <1>10, <2>2, <2>3, <2>4
<1>12. A > 0 => first \in Spans(s)
  <2> HIDE DEF later, e
  <2> QED BY <1>3, <1>7
<1>13. B > 0 => last \in Spans(s)
  <2> HIDE DEF later, N
  <2> QED BY <1>3, <1>8
<1> QED BY <1>11, <1>12, <1>13

\* z is x, k semicolons, and y.
Parted(T, z, x, k, y) ==
  /\ Semicolon \in T /\ x \in Seq(T) /\ k \in Nat /\ y \in Seq(T)
  /\ Unended(x) /\ Unended(y) /\ (k = 0 => y = <<>>)
  /\ z = x \o Semicolons(k) \o y

LEMMA PartedIs ==
  ASSUME NEW T, NEW z, NEW x, NEW k, NEW y, Parted(T, z, x, k, y)
  PROVE  /\ Laid(T, z, Len(x), k, Len(y))
         /\ z \in Seq(T) /\ Len(z) = Len(x) + k + Len(y)
         /\ \A i \in 1 .. Len(x) : z[i] = x[i]
         /\ \A i \in 1 .. Len(y) : z[Len(x) + k + i] = y[i]
         /\ \A i \in 1 .. Len(z) : z[i] = Semicolon <=> i \in Len(x) + 1 .. Len(x) + k
         /\ ToSet(z) \subseteq ToSet(x) \cup {Semicolon} \cup ToSet(y)
         /\ ToSet(x) \cup ToSet(y) \subseteq ToSet(z)
<1> DEFINE c == Semicolons(k)
           p == x \o c
           s == p \o y
           A == Len(x)
           B == Len(y)
<1>0. Semicolon \in T /\ x \in Seq(T) /\ k \in Nat /\ y \in Seq(T) /\ Unended(x) /\ Unended(y)
  BY DEF Parted
<1> USE <1>0
<1>1. c \in Seq(T) /\ Len(c) = k /\ \A i \in 1 .. k : c[i] = Semicolon
  BY <1>0 DEF Semicolons
<1>2. ToSet(c) \subseteq {Semicolon}
  BY DEF Semicolons, ToSet
<1> HIDE DEF c
<1>3. A \in Nat /\ B \in Nat /\ DOMAIN x = 1 .. A /\ DOMAIN y = 1 .. B
  BY <1>0
<1>4. /\ p \in Seq(T) /\ Len(p) = A + k
      /\ \A i \in 1 .. A : p[i] = x[i]
      /\ \A i \in 1 .. k : p[A + i] = Semicolon
      /\ ToSet(p) = ToSet(x) \cup ToSet(c)
  <2>1. /\ p \in Seq(T) /\ Len(p) = Len(x) + Len(c)
        /\ \A i \in 1 .. Len(x) : p[i] = x[i]
        /\ \A i \in 1 .. Len(c) : p[Len(x) + i] = c[i]
    <3>1. \A u, v \in Seq(T) :
            /\ u \o v \in Seq(T) /\ Len(u \o v) = Len(u) + Len(v)
            /\ \A i \in 1 .. Len(u) : (u \o v)[i] = u[i]
            /\ \A i \in 1 .. Len(v) : (u \o v)[Len(u) + i] = v[i]
      BY Elements
    <3> QED BY ONLY <1>0, <1>1, <3>1
  <2>2. ToSet(p) = ToSet(x) \cup ToSet(c)
    BY <1>0, <1>1, JoinedSet
  <2> HIDE DEF p
  <2> QED BY <1>1, <2>1, <2>2
<1> HIDE DEF p
<1>5. /\ s \in Seq(T) /\ Len(s) = A + k + B
      /\ \A i \in 1 .. A + k : s[i] = p[i]
      /\ \A i \in 1 .. B : s[A + k + i] = y[i]
      /\ ToSet(s) = ToSet(p) \cup ToSet(y)
  <2>1. /\ s \in Seq(T) /\ Len(s) = Len(p) + Len(y)
        /\ \A i \in 1 .. Len(p) : s[i] = p[i]
        /\ \A i \in 1 .. Len(y) : s[Len(p) + i] = y[i]
    <3>1. \A u, v \in Seq(T) :
            /\ u \o v \in Seq(T) /\ Len(u \o v) = Len(u) + Len(v)
            /\ \A i \in 1 .. Len(u) : (u \o v)[i] = u[i]
            /\ \A i \in 1 .. Len(v) : (u \o v)[Len(u) + i] = v[i]
      BY Elements
    <3>2. p \in Seq(T)
      BY <1>4
    <3> QED BY ONLY <1>0, <3>1, <3>2
  <2>2. ToSet(s) = ToSet(p) \cup ToSet(y)
    BY ONLY <1>0, <1>4, JoinedSet
  <2>3. Len(p) = A + k
    BY <1>4
  <2> HIDE DEF s
  <2> QED BY <2>1, <2>2, <2>3
<1> HIDE DEF s
<1>6. \A i \in 1 .. A : s[i] = x[i]
  <2>1. \A i \in 1 .. A : i \in 1 .. A + k
    BY <1>3
  <2> QED BY <1>4, <1>5, <2>1
<1>7. ASSUME NEW i \in 1 .. A + k + B PROVE s[i] = Semicolon <=> i \in A + 1 .. A + k
  <2>1. CASE i \in 1 .. A
    <3>1. i \notin A + 1 .. A + k
      BY <1>3, <2>1
    <3> QED BY <1>0, <1>3, <1>6, <2>1, <3>1 DEF Unended
  <2>2. CASE i \in A + 1 .. A + k
    <3>1. i - A \in 1 .. k /\ A + (i - A) = i /\ i \in 1 .. A + k
      BY <1>3, <2>2
    <3>2. p[i] = Semicolon
      BY <1>4, <3>1
    <3> QED BY <1>5, <2>2, <3>1, <3>2
  <2>3. CASE i \in A + k + 1 .. A + k + B
    <3> DEFINE j == i - (A + k)
    <3>1. j \in 1 .. B /\ A + k + j = i /\ i \notin A + 1 .. A + k
      BY <1>3, <2>3
    <3> HIDE DEF j
    <3>2. s[i] = y[j]
      BY <1>5, <3>1
    <3> QED BY <1>0, <1>3, <3>1, <3>2 DEF Unended
  <2>4. i \in 1 .. A \/ i \in A + 1 .. A + k \/ i \in A + k + 1 .. A + k + B
    BY <1>3
  <2> QED BY <2>1, <2>2, <2>3, <2>4
<1>8. s = z
  BY DEF s, p, c, Parted
<1> HIDE DEF A, B
<1>9. /\ s \in Seq(T) /\ Len(s) = A + k + B
      /\ \A i \in 1 .. A : s[i] = x[i]
      /\ \A i \in 1 .. B : s[A + k + i] = y[i]
      /\ \A i \in 1 .. Len(s) : s[i] = Semicolon <=> i \in A + 1 .. A + k
      /\ ToSet(s) \subseteq ToSet(x) \cup {Semicolon} \cup ToSet(y)
      /\ ToSet(x) \cup ToSet(y) \subseteq ToSet(s)
  BY <1>2, <1>4, <1>5, <1>6, <1>7
<1>10. Laid(T, s, A, k, B)
  <2>1. k = 0 => B = 0
    BY DEF Parted, B
  <2> QED BY <1>0, <1>3, <1>9, <2>1 DEF Laid
<1> QED BY <1>8, <1>9, <1>10 DEF A, B

Piece(s, span) == SubSeq(s, span[1], span[2])
Pieces(s) == {span \in Spans(s) : Bare(Piece(s, span)) # <<>>}

LEMMA BareSemicolon == Bare(<<Semicolon>>) = <<>>
BY DEF Bare, Last, Front

LEMMA SliceIs ==
  ASSUME NEW T, NEW s \in Seq(T), NEW a \in 1 .. Len(s), NEW b \in 1 .. Len(s), a <= b
  PROVE  /\ SubSeq(s, a, b) \in Seq(T) /\ Len(SubSeq(s, a, b)) = b - a + 1
         /\ \A j \in 1 .. b - a + 1 : SubSeq(s, a, b)[j] = s[a + j - 1]
OBVIOUS

\* A text without semicolons is bare, and a semicolon behind it goes.
LEMMA BareIs ==
  ASSUME NEW T, NEW x \in Seq(T), Unended(x), x # <<>>, NEW p \in Seq(T),
         Len(p) = Len(x) \/ (Len(p) = Len(x) + 1 /\ p[Len(x) + 1] = Semicolon),
         \A i \in 1 .. Len(x) : p[i] = x[i]
  PROVE  Bare(p) = x
<1> DEFINE n == Len(x)
<1>1. n \in Nat \ {0} /\ DOMAIN x = 1 .. n /\ n \in 1 .. n
  OBVIOUS
<1>2. CASE Len(p) = n
  <2>1. p = x
    BY <1>2
  <2>2. Last(p) # Semicolon
    BY <1>1, <2>1 DEF Unended, Last
  <2> QED BY <2>1, <2>2 DEF Bare
<1>3. CASE Len(p) = n + 1 /\ p[n + 1] = Semicolon
  <2>1. Last(p) = Semicolon
    BY <1>3 DEF Last
  <2>2. Front(p) = SubSeq(p, 1, n)
    BY <1>1, <1>3 DEF Front
  <2>3. SubSeq(p, 1, n) = x
    <3>1. SubSeq(p, 1, n) \in Seq(T) /\ Len(SubSeq(p, 1, n)) = n /\ \A i \in 1 .. n : SubSeq(p, 1, n)[i] = p[i]
      BY <1>1, <1>3
    <3> QED BY <1>1, <3>1
  <2> QED BY <2>1, <2>2, <2>3 DEF Bare
<1> QED BY <1>2, <1>3

\* The statements of x, some semicolons, and y: those that are not empty.
LEMMA PartsOf ==
  ASSUME NEW T, NEW s, NEW x, NEW k, NEW y, Parted(T, s, x, k, y)
  PROVE  /\ x = <<>> /\ y = <<>> => Pieces(s) = {}
         /\ x # <<>> /\ y # <<>> => Cardinality(Pieces(s)) > 1
         /\ x # <<>> /\ y = <<>> =>
              \E span : /\ Pieces(s) = {span} /\ Piece(s, span) \in Seq(T) /\ Bare(Piece(s, span)) = x
                        /\ \A i \in 1 .. Len(x) : Piece(s, span)[i] = x[i]
                        /\ \/ Len(Piece(s, span)) = Len(x)
                           \/ /\ Len(Piece(s, span)) = Len(x) + 1
                              /\ Piece(s, span)[Len(x) + 1] = Semicolon
         /\ x = <<>> /\ y # <<>> => \E span : Pieces(s) = {span} /\ Piece(s, span) = y /\ Bare(y) = y
<1> DEFINE A == Len(x)
           B == Len(y)
           N == A + k + B
           e == IF k = 0 THEN A ELSE A + 1
           first == <<1, e>>
           last == <<A + k + 1, N>>
<1>0. /\ Semicolon \in T /\ x \in Seq(T) /\ k \in Nat /\ y \in Seq(T)
      /\ Unended(x) /\ Unended(y) /\ (k = 0 => y = <<>>)
  BY DEF Parted
<1>1. /\ A \in Nat /\ B \in Nat /\ (x = <<>> <=> A = 0) /\ (y = <<>> <=> B = 0)
      /\ DOMAIN x = 1 .. A /\ DOMAIN y = 1 .. B
  BY <1>0
<1>2. /\ s \in Seq(T) /\ Len(s) = N
      /\ \A i \in 1 .. A : s[i] = x[i]
      /\ \A i \in 1 .. B : s[A + k + i] = y[i]
      /\ \A i \in 1 .. N : s[i] = Semicolon <=> i \in A + 1 .. A + k
  BY PartedIs DEF Laid
<1>3. /\ A > 0 => first \in Spans(s)
      /\ B > 0 => last \in Spans(s)
      /\ \A span \in Spans(s) :
           \/ A > 0 /\ span = first
           \/ B > 0 /\ span = last
           \/ \E i \in A + 1 .. A + k : span = <<i, i>>
  <2>1. Laid(T, s, A, k, B)
    BY PartedIs
  <2> HIDE DEF A, B
  <2> QED BY ONLY <2>1, SpansOf
<1>4. ASSUME NEW i \in A + 1 .. A + k PROVE Bare(Piece(s, <<i, i>>)) = <<>>
  <2>1. i \in 1 .. N /\ s[i] = Semicolon
    BY <1>0, <1>1, <1>2, <1>4
  <2>2. SubSeq(s, i, i) = <<Semicolon>>
    <3>1. i \in 1 .. Len(s) /\ i \in Nat
      BY <1>0, <1>1, <1>2, <2>1
    <3>2. /\ SubSeq(s, i, i) \in Seq(T) /\ Len(SubSeq(s, i, i)) = i - i + 1
          /\ \A j \in 1 .. i - i + 1 : SubSeq(s, i, i)[j] = s[i + j - 1]
      BY <1>2, <3>1, SliceIs
    <3>3. i - i + 1 = 1 /\ 1 \in 1 .. 1 /\ i + 1 - 1 = i
      BY ONLY <3>1
    <3>4. Len(SubSeq(s, i, i)) = 1 /\ SubSeq(s, i, i)[1] = Semicolon
      BY ONLY <2>1, <3>2, <3>3
    <3>5. \A z \in Seq(T) : Len(z) = 1 /\ z[1] = Semicolon => z = <<Semicolon>>
      BY <1>0
    <3> QED BY ONLY <3>2, <3>4, <3>5
  <2> QED BY <2>2, BareSemicolon DEF Piece
<1> DEFINE p == Piece(s, first)
           q == Piece(s, last)
<1>5. ASSUME A > 0
      PROVE  /\ p \in Seq(T) /\ (\A i \in 1 .. A : p[i] = x[i])
             /\ Len(p) = A \/ (Len(p) = A + 1 /\ p[A + 1] = Semicolon)
             /\ Bare(p) = x
  <2>1. e \in 1 .. N /\ e \in {A, A + 1}
    BY <1>0, <1>1, <1>5
  <2>2. p = SubSeq(s, 1, e)
    BY DEF Piece
  <2>3. p \in Seq(T) /\ Len(p) = e /\ \A i \in 1 .. e : p[i] = s[i]
    <3> HIDE DEF e, p
    <3> QED BY <1>0, <1>2, <2>1, <2>2
  <2> HIDE DEF p
  <2>4. \A i \in 1 .. A : p[i] = x[i]
    <3>1. \A i \in 1 .. A : i \in 1 .. e
      BY <1>0, <1>1
    <3> QED BY <1>0, <1>2, <2>3, <3>1
  <2>5. Len(p) = A \/ (Len(p) = A + 1 /\ p[A + 1] = Semicolon)
    <3>1. CASE k = 0
      BY <2>3, <3>1
    <3>2. CASE k # 0
      <4>1. A + 1 \in 1 .. N /\ A + 1 \in A + 1 .. A + k /\ A + 1 \in 1 .. e /\ e = A + 1
        BY <1>0, <1>1, <3>2
      <4> QED BY <1>0, <1>2, <2>3, <4>1
    <3> QED BY <3>1, <3>2
  <2>6. x # <<>>
    BY <1>0, <1>1, <1>5
  <2> QED BY <2>3, <2>4, <2>5, <2>6, <1>0, BareIs
<1>6. ASSUME B > 0 PROVE q = y /\ Bare(y) = y
  <2>1. A + k + 1 \in 1 .. N /\ N \in 1 .. N /\ N - (A + k + 1) + 1 = B
    BY <1>0, <1>1, <1>6
  <2>2. q = SubSeq(s, A + k + 1, N)
    BY DEF Piece
  <2> HIDE DEF q
  <2>3. /\ q \in Seq(T) /\ Len(q) = N - (A + k + 1) + 1
        /\ \A i \in 1 .. N - (A + k + 1) + 1 : q[i] = s[A + k + 1 + i - 1]
    <3> DEFINE a == A + k + 1
               b == N
    <3>1. a \in 1 .. Len(s) /\ b \in 1 .. Len(s) /\ a <= b /\ q = SubSeq(s, a, b)
      BY <1>0, <1>1, <1>2, <1>6, <2>1, <2>2
    <3> HIDE DEF a, b
    <3>2. q \in Seq(T) /\ Len(q) = b - a + 1 /\ \A i \in 1 .. b - a + 1 : q[i] = s[a + i - 1]
      BY <1>0, <1>2, <3>1
    <3> QED BY <3>2 DEF a, b
  <2>4. Len(q) = B /\ \A i \in 1 .. B : q[i] = y[i]
    <3>1. ASSUME NEW i \in 1 .. B PROVE q[i] = y[i]
      <4>1. A + k + 1 + i - 1 = A + k + i
        BY <1>0, <1>1
      <4> QED BY <1>0, <1>2, <2>1, <2>3, <4>1
    <3> QED BY <2>1, <2>3, <3>1
  <2>5. q = y
    <3>1. \A u, v \in Seq(T) : Len(u) = Len(v) /\ (\A i \in 1 .. Len(v) : u[i] = v[i]) => u = v
      OBVIOUS
    <3> QED BY ONLY <1>0, <2>3, <2>4, <3>1
  <2>6. y # <<>>
    BY <1>0, <1>1, <1>6
  <2>7. Bare(y) = y
    <3>1. Last(y) # Semicolon
      BY <1>0, <1>1, <1>6 DEF Unended, Last
    <3> QED BY <3>1 DEF Bare
  <2> QED BY ONLY <2>5, <2>7
<1>7. Pieces(s) \subseteq {first, last} /\ (A > 0 <=> first \in Pieces(s)) /\ (B > 0 <=> last \in Pieces(s))
  <2>1. A > 0 => first \in Pieces(s)
    BY <1>0, <1>1, <1>3, <1>5 DEF Pieces
  <2>2. B > 0 => last \in Pieces(s)
    BY <1>0, <1>1, <1>3, <1>6 DEF Pieces
  <2>3. ASSUME NEW span \in Pieces(s) PROVE (A > 0 /\ span = first) \/ (B > 0 /\ span = last)
    <3> HIDE DEF first, last
    <3> QED BY <1>3, <1>4 DEF Pieces
  <2>4. A > 0 /\ B > 0 => first # last
    BY <1>0, <1>1
  <2>5. first \in Pieces(s) => A > 0
    <3> SUFFICES ASSUME first \in Pieces(s), A = 0, B > 0, first = last PROVE FALSE
      BY <1>0, <1>1, <2>3
    <3>1. 1 = A + k + 1 /\ k # 0
      BY <1>0, <1>1
    <3> QED BY <1>0, <1>1, <3>1
  <2>6. last \in Pieces(s) => B > 0
    <3> SUFFICES ASSUME last \in Pieces(s), A > 0, first = last PROVE FALSE
      BY <1>0, <1>1, <2>3
    <3>1. 1 = A + k + 1
      OBVIOUS
    <3> QED BY <1>0, <1>1, <3>1
  <2> QED BY <2>1, <2>2, <2>3, <2>5, <2>6
<1>8. A > 0 /\ B > 0 => first # last
  BY <1>0, <1>1
<1> HIDE DEF first, last, A, B
<1>9. CASE x = <<>> /\ y = <<>>
  BY <1>0, <1>1, <1>7, <1>9
<1>10. CASE x # <<>> /\ y # <<>>
  <2>1. Pieces(s) = {first, last} /\ first # last
    BY <1>0, <1>1, <1>7, <1>8, <1>10
  <2>2. Cardinality({first, last}) = 2
    <3>1. IsFiniteSet({first}) /\ Cardinality({first}) = 1
      BY FS_Singleton
    <3>2. Cardinality({first} \cup {last}) = Cardinality({first}) + 1
      BY <2>1, <3>1, FS_AddElement
    <3>3. {first, last} = {first} \cup {last}
      OBVIOUS
    <3> QED BY <3>1, <3>2, <3>3
  <2> QED BY <1>10, <2>1, <2>2
<1>11. CASE x # <<>> /\ y = <<>>
  <2>1. Pieces(s) = {first} /\ A > 0
    BY <1>0, <1>1, <1>7, <1>11
  <2> HIDE DEF p
  <2> QED BY <1>5, <1>11, <2>1 DEF A, p
<1>12. CASE x = <<>> /\ y # <<>>
  <2>1. Pieces(s) = {last} /\ B > 0
    BY <1>0, <1>1, <1>7, <1>12
  <2> HIDE DEF q
  <2> QED BY <1>6, <1>12, <2>1 DEF q
<1> QED BY <1>9, <1>10, <1>11, <1>12

\* And what they say of it without its semicolon they say of it.
LEMMA WithEnd ==
  ASSUME NEW T, NEW s \in Seq(T), NEW n \in Nat \ {0}, NEW bare \in Seq(T),
         Len(bare) = n, Len(s) = n \/ (Len(s) = n + 1 /\ s[n + 1] = Semicolon),
         \A i \in 1 .. n : bare[i] = s[i]
  PROVE  /\ HasForbiddenKeyword(s) => HasForbiddenKeyword(bare)
         /\ Calls(s) => Calls(bare)
         /\ Locks(s) => Locks(bare)
<1>1. DOMAIN bare = 1 .. n /\ DOMAIN s = 1 .. Len(s)
  OBVIOUS
<1> DEFINE L == Len(s)
<1>0. n \in Nat /\ n >= 1 /\ L \in Nat /\ (L = n \/ L = n + 1)
  OBVIOUS
<1> HIDE DEF L
<1>2. ASSUME NEW i \in DOMAIN s, s[i].type # "punctuation" PROVE i \in 1 .. n /\ bare[i] = s[i]
  <2>1. i \in 1 .. n
    <3>0. i \in 1 .. L
      BY <1>1 DEF L
    <3>1. i \in 1 .. n + 1 /\ (i = n + 1 => L # n)
      BY ONLY <1>0, <3>0
    <3>2. i # n + 1
      BY <1>2, <3>1, SemicolonType DEF L
    <3> QED BY ONLY <1>0, <3>1, <3>2
  <2> QED BY <2>1
<1>3. HasForbiddenKeyword(s) => HasForbiddenKeyword(bare)
  <2> SUFFICES ASSUME HasForbiddenKeyword(s) PROVE HasForbiddenKeyword(bare)
    OBVIOUS
  <2>1. PICK i \in DOMAIN s : \/ s[i].type = "keyword" /\ s[i].word \in ForbiddenKeywords
                              \/ s[i].type = "name" /\ s[i].word \in ForbiddenNames
    BY DEF HasForbiddenKeyword, ToSet
  <2>2. i \in DOMAIN bare /\ bare[i] = s[i]
    BY <1>1, <1>2, <2>1
  <2>3. bare[i] \in ToSet(bare)
    BY <2>2 DEF ToSet
  <2> QED BY <2>1, <2>2, <2>3 DEF HasForbiddenKeyword
<1>4. Calls(s) => Calls(bare)
  <2> SUFFICES ASSUME Calls(s) PROVE Calls(bare)
    OBVIOUS
  <2>1. PICK i \in DOMAIN s :
          /\ s[i].type \in {"name", "symbol", "keyword"}
          /\ s[i].word \in ForbiddenFunctions
          /\ \/ Followed(s, i, Opening)
             \/ Preceded(s, i, Period) /\ s[i].word \in PostgresFunctions
    BY DEF Calls
  <2>2. i \in 1 .. n /\ bare[i] = s[i]
    BY <1>2, <2>1
  <2>3. Followed(s, i, Opening) => Followed(bare, i, Opening)
    <3> SUFFICES ASSUME i < Len(s), s[i + 1] = Opening PROVE i < n /\ bare[i + 1] = Opening
      BY DEF Followed
    <3>1. i < n
      <4>1. Len(s) = n + 1 => i + 1 # n + 1
        BY TokensDiffer
      <4>2. i \in Nat /\ i <= n
        BY ONLY <1>0, <2>2
      <4>3. i < L
        BY DEF L
      <4> QED BY ONLY <1>0, <4>1, <4>2, <4>3 DEF L
    <3>2. i + 1 \in 1 .. n
      BY <2>2, <3>1
    <3> QED BY <3>1, <3>2
  <2>4. Preceded(s, i, Period) => Preceded(bare, i, Period)
    <3> SUFFICES ASSUME i > 1, s[i - 1] = Period PROVE bare[i - 1] = Period
      BY DEF Preceded
    <3>1. i - 1 \in 1 .. n
      BY <2>2
    <3> QED BY <3>1
  <2> QED BY <1>1, <2>1, <2>2, <2>3, <2>4 DEF Calls
<1>5. Locks(s) => Locks(bare)
  <2> SUFFICES ASSUME Locks(s) PROVE Locks(bare)
    OBVIOUS
  <2>1. PICK i \in DOMAIN s, j \in DOMAIN s :
          /\ i < j /\ s[i] = Keyword("FOR")
          /\ \A h \in i + 1 .. j - 1 : s[h] \in {Keyword("NO"), Keyword("KEY")}
          /\ s[j].type = "keyword" /\ s[j].word \in LockingWords
    BY DEF Locks
  <2>2. j \in 1 .. n /\ bare[j] = s[j]
    BY <1>2, <2>1
  <2>3. i \in 1 .. n /\ i \in Nat /\ bare[i] = s[i]
    <3>1. i \in Nat \ {0}
      <4>1. i \in 1 .. Len(s)
        BY <1>1
      <4> QED BY ONLY <4>1
    <3>2. i \in 1 .. n
      BY ONLY <2>1, <2>2, <3>1, n \in Nat \ {0}
    <3> QED BY <3>1, <3>2
  <2>4. \A h \in i + 1 .. j - 1 : h \in 1 .. n
    BY <2>2, <2>3
  <2>5. \A h \in i + 1 .. j - 1 : bare[h] \in {Keyword("NO"), Keyword("KEY")}
    BY <2>1, <2>4
  <2> QED BY <1>1, <2>1, <2>2, <2>3, <2>5 DEF Locks
<1> QED BY <1>3, <1>4, <1>5

\* What a statement must pass.
Passes(s) ==
  /\ TypeOf(s) \in AllowedTypes
  /\ ~HasForbiddenKeyword(s) /\ ~Calls(s) /\ ~Locks(s) /\ ~IsAmbiguous(s)

LEMMA VerdictIs ==
  ASSUME NEW tokens, NEW s, s = Piece(Stripped(tokens), CHOOSE span \in Pieces(Stripped(tokens)) : TRUE)
  PROVE  Validated(tokens).code = "accepted" <=>
           /\ tokens # <<>> /\ ~(Len(tokens) > MaxLength) /\ ~IsAmbiguous(tokens)
           /\ Pieces(Stripped(tokens)) # {} /\ ~(Cardinality(Pieces(Stripped(tokens))) > 1)
           /\ TypeOf(s) \in AllowedTypes
           /\ ~HasForbiddenKeyword(s) /\ ~Calls(s) /\ ~Locks(s) /\ ~IsAmbiguous(Bare(s))
<1> DEFINE P == Pieces(Stripped(tokens))
<1>1. \A code : Rejected(code).code = code
  BY DEF Rejected
<1>2. Accepted(Bare(s)).code = "accepted"
  BY DEF Accepted
<1>3. Validated(tokens) =
        CASE tokens = <<>> -> Rejected("EMPTY_STATEMENT")
          [] Len(tokens) > MaxLength -> Rejected("SQL_TOO_LONG")
          [] IsAmbiguous(tokens) -> Rejected("INVALID_SQL")
          [] P = {} -> Rejected("EMPTY_STATEMENT")
          [] Cardinality(P) > 1 -> Rejected("MULTIPLE_STATEMENTS")
          [] TypeOf(s) \notin AllowedTypes -> Rejected("NON_SELECT_STATEMENT")
          [] HasForbiddenKeyword(s) -> Rejected("FORBIDDEN_KEYWORD")
          [] Calls(s) -> Rejected("FORBIDDEN_FUNCTION")
          [] Locks(s) -> Rejected("FORBIDDEN_KEYWORD")
          [] IsAmbiguous(Bare(s)) -> Rejected("INVALID_SQL")
          [] OTHER -> Accepted(Bare(s))
  BY Zenon DEF Validated, Pieces, Piece
<1> HIDE DEF P
<1>4. Validated(tokens).code = "accepted" <=>
        /\ tokens # <<>> /\ ~(Len(tokens) > MaxLength) /\ ~IsAmbiguous(tokens)
        /\ P # {} /\ ~(Cardinality(P) > 1)
        /\ TypeOf(s) \in AllowedTypes
        /\ ~HasForbiddenKeyword(s) /\ ~Calls(s) /\ ~Locks(s) /\ ~IsAmbiguous(Bare(s))
  BY <1>1, <1>2, <1>3
<1> QED BY <1>4 DEF P

\* A text in parts is accepted if one of them is empty and the other passes.
LEMMA VerdictOf ==
  ASSUME NEW T, NEW tokens \in Seq(T), NEW x, NEW k, NEW y, Parted(T, Stripped(tokens), x, k, y)
  PROVE  Validated(tokens).code = "accepted" <=>
           /\ Len(tokens) <= MaxLength /\ ~IsAmbiguous(tokens)
           /\ (x # <<>> /\ y = <<>> /\ Passes(x)) \/ (x = <<>> /\ y # <<>> /\ Passes(y))
<1> DEFINE z == Stripped(tokens)
           P == Pieces(z)
           s == Piece(z, CHOOSE span \in P : TRUE)
<1>1. Validated(tokens).code = "accepted" <=>
        /\ tokens # <<>> /\ ~(Len(tokens) > MaxLength) /\ ~IsAmbiguous(tokens)
        /\ P # {} /\ ~(Cardinality(P) > 1)
        /\ TypeOf(s) \in AllowedTypes
        /\ ~HasForbiddenKeyword(s) /\ ~Calls(s) /\ ~Locks(s) /\ ~IsAmbiguous(Bare(s))
  BY VerdictIs
<1>2. Parted(T, z, x, k, y)
  OBVIOUS
<1>3. z # <<>> => tokens # <<>>
  <2>1. Len(z) <= Len(tokens) /\ z \in Seq(T) /\ Len(tokens) \in Nat
    BY StrippedIs
  <2> HIDE DEF z
  <2> QED BY <2>1
<1>4. x # <<>> \/ y # <<>> => z # <<>>
  <2> HIDE DEF z
  <2>1. x \in Seq(T) /\ y \in Seq(T)
    BY <1>2 DEF Parted
  <2>2. Laid(T, z, Len(x), k, Len(y))
    BY <1>2, PartedIs
  <2>3. Len(z) = Len(x) + k + Len(y) /\ k \in Nat
    BY <2>2 DEF Laid
  <2> QED BY <2>1, <2>3
<1> HIDE DEF z
<1>5. /\ x = <<>> /\ y = <<>> => Pieces(z) = {}
      /\ x # <<>> /\ y # <<>> => Cardinality(Pieces(z)) > 1
      /\ x # <<>> /\ y = <<>> =>
           \E span : /\ Pieces(z) = {span} /\ Piece(z, span) \in Seq(T) /\ Bare(Piece(z, span)) = x
                     /\ \A i \in 1 .. Len(x) : Piece(z, span)[i] = x[i]
                     /\ \/ Len(Piece(z, span)) = Len(x)
                        \/ /\ Len(Piece(z, span)) = Len(x) + 1
                           /\ Piece(z, span)[Len(x) + 1] = Semicolon
      /\ x = <<>> /\ y # <<>> => \E span : Pieces(z) = {span} /\ Piece(z, span) = y /\ Bare(y) = y
  BY ONLY <1>2, PartsOf
<1>6. \A span : Cardinality({span}) = 1
  BY FS_Singleton
<1>7. Len(tokens) \in Nat /\ MaxLength \in Nat
  BY GuardAssumption
<1>8. CASE x = <<>> /\ y = <<>>
  BY <1>1, <1>5, <1>8
<1>9. CASE x # <<>> /\ y # <<>>
  BY <1>1, <1>5, <1>9
<1>10. CASE x # <<>> /\ y = <<>>
  <2>1. PICK span : /\ P = {span} /\ Piece(z, span) \in Seq(T) /\ Bare(Piece(z, span)) = x
                    /\ \A i \in 1 .. Len(x) : Piece(z, span)[i] = x[i]
                    /\ \/ Len(Piece(z, span)) = Len(x)
                       \/ /\ Len(Piece(z, span)) = Len(x) + 1
                          /\ Piece(z, span)[Len(x) + 1] = Semicolon
    BY <1>5, <1>10
  <2>2. s = Piece(z, span)
    BY ONLY <2>1
  <2> HIDE DEF P
  <2>3. P # {} /\ ~(Cardinality(P) > 1)
    <3>1. Cardinality({span}) = 1
      BY <1>6
    <3>2. P = {span}
      BY <2>1
    <3>3. Cardinality(P) = 1
      BY ONLY <3>1, <3>2, Zenon
    <3> QED BY ONLY <3>2, <3>3
  <2> HIDE DEF s, P
  <2>4. x \in Seq(T) /\ Len(x) \in Nat \ {0}
    BY <1>2, <1>10 DEF Parted
  <2>5. /\ s \in Seq(T) /\ Bare(s) = x
        /\ \A i \in 1 .. Len(x) : x[i] = s[i]
        /\ Len(s) = Len(x) \/ (Len(s) = Len(x) + 1 /\ s[Len(x) + 1] = Semicolon)
    BY <2>1, <2>2
  <2> DEFINE n == Len(x)
  <2>6. /\ n \in Nat \ {0} /\ Len(x) = n /\ s \in Seq(T) /\ x \in Seq(T)
        /\ Len(s) = n \/ (Len(s) = n + 1 /\ s[n + 1] = Semicolon)
        /\ \A i \in 1 .. n : x[i] = s[i]
    BY <2>4, <2>5
  <2> HIDE DEF n
  <2>7. /\ TypeOf(x) = TypeOf(s)
        /\ ~HasForbiddenKeyword(s) => ~HasForbiddenKeyword(x)
        /\ ~Calls(s) => ~Calls(x)
        /\ ~Locks(s) => ~Locks(x)
    BY ONLY <2>6, WithoutEnd
  <2>8. /\ HasForbiddenKeyword(s) => HasForbiddenKeyword(x)
        /\ Calls(s) => Calls(x)
        /\ Locks(s) => Locks(x)
    BY ONLY <2>6, WithEnd
  <2> QED BY <1>1, <1>3, <1>4, <1>7, <1>10, <2>3, <2>5, <2>7, <2>8 DEF Passes
<1>11. CASE x = <<>> /\ y # <<>>
  <2>1. PICK span : P = {span} /\ Piece(z, span) = y /\ Bare(y) = y
    BY <1>5, <1>11
  <2>2. s = y
    BY ONLY <2>1
  <2> HIDE DEF P
  <2>3. P # {} /\ ~(Cardinality(P) > 1)
    <3>1. Cardinality({span}) = 1
      BY <1>6
    <3>2. P = {span}
      BY <2>1
    <3>3. Cardinality(P) = 1
      BY ONLY <3>1, <3>2, Zenon
    <3> QED BY ONLY <3>2, <3>3
  <2> HIDE DEF s, P
  <2> QED BY <1>1, <1>3, <1>4, <1>7, <1>11, <2>1, <2>2, <2>3 DEF Passes
<1> QED BY <1>8, <1>9, <1>10, <1>11

LEMMA VocabularyIs ==
  ASSUME NEW m, NEW k \in Vocabulary(m)
  PROVE  k # Semicolon /\ k.type # "comment"
BY TokensDiffer DEF Vocabulary

LEMMA WithIs ==
  ASSUME NEW m \in Statements
  PROVE  WithTokens(m) \in Seq(Vocabulary(m))
<1>1. {Keyword("WITH"), Name("x"), Keyword("AS"), Opening, Keyword("SELECT"), Keyword("INSERT"),
       Name("a"), Closing} \subseteq Vocabulary(m)
  BY DEF Vocabulary
<1>2. m.with \in {"none", "read", "write"}
  BY DEF Statements
<1>3. CASE m.with = "none"
  BY <1>3 DEF WithTokens
<1>4. CASE m.with = "read"
  BY <1>1, <1>4 DEF WithTokens, Table
<1>5. CASE m.with = "write"
  BY <1>1, <1>5 DEF WithTokens, Table
<1> QED BY <1>2, <1>3, <1>4, <1>5

LEMMA ItemIs ==
  ASSUME NEW m \in Statements
  PROVE  ItemTokens(m) \in Seq(Vocabulary(m))
<1>1. {Name(m.word), Keyword("SHARE"), Symbol(m.word), Name("t"), Period, Opening, Closing,
       Literal, Ambiguous} \subseteq Vocabulary(m)
  BY DEF Vocabulary
<1>2. m.item \in {"column", "keyword", "quoted", "call", "quoted_call", "field", "literal", "ambiguous"}
  BY DEF Statements
<1>3. CASE m.item \in {"column", "keyword", "quoted"}
  BY <1>1, <1>3 DEF ItemTokens
<1>4. CASE m.item \in {"call", "quoted_call"}
  BY <1>1, <1>4 DEF ItemTokens, Called
<1>5. CASE m.item \in {"field", "literal", "ambiguous"}
  BY <1>1, <1>5 DEF ItemTokens
<1> QED BY <1>2, <1>3, <1>4, <1>5

LEMMA RestIs ==
  ASSUME NEW m \in Statements
  PROVE  /\ Command(m.command) \in Seq(Vocabulary(m))
         /\ IntoTokens(m) \in Seq(Vocabulary(m))
         /\ LockTokens(m) \in Seq(Vocabulary(m))
         /\ More(m) \in Seq(Vocabulary(m))
<1>1. {Keyword(m.command), Keyword("INTO"), Name("t"), Keyword("FOR"), Keyword("SHARE"), Keyword("KEY"),
       Keyword("NO"), Keyword("UPDATE"), Keyword("SELECT"), Name("a")} \subseteq Vocabulary(m)
  BY DEF Vocabulary
<1>2. m.lock \in {"none", "share", "key_share", "update"}
  BY DEF Statements
<1>3. LockTokens(m) \in Seq(Vocabulary(m))
  BY <1>1, <1>2 DEF LockTokens
<1>4. Command(m.command) \in Seq(Vocabulary(m))
  BY <1>1 DEF Command
<1>5. IntoTokens(m) \in Seq(Vocabulary(m))
  BY <1>1 DEF IntoTokens
<1>6. More(m) \in Seq(Vocabulary(m))
  BY <1>1 DEF More
<1> QED BY <1>3, <1>4, <1>5, <1>6

\* What a statement with a command is made of.
LEMMA OneIs ==
  ASSUME NEW m \in Statements
  PROVE  /\ One(m) \in Seq(Vocabulary(m))
         /\ m.command = "none" => One(m) = <<>>
         /\ m.command # "none" =>
              /\ One(m) # <<>>
              /\ ToSet(One(m)) = ToSet(WithTokens(m)) \cup {Keyword(m.command)} \cup ToSet(ItemTokens(m))
                                   \cup ToSet(IntoTokens(m)) \cup ToSet(LockTokens(m))
<1> DEFINE T == Vocabulary(m)
           w == WithTokens(m)
           c == Command(m.command)
           i == ItemTokens(m)
           n == IntoTokens(m)
           l == LockTokens(m)
<1>1. w \in Seq(T) /\ c \in Seq(T) /\ i \in Seq(T) /\ n \in Seq(T) /\ l \in Seq(T)
  BY WithIs, ItemIs, RestIs
<1>2. ToSet(c) = {Keyword(m.command)} /\ Len(c) = 1
  BY DEF Command, ToSet
<1>3. One(m) = IF m.command = "none" THEN <<>> ELSE w \o c \o i \o n \o l
  BY DEF One
<1> HIDE DEF T, w, c, i, n, l
<1>4. \A u, v \in Seq(T) : u \o v \in Seq(T) /\ Len(u \o v) = Len(u) + Len(v) /\ ToSet(u \o v) = ToSet(u) \cup ToSet(v)
  BY Elements, JoinedSet
<1> DEFINE p == w \o c
           q == p \o i
           r == q \o n
           o == r \o l
<1>5. p \in Seq(T) /\ Len(p) = Len(w) + 1 /\ ToSet(p) = ToSet(w) \cup {Keyword(m.command)}
  <2>1. p \in Seq(T) /\ Len(p) = Len(w) + Len(c) /\ ToSet(p) = ToSet(w) \cup ToSet(c)
    BY ONLY <1>1, <1>4, Zenon
  <2> HIDE DEF p
  <2> QED BY ONLY <1>2, <2>1, Zenon
<1> HIDE DEF p
<1>6. q \in Seq(T) /\ Len(q) = Len(p) + Len(i) /\ ToSet(q) = ToSet(p) \cup ToSet(i)
  BY ONLY <1>1, <1>4, <1>5, Zenon
<1> HIDE DEF q
<1>7. r \in Seq(T) /\ Len(r) = Len(q) + Len(n) /\ ToSet(r) = ToSet(q) \cup ToSet(n)
  BY ONLY <1>1, <1>4, <1>6, Zenon
<1> HIDE DEF r
<1>8. o \in Seq(T) /\ Len(o) = Len(r) + Len(l) /\ ToSet(o) = ToSet(r) \cup ToSet(l)
  BY ONLY <1>1, <1>4, <1>7, Zenon
<1>9. One(m) = IF m.command = "none" THEN <<>> ELSE o
  BY <1>3 DEF p, q, r, o
<1> HIDE DEF o
<1>10. Len(o) > 0
  <2>1. Len(w) \in Nat /\ Len(i) \in Nat /\ Len(n) \in Nat /\ Len(l) \in Nat
    BY <1>1
  <2> QED BY <1>5, <1>6, <1>7, <1>8, <2>1
<1>11. o # <<>>
  BY <1>8, <1>10
<1>12. ToSet(o) = ToSet(w) \cup {Keyword(m.command)} \cup ToSet(i) \cup ToSet(n) \cup ToSet(l)
  BY ONLY <1>5, <1>6, <1>7, <1>8
<1>13. <<>> \in Seq(T)
  OBVIOUS
<1> QED BY <1>8, <1>9, <1>11, <1>12, <1>13 DEF T, w, i, n, l

LEMMA InsertedSet ==
  ASSUME NEW T, NEW s \in Seq(T), NEW k \in 1 .. Len(s) + 1, NEW c \in T
  PROVE  ToSet(InsertAt(s, k, c)) = ToSet(s) \cup {c}
<1> DEFINE t == InsertAt(s, k, c)
           L == Len(s)
<1>1. L \in Nat /\ DOMAIN s = 1 .. L /\ k \in 1 .. L + 1
  OBVIOUS
<1>2. /\ t \in Seq(T) /\ Len(t) = L + 1 /\ t[k] = c
      /\ \A i \in 1 .. k - 1 : t[i] = s[i]
      /\ \A i \in k .. L : t[i + 1] = s[i]
  <2>1. Shifted(T, t, s, k, c)
    BY Inserted, Zenon
  <2> HIDE DEF t
  <2> QED BY <2>1 DEF Shifted
<1> HIDE DEF t, L
<1>3. DOMAIN t = 1 .. L + 1
  BY <1>1, <1>2
<1>4. ASSUME NEW i \in 1 .. L + 1 PROVE t[i] \in ToSet(s) \cup {c}
  <2>1. CASE i < k
    <3>1. i \in 1 .. L /\ i \in 1 .. k - 1
      BY <1>1, <2>1
    <3> QED BY <1>1, <1>2, <3>1 DEF ToSet
  <2>2. CASE i = k
    BY <1>2, <2>2
  <2>3. CASE i > k
    <3> DEFINE j == i - 1
    <3>1. j \in 1 .. L /\ j \in k .. L /\ j + 1 = i
      BY <1>1, <2>3
    <3> HIDE DEF j
    <3>2. t[i] = s[j]
      BY <1>2, <3>1
    <3> QED BY <1>1, <3>1, <3>2 DEF ToSet
  <2> QED BY <1>1, <2>1, <2>2, <2>3
<1>5. ASSUME NEW i \in 1 .. L PROVE s[i] \in ToSet(t)
  <2>1. CASE i < k
    <3>1. i \in 1 .. L + 1 /\ i \in 1 .. k - 1
      BY <1>1, <2>1
    <3> QED BY <1>2, <1>3, <3>1 DEF ToSet
  <2>2. CASE i >= k
    <3>1. i + 1 \in 1 .. L + 1 /\ i \in k .. L
      BY <1>1, <2>2
    <3>2. t[i + 1] = s[i]
      BY <1>2, <3>1
    <3> QED BY <1>3, <3>1, <3>2 DEF ToSet
  <2> QED BY <1>1, <2>1, <2>2
<1>6. c \in ToSet(t)
  BY <1>1, <1>2, <1>3 DEF ToSet
<1>7. ToSet(t) \subseteq ToSet(s) \cup {c}
  BY <1>3, <1>4 DEF ToSet
<1>8. ToSet(s) \subseteq ToSet(t)
  BY <1>1, <1>5 DEF ToSet
<1> QED BY <1>6, <1>7, <1>8 DEF t

\* The parts of what is written, of which the comment takes nothing away.
LEMMA WrittenIs ==
  ASSUME NEW m \in Statements
  PROVE  LET T == Vocabulary(m) \cup {Semicolon, Comment}
         IN  /\ Written(m) \in Seq(T)
             /\ Parted(T, Stripped(Written(m)), One(m), IF m.more THEN m.ends + 1 ELSE m.ends, More(m))
             /\ IsAmbiguous(Written(m)) <=> IsAmbiguous(One(m))
<1> DEFINE V == Vocabulary(m)
           T == V \cup {Semicolon, Comment}
           u == Uncommented(m)
           k == IF m.more THEN m.ends + 1 ELSE m.ends
<1>1. One(m) \in Seq(V) /\ More(m) \in Seq(V) /\ k \in Nat /\ m.comment \in Nat
  <2>1. m.ends \in Nat /\ m.comment \in Nat
    BY DEF Statements
  <2> QED BY <2>1, OneIs, RestIs
<1>2. Unended(One(m)) /\ Unended(More(m))
  <2>1. \A s \in Seq(V) : \A i \in DOMAIN s : s[i] \in V
    OBVIOUS
  <2>2. \A t \in V : t # Semicolon
    BY VocabularyIs
  <2> HIDE DEF V
  <2> QED BY <1>1, <2>1, <2>2 DEF Unended
<1>3. One(m) \in Seq(T) /\ More(m) \in Seq(T) /\ Semicolon \in T /\ Comment \in T
  <2>1. \A s \in Seq(V) : s \in Seq(T)
    <3> HIDE DEF V
    <3> QED OBVIOUS
  <2> QED BY <1>1, <2>1
<1>4. k = 0 => More(m) = <<>>
  <2>1. m.ends \in Nat
    BY DEF Statements
  <2> QED BY <2>1 DEF More
<1>5. Parted(T, u, One(m), k, More(m))
  <2>1. u = One(m) \o Semicolons(k) \o More(m)
    BY DEF Uncommented
  <2> HIDE DEF T, V, k, u
  <2> QED BY <1>1, <1>2, <1>3, <1>4, <2>1 DEF Parted
<1> HIDE DEF T, u, k
<1>6. /\ u \in Seq(T) /\ ToSet(u) \subseteq ToSet(One(m)) \cup {Semicolon} \cup ToSet(More(m))
      /\ ToSet(One(m)) \subseteq ToSet(u)
  BY <1>5, PartedIs
<1>7. Ambiguous # Semicolon /\ Ambiguous # Comment /\ Ambiguous \notin ToSet(More(m))
  <2>1. Ambiguous.type = "string" /\ Semicolon.type = "punctuation" /\ Comment.type = "comment"
        /\ \A w : Name(w).type = "name" /\ Keyword(w).type = "keyword"
    BY TokensDiffer
  <2>2. ToSet(More(m)) \subseteq {Keyword("SELECT"), Name("a")}
    BY DEF More, ToSet
  <2> QED BY <2>1, <2>2
<1>8. Plain(u)
  <2>1. \A s \in Seq(V) : ToSet(s) \subseteq V
    BY DEF ToSet
  <2>2. ToSet(u) \subseteq V \cup {Semicolon}
    <3> HIDE DEF V
    <3> QED BY <1>1, <1>6, <2>1
  <2>3. \A t \in V \cup {Semicolon} : t.type # "comment"
    BY VocabularyIs, SemicolonType
  <2>4. \A i \in DOMAIN u : u[i] \in ToSet(u)
    BY DEF ToSet
  <2> HIDE DEF V
  <2> QED BY <2>2, <2>3, <2>4 DEF Plain
<1>9. /\ Written(m) \in Seq(T) /\ Stripped(Written(m)) = u
      /\ ToSet(Written(m)) \subseteq ToSet(u) \cup {Comment} /\ ToSet(u) \subseteq ToSet(Written(m))
  <2>1. CASE m.comment = 0
    <3>1. Written(m) = u
      BY <2>1 DEF Written, u
    <3> QED BY <1>6, <1>8, <3>1, StrippedPlain
  <2>2. CASE m.comment # 0
    <3> DEFINE L == Len(u)
               at0 == Min({m.comment, L + 1})
    <3>1. Written(m) = InsertAt(u, at0, Comment)
      BY <2>2 DEF Written, u
    <3>2. L \in Nat
      BY <1>6
    <3> HIDE DEF L
    <3>3. at0 \in 1 .. L + 1
      <4>1. m.comment \in Nat \ {0} /\ L + 1 \in Nat \ {0}
        BY <1>1, <2>2, <3>2
      <4>2. at0 = IF m.comment <= L + 1 THEN m.comment ELSE L + 1
        BY <4>1, LeastOfTwo
      <4> HIDE DEF at0
      <4> QED BY ONLY <3>2, <4>1, <4>2
    <3> HIDE DEF at0
    <3>4. at0 \in 1 .. Len(u) + 1
      BY <3>3 DEF L
    <3>5. Comment.type = "comment"
      BY TokensDiffer
    <3>6. InsertAt(u, at0, Comment) \in Seq(T)
      <4>1. Shifted(T, InsertAt(u, at0, Comment), u, at0, Comment)
        BY <1>3, <1>6, <3>4, Inserted, Zenon
      <4> QED BY ONLY <4>1, Zenon DEF Shifted
    <3>7. Stripped(InsertAt(u, at0, Comment)) = u
      BY <1>3, <1>6, <1>8, <3>4, <3>5, StrippedInserted, Zenon
    <3>8. ToSet(InsertAt(u, at0, Comment)) = ToSet(u) \cup {Comment}
      BY <1>3, <1>6, <3>4, InsertedSet, SMTT(30)
    <3> QED BY <3>1, <3>6, <3>7, <3>8
  <2> QED BY <2>1, <2>2
<1>10. IsAmbiguous(Written(m)) <=> IsAmbiguous(One(m))
  BY <1>6, <1>7, <1>9 DEF IsAmbiguous
<1> QED BY <1>5, <1>9, <1>10 DEF T, k

\* No call goes over the end of x.
Closed(x) == x # <<>> => x[1] # Opening /\ x[Len(x)] # Period

LEMMA JoinedCalls ==
  ASSUME NEW T, NEW x \in Seq(T), NEW y \in Seq(T), Closed(x), Closed(y)
  PROVE  Closed(x \o y) /\ (Calls(x \o y) <=> Calls(x) \/ Calls(y))
<1> DEFINE s == x \o y
           A == Len(x)
           B == Len(y)
           Call(z, i) == /\ z[i].type \in {"name", "symbol", "keyword"}
                         /\ z[i].word \in ForbiddenFunctions
                         /\ \/ Followed(z, i, Opening)
                            \/ Preceded(z, i, Period) /\ z[i].word \in PostgresFunctions
<1>1. /\ A \in Nat /\ B \in Nat /\ DOMAIN x = 1 .. A /\ DOMAIN y = 1 .. B
      /\ (x = <<>> <=> A = 0) /\ (y = <<>> <=> B = 0)
  OBVIOUS
<1>2. /\ s \in Seq(T) /\ Len(s) = A + B /\ DOMAIN s = 1 .. A + B
      /\ \A i \in 1 .. A : s[i] = x[i]
      /\ \A i \in 1 .. B : s[A + i] = y[i]
  BY Elements
<1>3. /\ Len(x) = A /\ Len(y) = B
      /\ A > 0 => x[1] # Opening /\ x[A] # Period
      /\ B > 0 => y[1] # Opening /\ y[B] # Period
  BY <1>1 DEF Closed
<1> HIDE DEF s, A, B
<1>4. Closed(s)
  <2> SUFFICES ASSUME A + B > 0 PROVE s[1] # Opening /\ s[A + B] # Period
    BY <1>1, <1>2 DEF Closed
  <2>1. s[1] # Opening
    <3>1. CASE A > 0
      <4>1. 1 \in 1 .. A
        BY <1>1, <3>1
      <4> QED BY <1>2, <1>3, <3>1, <4>1
    <3>2. CASE A = 0
      <4>1. 1 \in 1 .. B /\ A + 1 = 1 /\ B > 0
        BY <1>1, <3>2
      <4> QED BY <1>2, <1>3, <4>1
    <3> QED BY <1>1, <3>1, <3>2
  <2>2. s[A + B] # Period
    <3>1. CASE B > 0
      <4>1. B \in 1 .. B
        BY <1>1, <3>1
      <4> QED BY <1>2, <1>3, <3>1, <4>1
    <3>2. CASE B = 0
      <4>1. A \in 1 .. A /\ A + B = A /\ A > 0
        BY <1>1, <3>2
      <4> QED BY <1>2, <1>3, <4>1
    <3> QED BY <1>1, <3>1, <3>2
  <2> QED BY <2>1, <2>2
<1>5. ASSUME NEW i \in 1 .. A
      PROVE  /\ s[i] = x[i]
             /\ Followed(s, i, Opening) <=> Followed(x, i, Opening)
             /\ Preceded(s, i, Period) <=> Preceded(x, i, Period)
  <2>1. s[i] = x[i] /\ i \in Nat /\ i <= A
    BY <1>1, <1>2
  <2>2. Followed(s, i, Opening) <=> Followed(x, i, Opening)
    <3>1. CASE i < A
      <4>1. i + 1 \in 1 .. A /\ i < A + B
        BY <1>1, <3>1
      <4> QED BY <1>2, <1>3, <3>1, <4>1 DEF Followed
    <3>2. CASE i = A
      <4>1. i < A + B => 1 \in 1 .. B /\ A + 1 = i + 1 /\ B > 0
        BY <1>1, <3>2
      <4>2. i < A + B => s[i + 1] # Opening
        BY <1>2, <1>3, <4>1
      <4>3. ~(i < Len(x))
        BY <1>1, <1>3, <3>2
      <4> QED BY <1>2, <4>2, <4>3 DEF Followed
    <3> QED BY <1>1, <2>1, <3>1, <3>2
  <2>3. Preceded(s, i, Period) <=> Preceded(x, i, Period)
    <3>1. i > 1 => i - 1 \in 1 .. A
      BY <1>1
    <3> QED BY <1>2, <3>1 DEF Preceded
  <2> QED BY <2>1, <2>2, <2>3
<1>6. ASSUME NEW j \in 1 .. B
      PROVE  /\ s[A + j] = y[j]
             /\ Followed(s, A + j, Opening) <=> Followed(y, j, Opening)
             /\ Preceded(s, A + j, Period) <=> Preceded(y, j, Period)
  <2>1. s[A + j] = y[j]
    BY <1>2
  <2>2. Followed(s, A + j, Opening) <=> Followed(y, j, Opening)
    <3>1. A + j < A + B <=> j < B
      BY <1>1
    <3>2. j < B => j + 1 \in 1 .. B /\ A + j + 1 = A + (j + 1)
      BY <1>1
    <3>3. j < B => s[A + j + 1] = y[j + 1]
      BY <1>2, <3>2
    <3> QED BY <1>2, <1>3, <3>1, <3>3 DEF Followed
  <2>3. Preceded(s, A + j, Period) <=> Preceded(y, j, Period)
    <3>1. CASE j > 1
      <4>1. j - 1 \in 1 .. B /\ A + j - 1 = A + (j - 1) /\ A + j > 1
        BY ONLY <1>1, <3>1, j \in 1 .. B
      <4>2. s[A + j - 1] = y[j - 1]
        BY ONLY <1>2, <4>1
      <4>3. Preceded(s, A + j, Period) <=> s[A + j - 1] = Period
        BY <1>1, <4>1 DEF Preceded
      <4>4. Preceded(y, j, Period) <=> y[j - 1] = Period
        BY ONLY <3>1 DEF Preceded
      <4> QED BY ONLY <4>2, <4>3, <4>4
    <3>2. CASE j = 1
      <4>1. A + j > 1 => A > 0 /\ A \in 1 .. A /\ A + j - 1 = A
        BY ONLY <1>1, <3>2
      <4>2. A + j > 1 => s[A + j - 1] # Period
        BY <1>2, <1>3, <4>1
      <4>3. ~Preceded(s, A + j, Period)
        BY <1>1, <4>2 DEF Preceded
      <4>4. ~Preceded(y, j, Period)
        BY ONLY <3>2 DEF Preceded
      <4> QED BY ONLY <4>3, <4>4
    <3>3. j > 1 \/ j = 1
      BY <1>1
    <3> QED BY <3>1, <3>2, <3>3
  <2> QED BY <2>1, <2>2, <2>3
<1>7. /\ \A i \in 1 .. A : Call(s, i) <=> Call(x, i)
      /\ \A j \in 1 .. B : Call(s, A + j) <=> Call(y, j)
  BY <1>5, <1>6
<1>8. /\ Calls(s) <=> \E i \in 1 .. A + B : Call(s, i)
      /\ Calls(x) <=> \E i \in 1 .. A : Call(x, i)
      /\ Calls(y) <=> \E i \in 1 .. B : Call(y, i)
  BY <1>1, <1>2 DEF Calls
<1> HIDE DEF Call
<1>9. \A i \in 1 .. A + B : i \in 1 .. A \/ \E j \in 1 .. B : i = A + j
  <2> SUFFICES ASSUME NEW i \in 1 .. A + B, i \notin 1 .. A PROVE \E j \in 1 .. B : i = A + j
    OBVIOUS
  <2>1. i - A \in 1 .. B /\ i = A + (i - A)
    BY <1>1
  <2> QED BY <2>1
<1>10. (\A i \in 1 .. A : i \in 1 .. A + B) /\ (\A j \in 1 .. B : A + j \in 1 .. A + B)
  BY <1>1
<1>11. Calls(s) <=> Calls(x) \/ Calls(y)
  BY <1>7, <1>8, <1>9, <1>10
<1> QED BY <1>4, <1>11 DEF s

\* Without parentheses and dots there are no calls.
LEMMA NoCalls ==
  ASSUME NEW T, NEW s \in Seq(T), Opening \notin ToSet(s), Period \notin ToSet(s)
  PROVE  Closed(s) /\ ~Calls(s)
<1>1. DOMAIN s = 1 .. Len(s) /\ Len(s) \in Nat /\ (s # <<>> => 1 \in 1 .. Len(s) /\ Len(s) \in 1 .. Len(s))
  OBVIOUS
<1>2. \A i \in 1 .. Len(s) : s[i] # Opening /\ s[i] # Period
  BY <1>1 DEF ToSet
<1>3. ASSUME NEW i \in 1 .. Len(s) PROVE ~Followed(s, i, Opening) /\ ~Preceded(s, i, Period)
  <2>1. i < Len(s) => i + 1 \in 1 .. Len(s)
    BY <1>1
  <2>2. i > 1 => i - 1 \in 1 .. Len(s)
    BY <1>1
  <2> QED BY <1>2, <2>1, <2>2 DEF Followed, Preceded
<1> QED BY <1>1, <1>2, <1>3 DEF Closed, Calls

\* In the table of a WITH a parenthesis follows AS only.
LEMMA TableCalls ==
  ASSUME NEW w
  PROVE  Closed(Table(w)) /\ ~Calls(Table(w))
<1> DEFINE t == Table(w)
<1>1. /\ Len(t) = 7 /\ DOMAIN t = 1 .. 7
      /\ t[1] = Keyword("WITH") /\ t[2] = Name("x") /\ t[3] = Keyword("AS") /\ t[4] = Opening
      /\ t[5] = Keyword(w) /\ t[6] = Name("a") /\ t[7] = Closing
  BY DEF Table
<1> HIDE DEF t
<1>2. t[3].word \notin ForbiddenFunctions
  BY <1>1, TokensDiffer, PolicyAssumption
<1>3. \A i \in 1 .. 7 : i = 1 \/ i = 2 \/ i = 3 \/ i = 4 \/ i = 5 \/ i = 6 \/ i = 7
  OBVIOUS
<1>4. \A i \in 1 .. 7 : t[i] # Period /\ (t[i] = Opening => i = 4)
  BY <1>1, <1>3, TokensDiffer
<1>5. ASSUME NEW i \in 1 .. 7 PROVE (Followed(t, i, Opening) => i = 3) /\ ~Preceded(t, i, Period)
  <2>1. i < 7 => i + 1 \in 1 .. 7
    OBVIOUS
  <2>2. i > 1 => i - 1 \in 1 .. 7
    OBVIOUS
  <2>3. i + 1 = 4 => i = 3
    OBVIOUS
  <2> QED BY <1>1, <1>4, <2>1, <2>2, <2>3 DEF Followed, Preceded
<1>6. ~Calls(t)
  BY <1>1, <1>2, <1>5 DEF Calls
<1>7. 1 \in 1 .. 7 /\ 7 \in 1 .. 7 /\ 1 # 4
  OBVIOUS
<1>8. Closed(t)
  BY <1>1, <1>4, <1>7 DEF Closed
<1> QED BY <1>6, <1>8 DEF t

LEMMA CalledCalls ==
  ASSUME NEW k, k.type \in {"name", "symbol"}
  PROVE  Closed(Called(k)) /\ (Calls(Called(k)) <=> k.word \in ForbiddenFunctions)
<1> DEFINE t == Called(k)
<1>1. Len(t) = 3 /\ DOMAIN t = 1 .. 3 /\ t[1] = k /\ t[2] = Opening /\ t[3] = Closing
  BY DEF Called
<1> HIDE DEF t
<1>2. k # Opening /\ k # Period /\ Opening # Period /\ Closing # Period /\ Opening.type = "punctuation"
      /\ Closing.type = "punctuation"
  BY TokensDiffer
<1>3. \A i \in 1 .. 3 : i = 1 \/ i = 2 \/ i = 3
  OBVIOUS
<1>4. \A i \in 1 .. 3 : t[i].type \in {"name", "symbol", "keyword"} => i = 1
  BY <1>1, <1>2, <1>3
<1>5. Followed(t, 1, Opening) /\ ~Preceded(t, 1, Period)
  BY <1>1 DEF Followed, Preceded
<1>6. Calls(t) <=> k.word \in ForbiddenFunctions
  <2>1. Calls(t) => k.word \in ForbiddenFunctions
    BY <1>1, <1>4 DEF Calls
  <2>2. 1 \in DOMAIN t
    BY <1>1
  <2>3. k.word \in ForbiddenFunctions => Calls(t)
    BY <1>1, <1>5, <2>2 DEF Calls
  <2> QED BY <2>1, <2>3
<1>7. Closed(t)
  BY <1>1, <1>2 DEF Closed
<1> QED BY <1>6, <1>7 DEF t

\* PostgreSQL calls a function as a field, too.
LEMMA FieldCalls ==
  ASSUME NEW w
  PROVE  LET t == <<Name("t"), Period, Name(w)>>
         IN  Closed(t) /\ (Calls(t) <=> w \in PostgresFunctions)
<1> DEFINE t == <<Name("t"), Period, Name(w)>>
<1>1. Len(t) = 3 /\ DOMAIN t = 1 .. 3 /\ t[1] = Name("t") /\ t[2] = Period /\ t[3] = Name(w)
  OBVIOUS
<1> HIDE DEF t
<1>2. /\ Name("t") # Opening /\ Period # Opening /\ Name(w) # Opening /\ Name("t") # Period /\ Name(w) # Period
      /\ Period.type = "punctuation" /\ Name(w).type = "name" /\ Name(w).word = w
  BY TokensDiffer
<1>3. \A i \in 1 .. 3 : i = 1 \/ i = 2 \/ i = 3
  OBVIOUS
<1>4. ASSUME NEW i \in 1 .. 3 PROVE ~Followed(t, i, Opening) /\ (Preceded(t, i, Period) => i = 3)
  <2>1. i < 3 => i + 1 \in 1 .. 3
    OBVIOUS
  <2>2. ~Followed(t, i, Opening)
    BY <1>1, <1>2, <1>3, <2>1 DEF Followed
  <2>3. Preceded(t, i, Period) => i = 3
    <3>1. CASE i = 2
      BY <1>1, <1>2, <3>1 DEF Preceded
    <3>2. CASE i # 2
      BY <1>3, <3>2 DEF Preceded
    <3> QED BY <3>1, <3>2
  <2> QED BY <2>2, <2>3
<1>5. Calls(t) => w \in PostgresFunctions
  BY <1>1, <1>2, <1>4 DEF Calls
<1>6. w \in PostgresFunctions => Calls(t)
  <2>1. 3 \in DOMAIN t /\ Preceded(t, 3, Period) /\ (w \in PostgresFunctions => w \in ForbiddenFunctions)
    BY <1>1 DEF Preceded, ForbiddenFunctions
  <2> QED BY <1>1, <1>2, <2>1 DEF Calls
<1>7. Closed(t)
  BY <1>1, <1>2 DEF Closed
<1> QED BY <1>5, <1>6, <1>7 DEF t

\* The functions an item calls.
CallsItem(m) ==
  \/ m.item \in {"call", "quoted_call"} /\ m.word \in ForbiddenFunctions
  \/ m.item = "field" /\ m.word \in PostgresFunctions

LEMMA ItemCalls ==
  ASSUME NEW m \in Statements
  PROVE  Closed(ItemTokens(m)) /\ (Calls(ItemTokens(m)) <=> CallsItem(m))
<1>1. m.item \in {"column", "keyword", "quoted", "call", "quoted_call", "field", "literal", "ambiguous"}
  BY DEF Statements
<1>2. ItemTokens(m) \in Seq(Vocabulary(m))
  BY ItemIs
<1>3. CASE m.item \in {"column", "keyword", "quoted", "literal", "ambiguous"}
  <2>1. ToSet(ItemTokens(m)) \subseteq {Name(m.word), Keyword("SHARE"), Symbol(m.word), Literal, Ambiguous}
    <3>1. \A k : ToSet(<<k>>) = {k}
      BY DEF ToSet
    <3>2. \E k \in {Name(m.word), Keyword("SHARE"), Symbol(m.word), Literal, Ambiguous} : ItemTokens(m) = <<k>>
      BY <1>3 DEF ItemTokens
    <3> QED BY <3>1, <3>2
  <2>2. Opening \notin ToSet(ItemTokens(m)) /\ Period \notin ToSet(ItemTokens(m))
    BY <2>1, TokensDiffer
  <2>3. ~CallsItem(m)
    BY <1>3 DEF CallsItem
  <2> QED BY <1>2, <2>2, <2>3, NoCalls
<1>4. CASE m.item = "call"
  <2>1. ItemTokens(m) = Called(Name(m.word)) /\ (CallsItem(m) <=> m.word \in ForbiddenFunctions)
    BY <1>4 DEF ItemTokens, CallsItem
  <2>2. Name(m.word).type = "name" /\ Name(m.word).word = m.word
    BY TokensDiffer
  <2> QED BY <2>1, <2>2, CalledCalls
<1>5. CASE m.item = "quoted_call"
  <2>1. ItemTokens(m) = Called(Symbol(m.word)) /\ (CallsItem(m) <=> m.word \in ForbiddenFunctions)
    BY <1>5 DEF ItemTokens, CallsItem
  <2>2. Symbol(m.word).type = "symbol" /\ Symbol(m.word).word = m.word
    BY TokensDiffer
  <2> QED BY <2>1, <2>2, CalledCalls
<1>6. CASE m.item = "field"
  <2>1. ItemTokens(m) = <<Name("t"), Period, Name(m.word)>> /\ (CallsItem(m) <=> m.word \in PostgresFunctions)
    BY <1>6 DEF ItemTokens, CallsItem
  <2> QED BY <2>1, FieldCalls
<1> QED BY <1>1, <1>3, <1>4, <1>5, <1>6

LEMMA OneCalls ==
  ASSUME NEW m \in Statements, m.command # "none"
  PROVE  Calls(One(m)) <=> CallsItem(m)
<1> DEFINE T == Vocabulary(m)
           w == WithTokens(m)
           c == Command(m.command)
           i == ItemTokens(m)
           n == IntoTokens(m)
           l == LockTokens(m)
           p == w \o c
           q == p \o i
           r == q \o n
           o == r \o l
<1>1. w \in Seq(T) /\ c \in Seq(T) /\ i \in Seq(T) /\ n \in Seq(T) /\ l \in Seq(T)
  BY WithIs, ItemIs, RestIs
<1>2. Closed(w) /\ ~Calls(w)
  <2>1. m.with \in {"none", "read", "write"}
    BY DEF Statements
  <2>2. CASE m.with = "none"
    <3>1. w = <<>> /\ ToSet(<<>>) = {}
      BY <2>2 DEF WithTokens, ToSet
    <3> QED BY <1>1, <3>1, NoCalls
  <2>3. CASE m.with \in {"read", "write"}
    <3>1. \E v : w = Table(v)
      BY <2>3 DEF WithTokens
    <3> HIDE DEF w
    <3> QED BY <3>1, TableCalls
  <2> QED BY <2>1, <2>2, <2>3
<1>3. Closed(i) /\ (Calls(i) <=> CallsItem(m))
  BY ItemCalls
<1>4. Closed(c) /\ ~Calls(c) /\ Closed(n) /\ ~Calls(n) /\ Closed(l) /\ ~Calls(l)
  <2>1. \A z : Keyword(z) # Opening /\ Keyword(z) # Period /\ Name(z) # Opening /\ Name(z) # Period
    BY TokensDiffer
  <2>2. ToSet(c) \subseteq {Keyword(m.command)}
    BY DEF Command, ToSet
  <2>3. ToSet(n) \subseteq {Keyword("INTO"), Name("t")}
    BY DEF IntoTokens, ToSet
  <2>4. ToSet(l) \subseteq {Keyword("FOR"), Keyword("SHARE"), Keyword("KEY"), Keyword("NO"), Keyword("UPDATE")}
    <3>1. m.lock \in {"none", "share", "key_share", "update"}
      BY DEF Statements
    <3> QED BY <3>1 DEF LockTokens, ToSet
  <2> HIDE DEF c, n, l
  <2>5. \A z \in {c, n, l} : z \in Seq(T) /\ Opening \notin ToSet(z) /\ Period \notin ToSet(z)
    BY <1>1, <2>1, <2>2, <2>3, <2>4
  <2> QED BY <2>5, NoCalls
<1> HIDE DEF T, w, c, i, n, l
<1>5. \A u, v \in Seq(T) : u \o v \in Seq(T) /\ (Closed(u) /\ Closed(v) =>
                              Closed(u \o v) /\ (Calls(u \o v) <=> Calls(u) \/ Calls(v)))
  BY JoinedCalls
<1>6. p \in Seq(T) /\ Closed(p) /\ ~Calls(p)
  BY ONLY <1>1, <1>2, <1>4, <1>5
<1> HIDE DEF p
<1>7. q \in Seq(T) /\ Closed(q) /\ (Calls(q) <=> CallsItem(m))
  BY ONLY <1>1, <1>3, <1>5, <1>6
<1> HIDE DEF q
<1>8. r \in Seq(T) /\ Closed(r) /\ (Calls(r) <=> CallsItem(m))
  BY ONLY <1>1, <1>4, <1>5, <1>7
<1> HIDE DEF r
<1>9. Calls(o) <=> CallsItem(m)
  BY ONLY <1>1, <1>4, <1>5, <1>8
<1>10. One(m) = o
  BY DEF One, o, p, q, r, w, c, i, n, l
<1> QED BY <1>9, <1>10

\* x is p, and then tokens of S.
Begins(x, p, S) ==
  /\ Len(p) <= Len(x) /\ \A i \in 1 .. Len(p) : x[i] = p[i]
  /\ \A i \in Len(p) + 1 .. Len(x) : x[i] \in S

LEMMA Grown ==
  ASSUME NEW T, NEW x \in Seq(T), NEW y \in Seq(T), NEW p \in Seq(T), NEW S,
         Begins(x, p, S), ToSet(y) \subseteq S
  PROVE  Begins(x \o y, p, S)
<1> DEFINE z == x \o y
           A == Len(x)
           B == Len(y)
           P == Len(p)
<1>1. A \in Nat /\ B \in Nat /\ P \in Nat /\ DOMAIN y = 1 .. B
  OBVIOUS
<1>2. /\ Len(z) = A + B
      /\ \A i \in 1 .. A : z[i] = x[i]
      /\ \A i \in 1 .. B : z[A + i] = y[i]
  BY Elements
<1>3. /\ P <= A /\ \A i \in 1 .. P : x[i] = p[i]
      /\ \A i \in P + 1 .. A : x[i] \in S
  BY DEF Begins
<1> HIDE DEF z, A, B, P
<1>4. P <= A + B
  BY <1>1, <1>3
<1>5. \A i \in 1 .. P : z[i] = p[i]
  <2>1. \A i \in 1 .. P : i \in 1 .. A
    BY <1>1, <1>3
  <2> QED BY <1>2, <1>3, <2>1
<1>6. ASSUME NEW i \in P + 1 .. A + B PROVE z[i] \in S
  <2>1. CASE i <= A
    <3>1. i \in P + 1 .. A /\ i \in 1 .. A
      BY <1>1, <2>1
    <3> QED BY <1>2, <1>3, <3>1
  <2>2. CASE ~(i <= A)
    <3> DEFINE j == i - A
    <3>1. j \in 1 .. B /\ A + j = i
      BY <1>1, <1>3, <2>2
    <3> HIDE DEF j
    <3>2. z[i] = y[j] /\ y[j] \in ToSet(y)
      BY <1>1, <1>2, <3>1 DEF ToSet
    <3> QED BY <3>2
  <2> QED BY <2>1, <2>2
<1> QED BY <1>2, <1>4, <1>5, <1>6 DEF Begins, z, P

\* The tokens of One(m) behind its command.
Behind(m) == ToSet(ItemTokens(m)) \cup ToSet(IntoTokens(m)) \cup ToSet(LockTokens(m))

LEMMA OneBegins ==
  ASSUME NEW m \in Statements, m.command # "none"
  PROVE  /\ One(m) \in Seq(Vocabulary(m))
         /\ WithTokens(m) \o Command(m.command) \in Seq(Vocabulary(m))
         /\ Begins(One(m), WithTokens(m) \o Command(m.command), Behind(m))
<1> DEFINE T == Vocabulary(m)
           S == Behind(m)
           w == WithTokens(m)
           c == Command(m.command)
           i == ItemTokens(m)
           n == IntoTokens(m)
           l == LockTokens(m)
           p == w \o c
           q == p \o i
           r == q \o n
           o == r \o l
<1>1. w \in Seq(T) /\ c \in Seq(T) /\ i \in Seq(T) /\ n \in Seq(T) /\ l \in Seq(T) /\ One(m) \in Seq(T)
  BY WithIs, ItemIs, RestIs, OneIs
<1>2. ToSet(i) \subseteq S /\ ToSet(n) \subseteq S /\ ToSet(l) \subseteq S
  BY DEF Behind
<1> HIDE DEF T, S, w, c, i, n, l
<1>3. \A u, v \in Seq(T) : u \o v \in Seq(T)
  OBVIOUS
<1>4. p \in Seq(T)
  BY <1>1, <1>3
<1> HIDE DEF p
<1>5. Begins(p, p, S)
  <2>1. Len(p) \in Nat
    BY <1>4
  <2> QED BY <2>1 DEF Begins
<1>6. q \in Seq(T) /\ Begins(q, p, S)
  BY <1>1, <1>2, <1>3, <1>4, <1>5, Grown
<1> HIDE DEF q
<1>7. r \in Seq(T) /\ Begins(r, p, S)
  BY <1>1, <1>2, <1>3, <1>4, <1>6, Grown
<1> HIDE DEF r
<1>8. Begins(o, p, S)
  BY <1>1, <1>2, <1>4, <1>7, Grown
<1>9. One(m) = o
  BY DEF One, o, p, q, r, w, c, i, n, l
<1> QED BY <1>1, <1>4, <1>8, <1>9 DEF T, S, p, w, c

Depth(s, i) == Cardinality({j \in 1 .. i : s[j] = Opening}) - Cardinality({j \in 1 .. i : s[j] = Closing})
Commands(s) == {i \in DOMAIN s : Depth(s, i) = 0 /\ s[i].type = "keyword" /\ s[i].word \in DataKeywords}
Starters == {Keyword("WITH")} \cup {Keyword(w) : w \in DataKeywords}

LEMMA TypeIs ==
  ASSUME NEW T, NEW s \in Seq(T)
  PROVE  /\ TypeOf(s) = "SELECT" => \E i \in Commands(s) : s[i].word = "SELECT"
         /\ \A c \in Commands(s) :
              s[1] \in Starters /\ (\A i \in Commands(s) : c <= i) => TypeOf(s) = s[c].word
<1>1. TypeOf(s) = IF s[1] \notin Starters \/ Commands(s) = {} THEN "UNKNOWN" ELSE s[Min(Commands(s))].word
  BY DEF TypeOf, Commands, Starters, Depth
<1>2. DOMAIN s = 1 .. Len(s) /\ Len(s) \in Nat
  OBVIOUS
<1>3. Commands(s) \subseteq 1 .. Len(s)
  BY <1>2 DEF Commands
<1> DEFINE C == Commands(s)
<1> HIDE DEF C
<1>4. C \subseteq 0 .. Len(s) /\ C \subseteq Nat
  BY <1>2, <1>3 DEF C
<1>5. C # {} => Min(C) \in C
  <2>1. C # {} => \E m \in C : \A j \in C : m <= j
    BY <1>2, <1>4, LeastOf
  <2> QED BY <2>1 DEF Min
<1>6. ASSUME NEW c \in C, \A i \in C : c <= i PROVE Min(C) = c
  BY <1>4, <1>6, MinIs
<1>7. TypeOf(s) = IF s[1] \notin Starters \/ C = {} THEN "UNKNOWN" ELSE s[Min(C)].word
  BY <1>1 DEF C
<1>8. TypeOf(s) = "SELECT" => \E i \in C : s[i].word = "SELECT"
  BY <1>5, <1>7
<1>9. \A c \in C : s[1] \in Starters /\ (\A i \in C : c <= i) => TypeOf(s) = s[c].word
  BY <1>6, <1>7
<1> QED BY <1>8, <1>9 DEF C

\* The type of a statement is its command, whatever the table of a WITH does.
LEMMA TypeOfOne ==
  ASSUME NEW m \in Statements, m.command # "none"
  PROVE  TypeOf(One(m)) = "SELECT" <=> m.command = "SELECT"
<1> DEFINE s == One(m)
           p == WithTokens(m) \o Command(m.command)
           n == Len(p)
<1>1. s \in Seq(Vocabulary(m)) /\ Begins(s, p, Behind(m))
  BY OneBegins
<1>2. \/ n = 1 /\ p[1] = Keyword(m.command)
      \/ /\ n = 8 /\ p[1] = Keyword("WITH") /\ p[2] = Name("x") /\ p[3] = Keyword("AS") /\ p[4] = Opening
         /\ p[6] = Name("a") /\ p[7] = Closing /\ p[8] = Keyword(m.command)
         /\ p[5] \in {Keyword("SELECT"), Keyword("INSERT")}
  <2>1. m.with \in {"none", "read", "write"}
    BY DEF Statements
  <2>2. CASE m.with = "none"
    BY <2>2 DEF WithTokens, Command
  <2>3. CASE m.with = "read"
    BY <2>3 DEF WithTokens, Command, Table
  <2>4. CASE m.with = "write"
    BY <2>4 DEF WithTokens, Command, Table
  <2> QED BY <2>1, <2>2, <2>3, <2>4
<1>3. n \in Nat /\ Len(s) \in Nat /\ DOMAIN s = 1 .. Len(s)
  <2>1. n \in Nat
    BY <1>2
  <2>2. \A z \in Seq(Vocabulary(m)) : Len(z) \in Nat /\ DOMAIN z = 1 .. Len(z)
    OBVIOUS
  <2> QED BY <1>1, <2>1, <2>2
<1> HIDE DEF s, p
<1>4. /\ n <= Len(s) /\ (\A i \in 1 .. n : s[i] = p[i])
      /\ \A i \in n + 1 .. Len(s) : s[i] \in Behind(m)
  BY <1>1 DEF Begins
<1> HIDE DEF n
<1>5. \A k \in Behind(m) : k.type = "keyword" => k.word # "SELECT"
  <2>1. ToSet(IntoTokens(m)) \subseteq {Keyword("INTO"), Name("t")}
    BY DEF IntoTokens, ToSet
  <2>2. ToSet(LockTokens(m)) \subseteq {Keyword("FOR"), Keyword("SHARE"), Keyword("KEY"), Keyword("NO"), Keyword("UPDATE")}
    <3>1. m.lock \in {"none", "share", "key_share", "update"}
      BY DEF Statements
    <3> QED BY <3>1 DEF LockTokens, ToSet
  <2>3. ToSet(ItemTokens(m)) \subseteq {Name(m.word), Keyword("SHARE"), Symbol(m.word), Name("t"), Period,
                                        Opening, Closing, Literal, Ambiguous}
    <3>1. m.item \in {"column", "keyword", "quoted", "call", "quoted_call", "field", "literal", "ambiguous"}
      BY DEF Statements
    <3>2. \A k : ToSet(<<k>>) = {k}
      BY DEF ToSet
    <3>3. \A k, h, g : ToSet(<<k, h, g>>) = {k, h, g}
      BY DEF ToSet
    <3>4. CASE m.item \in {"column", "keyword", "quoted", "literal", "ambiguous"}
      <4>1. ASSUME m.item = "column" PROVE ToSet(ItemTokens(m)) = {Name(m.word)}
        <5>1. ItemTokens(m) = <<Name(m.word)>>
          BY <4>1 DEF ItemTokens
        <5> QED BY <3>2, <5>1
      <4>2. ASSUME m.item = "keyword" PROVE ToSet(ItemTokens(m)) = {Keyword("SHARE")}
        <5>1. ItemTokens(m) = <<Keyword("SHARE")>>
          BY <4>2 DEF ItemTokens
        <5> QED BY <3>2, <5>1
      <4>3. ASSUME m.item = "quoted" PROVE ToSet(ItemTokens(m)) = {Symbol(m.word)}
        <5>1. ItemTokens(m) = <<Symbol(m.word)>>
          BY <4>3 DEF ItemTokens
        <5> QED BY <3>2, <5>1
      <4>4. ASSUME m.item = "literal" PROVE ToSet(ItemTokens(m)) = {Literal}
        <5>1. ItemTokens(m) = <<Literal>>
          BY <4>4 DEF ItemTokens
        <5> QED BY <3>2, <5>1
      <4>5. ASSUME m.item = "ambiguous" PROVE ToSet(ItemTokens(m)) = {Ambiguous}
        <5>1. ItemTokens(m) = <<Ambiguous>>
          BY <4>5 DEF ItemTokens
        <5> QED BY <3>2, <5>1
      <4> QED BY <3>4, <4>1, <4>2, <4>3, <4>4, <4>5
    <3>5. CASE m.item \in {"call", "quoted_call"}
      <4>1. \E k \in {Name(m.word), Symbol(m.word)} : ItemTokens(m) = <<k, Opening, Closing>>
        BY <3>5 DEF ItemTokens, Called
      <4> QED BY <3>3, <4>1
    <3>6. CASE m.item = "field"
      <4>1. ItemTokens(m) = <<Name("t"), Period, Name(m.word)>>
        BY <3>6 DEF ItemTokens
      <4> QED BY <3>3, <4>1
    <3> QED BY <3>1, <3>4, <3>5, <3>6
  <2>4. \A k \in {Name(m.word), Symbol(m.word), Name("t"), Period, Opening, Closing, Literal, Ambiguous} :
          k.type # "keyword"
    BY TokensDiffer
  <2>5. \A k \in {Keyword("INTO"), Keyword("FOR"), Keyword("SHARE"), Keyword("KEY"), Keyword("NO"), Keyword("UPDATE")} :
          k.word # "SELECT"
    BY TokensDiffer
  <2> QED BY <2>1, <2>2, <2>3, <2>4, <2>5 DEF Behind
<1>6. n \in Commands(s) <=> m.command \in DataKeywords
  <2>1. n \in DOMAIN s /\ s[n] = Keyword(m.command)
    <3>1. n \in 1 .. n /\ p[n] = Keyword(m.command)
      BY <1>2, <1>3
    <3> QED BY <1>3, <1>4, <3>1
  <2>2. Depth(s, n) = 0
    <3>1. CASE n = 1
      <4>1. s[1] = Keyword(m.command) /\ 1 .. 1 = {1}
        BY <2>1, <3>1
      <4>2. {j \in 1 .. 1 : s[j] = Opening} = {} /\ {j \in 1 .. 1 : s[j] = Closing} = {}
        BY <4>1, TokensDiffer
      <4> QED BY <3>1, <4>2, FS_EmptySet DEF Depth
    <3>2. CASE n = 8
      <4>1. /\ s[1] = Keyword("WITH") /\ s[2] = Name("x") /\ s[3] = Keyword("AS") /\ s[4] = Opening
            /\ s[6] = Name("a") /\ s[7] = Closing /\ s[8] = Keyword(m.command)
            /\ s[5] \in {Keyword("SELECT"), Keyword("INSERT")}
        BY <1>2, <1>4, <3>2
      <4>2. 1 .. 8 = {1, 2, 3, 4, 5, 6, 7, 8}
        OBVIOUS
      <4>3. {j \in 1 .. 8 : s[j] = Opening} = {4} /\ {j \in 1 .. 8 : s[j] = Closing} = {7}
        BY <4>1, <4>2, TokensDiffer
      <4>4. Cardinality({4}) = 1 /\ Cardinality({7}) = 1
        BY FS_Singleton
      <4> QED BY <3>2, <4>3, <4>4 DEF Depth
    <3> QED BY <1>2, <3>1, <3>2
  <2>3. s[n].type = "keyword" /\ s[n].word = m.command
    BY <2>1, TokensDiffer
  <2> QED BY <2>1, <2>2, <2>3 DEF Commands
<1>7. ASSUME NEW i \in Commands(s) PROVE n <= i
  <2>1. i \in Nat /\ i >= 1 /\ s[i].type = "keyword" /\ s[i].word \in DataKeywords /\ Depth(s, i) = 0
    BY <1>3 DEF Commands
  <2>2. CASE n = 1
    BY <2>1, <2>2
  <2>3. CASE n = 8
    <3> SUFFICES ASSUME i < 8 PROVE FALSE
      BY <2>1, <2>3
    <3>1. i = 1 \/ i = 2 \/ i = 3 \/ i = 4 \/ i = 5 \/ i = 6 \/ i = 7
      BY <2>1
    <3>2. /\ s[1] = Keyword("WITH") /\ s[2] = Name("x") /\ s[3] = Keyword("AS") /\ s[4] = Opening
          /\ s[6] = Name("a") /\ s[7] = Closing /\ s[5] \in {Keyword("SELECT"), Keyword("INSERT")}
      BY <1>2, <1>4, <2>3
    <3>3. i = 5
      BY <2>1, <3>1, <3>2, TokensDiffer DEF DataKeywords
    <3>4. 1 .. 5 = {1, 2, 3, 4, 5}
      OBVIOUS
    <3>5. {j \in 1 .. 5 : s[j] = Opening} = {4} /\ {j \in 1 .. 5 : s[j] = Closing} = {}
      BY <3>2, <3>4, TokensDiffer
    <3>6. Cardinality({4}) = 1 /\ Cardinality({}) = 0
      BY FS_Singleton, FS_EmptySet
    <3>7. Depth(s, 5) = 1
      BY <3>5, <3>6 DEF Depth
    <3> QED BY <2>1, <3>3, <3>7
  <2> QED BY <1>2, <2>2, <2>3
<1>8. ASSUME TypeOf(s) = "SELECT" PROVE m.command = "SELECT"
  <2>1. PICK i \in Commands(s) : s[i].word = "SELECT"
    BY <1>1, <1>8, TypeIs
  <2>2. i \in 1 .. Len(s) /\ s[i].type = "keyword"
    BY <1>3, <2>1 DEF Commands
  <2>3. n <= i
    BY <1>7
  <2>4. i \notin n + 1 .. Len(s)
    BY <1>4, <1>5, <2>1, <2>2
  <2>5. i = n
    BY <1>3, <2>2, <2>3, <2>4
  <2>6. s[n] = Keyword(m.command)
    <3>1. n \in 1 .. n /\ p[n] = Keyword(m.command)
      BY <1>2, <1>3
    <3> QED BY <1>4, <3>1
  <2> QED BY <2>1, <2>5, <2>6, TokensDiffer
<1>9. ASSUME m.command = "SELECT" PROVE TypeOf(s) = "SELECT"
  <2>1. n \in Commands(s)
    BY <1>6, <1>9 DEF DataKeywords
  <2>2. s[1] \in Starters
    <3>1. 1 \in 1 .. n
      BY <1>2
    <3>2. s[1] = p[1] /\ (p[1] = Keyword("SELECT") \/ p[1] = Keyword("WITH"))
      BY <1>2, <1>4, <1>9, <3>1
    <3> QED BY <3>2 DEF Starters, DataKeywords
  <2>3. s[n].word = "SELECT"
    <3>1. n \in 1 .. n /\ p[n] = Keyword(m.command)
      BY <1>2, <1>3
    <3>2. s[n] = Keyword("SELECT")
      BY <1>4, <1>9, <3>1
    <3> QED BY <3>2, TokensDiffer
  <2> QED BY <1>1, <1>7, <2>1, <2>2, <2>3, TypeIs
<1> QED BY <1>8, <1>9 DEF s

LEMMA Singles ==
  /\ ToSet(<<>>) = {}
  /\ \A k : ToSet(<<k>>) = {k}
  /\ \A k, h : ToSet(<<k, h>>) = {k, h}
  /\ \A k, h, g : ToSet(<<k, h, g>>) = {k, h, g}
  /\ \A k, h, g, f : ToSet(<<k, h, g, f>>) = {k, h, g, f}
BY DEF ToSet

LEMMA TableSet ==
  ASSUME NEW w
  PROVE  ToSet(Table(w)) = {Keyword("WITH"), Name("x"), Keyword("AS"), Opening, Keyword(w), Name("a"), Closing}
<1> DEFINE t == Table(w)
<1>1. /\ DOMAIN t = 1 .. 7
      /\ t[1] = Keyword("WITH") /\ t[2] = Name("x") /\ t[3] = Keyword("AS") /\ t[4] = Opening
      /\ t[5] = Keyword(w) /\ t[6] = Name("a") /\ t[7] = Closing
  BY DEF Table
<1> HIDE DEF t
<1>2. 1 .. 7 = {1, 2, 3, 4, 5, 6, 7}
  OBVIOUS
<1> QED BY <1>1, <1>2 DEF t, ToSet

\* The item, by itself.
LEMMA ItemSet ==
  ASSUME NEW m \in Statements
  PROVE  /\ m.item \in {"column", "call", "field"} => Name(m.word) \in ToSet(ItemTokens(m))
         /\ m.item = "ambiguous" => Ambiguous \in ToSet(ItemTokens(m))
         /\ \A k \in ToSet(ItemTokens(m)) :
              \/ k \in {Keyword("SHARE"), Symbol(m.word), Name("t"), Period, Opening, Closing, Literal}
              \/ m.item \in {"column", "call", "field"} /\ k = Name(m.word)
              \/ m.item = "ambiguous" /\ k = Ambiguous
<1>1. m.item \in {"column", "keyword", "quoted", "call", "quoted_call", "field", "literal", "ambiguous"}
  BY DEF Statements
<1>2. CASE m.item \in {"column", "keyword", "quoted", "literal", "ambiguous"}
  BY <1>2, Singles DEF ItemTokens
<1>3. CASE m.item \in {"call", "quoted_call", "field"}
  BY <1>3, Singles DEF ItemTokens, Called
<1> QED BY <1>1, <1>2, <1>3

\* Writes, locks for an update, and names that are never columns.
Writes(m) ==
  \/ m.with = "write" \/ m.into
  \/ m.item \in {"column", "call", "field"} /\ m.word \in ForbiddenNames

LEMMA OneForbidden ==
  ASSUME NEW m \in Statements, m.command = "SELECT"
  PROVE  /\ Writes(m) \/ m.lock = "update" => HasForbiddenKeyword(One(m))
         /\ m.lock = "none" /\ HasForbiddenKeyword(One(m)) => Writes(m)
<1> DEFINE Bad(k) == \/ k.type = "keyword" /\ k.word \in ForbiddenKeywords
                     \/ k.type = "name" /\ k.word \in ForbiddenNames
<1>1. HasForbiddenKeyword(One(m)) <=> \E k \in ToSet(One(m)) : Bad(k)
  BY DEF HasForbiddenKeyword
<1>2. ToSet(One(m)) = ToSet(WithTokens(m)) \cup {Keyword("SELECT")} \cup ToSet(ItemTokens(m))
                        \cup ToSet(IntoTokens(m)) \cup ToSet(LockTokens(m))
  BY OneIs
<1>3. /\ \A w : Bad(Keyword(w)) <=> w \in ForbiddenKeywords
      /\ \A w : Bad(Name(w)) <=> w \in ForbiddenNames
      /\ \A w : ~Bad(Symbol(w))
      /\ \A k \in {Period, Opening, Closing, Literal, Ambiguous} : ~Bad(k)
  BY TokensDiffer
<1>4. /\ Bad(Keyword("INSERT")) /\ Bad(Keyword("UPDATE")) /\ Bad(Keyword("INTO"))
      /\ ~Bad(Keyword("WITH")) /\ ~Bad(Keyword("AS")) /\ ~Bad(Keyword("SELECT")) /\ ~Bad(Keyword("SHARE"))
      /\ ~Bad(Name("a")) /\ ~Bad(Name("x")) /\ ~Bad(Name("t"))
  BY <1>3, PolicyAssumption
<1> HIDE DEF Bad
<1>5. /\ m.with = "write" => \E k \in ToSet(WithTokens(m)) : Bad(k)
      /\ m.with # "write" => \A k \in ToSet(WithTokens(m)) : ~Bad(k)
  <2>1. m.with \in {"none", "read", "write"}
    BY DEF Statements
  <2>2. CASE m.with = "none"
    BY <2>2, Singles DEF WithTokens
  <2>3. CASE m.with = "read"
    BY <1>3, <1>4, <2>3, TableSet DEF WithTokens
  <2>4. CASE m.with = "write"
    BY <1>4, <2>4, TableSet DEF WithTokens
  <2> QED BY <2>1, <2>2, <2>3, <2>4
<1>6. /\ m.into => \E k \in ToSet(IntoTokens(m)) : Bad(k)
      /\ ~m.into => \A k \in ToSet(IntoTokens(m)) : ~Bad(k)
  BY <1>4, Singles DEF IntoTokens
<1>7. /\ m.lock = "update" => \E k \in ToSet(LockTokens(m)) : Bad(k)
      /\ m.lock = "none" => \A k \in ToSet(LockTokens(m)) : ~Bad(k)
  BY <1>4, Singles DEF LockTokens
<1>8. /\ m.item \in {"column", "call", "field"} /\ m.word \in ForbiddenNames =>
           \E k \in ToSet(ItemTokens(m)) : Bad(k)
      /\ ~(m.item \in {"column", "call", "field"} /\ m.word \in ForbiddenNames) =>
           \A k \in ToSet(ItemTokens(m)) : ~Bad(k)
  BY <1>3, <1>4, ItemSet
<1> QED BY <1>1, <1>2, <1>4, <1>5, <1>6, <1>7, <1>8 DEF Writes

LEMMA OneAmbiguous ==
  ASSUME NEW m \in Statements, m.command # "none"
  PROVE  IsAmbiguous(One(m)) <=> m.item = "ambiguous"
<1>1. ToSet(One(m)) = ToSet(WithTokens(m)) \cup {Keyword(m.command)} \cup ToSet(ItemTokens(m))
                        \cup ToSet(IntoTokens(m)) \cup ToSet(LockTokens(m))
  BY OneIs
<1>2. /\ \A w : Keyword(w) # Ambiguous /\ Name(w) # Ambiguous /\ Symbol(w) # Ambiguous
      /\ Ambiguous \notin {Period, Opening, Closing, Literal}
  BY TokensDiffer
<1>3. Ambiguous \notin ToSet(WithTokens(m))
  <2>1. m.with \in {"none", "read", "write"}
    BY DEF Statements
  <2> QED BY <1>2, <2>1, Singles, TableSet DEF WithTokens
<1>4. Ambiguous \notin ToSet(IntoTokens(m))
  BY <1>2, Singles DEF IntoTokens
<1>5. Ambiguous \notin ToSet(LockTokens(m))
  <2>1. m.lock \in {"none", "share", "key_share", "update"}
    BY DEF Statements
  <2> QED BY <1>2, <2>1, Singles DEF LockTokens
<1>6. Ambiguous \in ToSet(ItemTokens(m)) <=> m.item = "ambiguous"
  BY <1>2, ItemSet
<1> QED BY <1>1, <1>2, <1>3, <1>4, <1>5, <1>6 DEF IsAmbiguous

\* Every lock is one.
LEMMA OneLocks ==
  ASSUME NEW m \in Statements, m.command = "SELECT"
  PROVE  /\ m.lock \in {"share", "key_share"} => Locks(One(m))
         /\ m.lock = "none" => ~Locks(One(m))
<1>1. /\ One(m) \in Seq(Vocabulary(m))
      /\ ToSet(One(m)) = ToSet(WithTokens(m)) \cup {Keyword("SELECT")} \cup ToSet(ItemTokens(m))
                           \cup ToSet(IntoTokens(m)) \cup ToSet(LockTokens(m))
  BY OneIs
<1>2. ASSUME m.lock = "none" PROVE ~Locks(One(m))
  <2>1. /\ \A w : w # "FOR" => Keyword(w) # Keyword("FOR")
        /\ \A w : Name(w) # Keyword("FOR") /\ Symbol(w) # Keyword("FOR")
        /\ Keyword("FOR") \notin {Period, Opening, Closing, Literal, Ambiguous}
    BY TokensDiffer
  <2>2. Keyword("FOR") \notin ToSet(WithTokens(m))
    <3>1. m.with \in {"none", "read", "write"}
      BY DEF Statements
    <3> QED BY <2>1, <3>1, Singles, TableSet DEF WithTokens
  <2>3. Keyword("FOR") \notin ToSet(IntoTokens(m)) /\ Keyword("FOR") \notin ToSet(LockTokens(m))
    BY <1>2, <2>1, Singles DEF IntoTokens, LockTokens
  <2>4. Keyword("FOR") \notin ToSet(ItemTokens(m))
    BY <2>1, ItemSet
  <2>5. Keyword("FOR") \notin ToSet(One(m))
    BY <1>1, <2>1, <2>2, <2>3, <2>4
  <2> QED BY <2>5 DEF Locks, ToSet
<1>3. ASSUME m.lock \in {"share", "key_share"} PROVE Locks(One(m))
  <2> DEFINE r == WithTokens(m) \o Command(m.command) \o ItemTokens(m) \o IntoTokens(m)
             l == LockTokens(m)
             s == One(m)
             A == Len(r)
  <2>1. s = r \o l
    BY DEF One
  <2>2. /\ WithTokens(m) \in Seq(Vocabulary(m)) /\ Command(m.command) \in Seq(Vocabulary(m))
        /\ ItemTokens(m) \in Seq(Vocabulary(m)) /\ IntoTokens(m) \in Seq(Vocabulary(m))
        /\ l \in Seq(Vocabulary(m))
    BY WithIs, ItemIs, RestIs
  <2>3. r \in Seq(Vocabulary(m))
    <3>1. \A u, v \in Seq(Vocabulary(m)) : u \o v \in Seq(Vocabulary(m))
      OBVIOUS
    <3> QED BY <2>2, <3>1
  <2>4. /\ Keyword("SHARE").type = "keyword" /\ Keyword("SHARE").word \in LockingWords
    BY TokensDiffer, PolicyAssumption
  <2> HIDE DEF r, s
  <2>5. /\ A \in Nat /\ Len(l) \in Nat
        /\ DOMAIN s = 1 .. A + Len(l) /\ \A i \in 1 .. Len(l) : s[A + i] = l[i]
    BY <2>1, <2>2, <2>3, Elements
  <2> HIDE DEF A
  <2>6. CASE m.lock = "share"
    <3>1. Len(l) = 2 /\ l[1] = Keyword("FOR") /\ l[2] = Keyword("SHARE")
      BY <2>6 DEF LockTokens
    <3> HIDE DEF l
    <3>2. /\ A + 1 \in DOMAIN s /\ A + 2 \in DOMAIN s /\ A + 1 < A + 2
          /\ s[A + 1] = Keyword("FOR") /\ s[A + 2] = Keyword("SHARE")
      <4>1. 1 \in 1 .. 2 /\ 2 \in 1 .. 2 /\ A + 1 \in 1 .. A + 2 /\ A + 2 \in 1 .. A + 2 /\ A + 1 < A + 2
        BY ONLY <2>5
      <4> QED BY ONLY <2>5, <3>1, <4>1
    <3> DEFINE a == A + 1
               b == A + 2
    <3>3. \A h \in a + 1 .. b - 1 : s[h] \in {Keyword("NO"), Keyword("KEY")}
      BY ONLY <2>5
    <3>4. a \in DOMAIN s /\ b \in DOMAIN s /\ a < b /\ s[a] = Keyword("FOR") /\ s[b] = Keyword("SHARE")
      BY <3>2
    <3> HIDE DEF a, b
    <3>5. Locks(s)
      BY ONLY <2>4, <3>3, <3>4 DEF Locks
    <3> QED BY <3>5 DEF s
  <2>7. CASE m.lock = "key_share"
    <3>1. Len(l) = 3 /\ l[1] = Keyword("FOR") /\ l[2] = Keyword("KEY") /\ l[3] = Keyword("SHARE")
      BY <2>7 DEF LockTokens
    <3> HIDE DEF l
    <3>2. /\ A + 1 \in DOMAIN s /\ A + 3 \in DOMAIN s /\ A + 1 < A + 3
          /\ s[A + 1] = Keyword("FOR") /\ s[A + 2] = Keyword("KEY") /\ s[A + 3] = Keyword("SHARE")
      <4>1. /\ 1 \in 1 .. 3 /\ 2 \in 1 .. 3 /\ 3 \in 1 .. 3
            /\ A + 1 \in 1 .. A + 3 /\ A + 3 \in 1 .. A + 3 /\ A + 1 < A + 3
        BY ONLY <2>5
      <4> QED BY ONLY <2>5, <3>1, <4>1
    <3> DEFINE a == A + 1
               b == A + 3
    <3>3. \A h \in a + 1 .. b - 1 : s[h] \in {Keyword("NO"), Keyword("KEY")}
      <4>1. \A h \in a + 1 .. b - 1 : h = A + 2
        BY ONLY <2>5
      <4> QED BY <3>2, <4>1
    <3>4. a \in DOMAIN s /\ b \in DOMAIN s /\ a < b /\ s[a] = Keyword("FOR") /\ s[b] = Keyword("SHARE")
      BY <3>2
    <3> HIDE DEF a, b
    <3>5. Locks(s)
      BY ONLY <2>4, <3>3, <3>4 DEF Locks
    <3> QED BY <3>5 DEF s
  <2> QED BY <1>3, <2>6, <2>7
<1> QED BY <1>2, <1>3

\* What passes is a plain read.
LEMMA PassesIs ==
  ASSUME NEW m \in Statements, m.command # "none"
  PROVE  Passes(One(m)) <=>
           /\ m.command = "SELECT" /\ ~Writes(m) /\ m.lock = "none"
           /\ m.item # "ambiguous" /\ ~CallsItem(m)
<1>1. TypeOf(One(m)) \in AllowedTypes <=> m.command = "SELECT"
  BY TypeOfOne, PolicyAssumption
<1>2. m.lock \in {"none", "share", "key_share", "update"}
  BY DEF Statements
<1> QED BY <1>1, <1>2, OneForbidden, OneLocks, OneAmbiguous, OneCalls DEF Passes

LEMMA MorePasses ==
  ASSUME NEW m \in Statements, m.more
  PROVE  More(m) # <<>> /\ Passes(More(m))
<1> DEFINE s == <<Keyword("SELECT"), Name("a")>>
           T == Vocabulary(m)
<1>1. More(m) = s
  BY DEF More
<1>2. s \in Seq(T)
  BY <1>1, RestIs
<1>3. s # <<>> /\ DOMAIN s = 1 .. 2 /\ Len(s) = 2 /\ s[1] = Keyword("SELECT") /\ s[2] = Name("a")
  OBVIOUS
<1>4. ToSet(s) = {Keyword("SELECT"), Name("a")}
  BY Singles
<1> HIDE DEF s, T
<1>5. ~Calls(s)
  <2>1. Opening \notin ToSet(s) /\ Period \notin ToSet(s)
    BY <1>4, TokensDiffer
  <2> QED BY <1>2, <2>1, NoCalls
<1>6. ~HasForbiddenKeyword(s)
  BY <1>4, TokensDiffer, PolicyAssumption DEF HasForbiddenKeyword
<1>7. ~Locks(s)
  <2>1. Keyword("FOR") \notin ToSet(s)
    BY <1>4, TokensDiffer
  <2> QED BY <2>1 DEF Locks, ToSet
<1>8. ~IsAmbiguous(s)
  BY <1>4, TokensDiffer DEF IsAmbiguous
<1>9. TypeOf(s) = "SELECT"
  <2>1. 1 .. 1 = {1} /\ \A i \in 1 .. 2 : 1 <= i
    OBVIOUS
  <2>2. {j \in 1 .. 1 : s[j] = Opening} = {} /\ {j \in 1 .. 1 : s[j] = Closing} = {}
    BY <1>3, <2>1, TokensDiffer
  <2>3. Depth(s, 1) = 0
    BY <2>2, FS_EmptySet DEF Depth
  <2>4. 1 \in DOMAIN s /\ s[1].type = "keyword" /\ s[1].word = "SELECT"
    BY <1>3, TokensDiffer
  <2>5. 1 \in Commands(s)
    BY <2>3, <2>4 DEF Commands, DataKeywords
  <2>6. \A i \in Commands(s) : 1 <= i
    BY <1>3, <2>1 DEF Commands
  <2>7. s[1] \in Starters
    BY <1>3 DEF Starters, DataKeywords
  <2> QED BY <1>2, <2>4, <2>5, <2>6, <2>7, TypeIs
<1>10. "SELECT" \in AllowedTypes
  BY PolicyAssumption
<1> QED BY <1>1, <1>3, <1>5, <1>6, <1>7, <1>8, <1>9, <1>10 DEF Passes

\* The guard accepts exactly the plain reads that are short enough.
LEMMA VerdictMeant ==
  ASSUME NEW m \in Statements
  PROVE  Validated(Written(m)).code = "accepted" <=> PlainRead(m) /\ Len(Written(m)) <= MaxLength
<1> DEFINE T == Vocabulary(m) \cup {Semicolon, Comment}
           k == IF m.more THEN m.ends + 1 ELSE m.ends
           x == One(m)
           y == More(m)
<1>1. /\ Written(m) \in Seq(T) /\ Parted(T, Stripped(Written(m)), x, k, y)
      /\ IsAmbiguous(Written(m)) <=> IsAmbiguous(x)
  BY WrittenIs
<1> HIDE DEF T, k
<1>2. Validated(Written(m)).code = "accepted" <=>
        /\ Len(Written(m)) <= MaxLength /\ ~IsAmbiguous(Written(m))
        /\ (x # <<>> /\ y = <<>> /\ Passes(x)) \/ (x = <<>> /\ y # <<>> /\ Passes(y))
  BY <1>1, VerdictOf
<1>3. m.more \in BOOLEAN /\ (~m.more => y = <<>>) /\ (m.more => y # <<>> /\ Passes(y))
  <2>1. m.more \in BOOLEAN
    BY DEF Statements
  <2> QED BY <2>1, MorePasses DEF More
<1>4. Passes(x) => ~IsAmbiguous(x)
  BY DEF Passes
<1>5. CASE m.command = "none"
  <2>1. x = <<>>
    BY <1>5, OneIs
  <2>2. ~IsAmbiguous(x)
    BY <2>1, Singles DEF IsAmbiguous
  <2>3. PlainRead(m) <=> m.more
    BY <1>5 DEF PlainRead
  <2> QED BY <1>1, <1>2, <1>3, <2>1, <2>2, <2>3
<1>6. CASE m.command # "none"
  <2>1. x # <<>>
    BY <1>6, OneIs
  <2>2. PlainRead(m) <=> Passes(x) /\ ~m.more
    <3>1. Passes(x) <=> /\ m.command = "SELECT" /\ ~Writes(m) /\ m.lock = "none"
                        /\ m.item # "ambiguous" /\ ~CallsItem(m)
      BY <1>6, PassesIs
    <3> QED BY <1>6, <3>1 DEF PlainRead, Writes, CallsItem
  <2> QED BY <1>1, <1>2, <1>3, <1>4, <2>1, <2>2
<1> QED BY <1>5, <1>6

\* The verdict on a statement that was asked for.
Judged ==
  /\ at = "asked" => asked \in Meants
  /\ at = "coercing" => sent = NotSent
  /\ at \in {"validated", "refused"} /\ sent # NotSent =>
       asked \in Meants /\ sent = Validated(Written(asked))

LEMMA JudgedStep == ASSUME Judged, [ExecutionNext]_executionVars PROVE Judged'
<1>1. CASE Validate
  BY <1>1 DEF Validate, Judged
<1>2. ASSUME NEW m \in Meants, NEW n, Ask(m, n) PROVE Judged'
  BY <1>2 DEF Ask, Judged
<1>3. ASSUME NEW answer, Execute(answer) PROVE Judged'
  BY <1>3 DEF Execute, Judged
<1>4. CASE CoerceRow
  <2>1. at = "coercing" /\ at' \in {"coercing", "refused"} /\ asked' = asked /\ sent' = sent
    BY <1>4 DEF CoerceRow, statement
  <2> QED BY <2>1 DEF Judged
<1>5. ASSUME NEW rs, StartRules(rs) PROVE Judged'
  <2>1. at' \in {"done", "evaluating"}
    BY <1>5 DEF StartRules
  <2> QED BY <2>1 DEF Judged
<1>6. CASE EvaluateRow
  BY <1>6 DEF EvaluateRow, statement, Judged
<1>7. CASE TallyRules
  BY <1>7 DEF TallyRules, Judged
<1>8. CASE Respond
  BY <1>8 DEF Respond, Judged
<1>9. CASE UNCHANGED executionVars
  BY <1>9 DEF executionVars, Judged
<1> QED BY <1>1, <1>2, <1>3, <1>4, <1>5, <1>6, <1>7, <1>8, <1>9 DEF ExecutionNext

\* The guard accepts exactly the plain reads that are short enough, whatever
\* their words, comments, semicolons and quotes, and the text the target
\* executes is one it accepts as it stands (validate_select: "Callers must
\* execute exactly what is returned").
THEOREM VerdictMatches == ExecutionSpec => []VerdictMatchesStatement
<1>1. ExecutionInit => Judged
  BY DEF ExecutionInit, Judged
<1>2. ASSUME Judged PROVE VerdictMatchesStatement
  <2> SUFFICES ASSUME at \in {"validated", "refused"}, sent # NotSent
               PROVE  /\ sent.code = "accepted" <=> PlainRead(asked) /\ Len(Written(asked)) <= MaxLength
                      /\ sent.code = "accepted" => Validated(sent.text) = sent
    BY DEF VerdictMatchesStatement
  <2>1. asked \in Statements /\ sent = Validated(Written(asked))
    BY <1>2, ExecutionAssumption DEF Judged
  <2>2. Written(asked) \in Seq(Vocabulary(asked) \cup {Semicolon, Comment})
    BY <2>1, WrittenIs
  <2>3. Validated(Written(asked)).code = "accepted" =>
          Validated(Validated(Written(asked)).text) = Validated(Written(asked))
    BY <2>2, GuardStands
  <2> QED BY <2>1, <2>3, VerdictMeant
<1>3. Judged /\ [ExecutionNext]_executionVars => Judged'
  BY JudgedStep
<1> QED BY <1>1, <1>2, <1>3, PTL DEF ExecutionSpec
=============================================================================
