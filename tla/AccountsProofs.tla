--------------------------- MODULE AccountsProofs ---------------------------
(***************************************************************************)
(* Accounts, for any number of accounts, sessions and requests.  A guarded *)
(* change holds two administrators until it commits, so one of them is     *)
(* left.  A column is written exactly when it is to differ from what was   *)
(* loaded, which is when the audit log is told: whatever overlapped, the   *)
(* log tells the row.  A commit of a password, or one that switches an     *)
(* account off, overtakes the requests that would open a session of it: a  *)
(* request that was not overtaken opens one for the account as it is.      *)
(***************************************************************************)
EXTENDS Accounts, TLAPS

\* Accounts are never deleted, so what a request or a session is about exists.
Existing ==
  /\ row[First] # None
  /\ \A t \in Threads : row[req[t].user] # None
  /\ \A s \in Tokens : sess[s] # None => row[sess[s]] # None

\* A password change knows the session it came with.
Restorable ==
  \A t \in Threads : req[t].at \in {"changing", "changed", "revoked"} => req[t].token \in Tokens

TInv == TypeOK /\ Existing /\ Restorable

-----------------------------------------------------------------------------

LEMMA Constants ==
  /\ First \in Users /\ None \notin Users /\ None \notin Tokens /\ None \notin Threads
  /\ None \notin Accounts /\ MaxFailedLogins \in Nat \ {0} /\ MaxRequests \in Nat
  /\ SignedIn \in [Tokens -> Users \cup {None}]
BY AccountsAssumption DEF Sessions

LEMMA ChosenType == \A role \in Roles : Chosen(role) \in Accounts
<1>1. 0 \in 0 .. MaxFailedLogins - 1
  BY Constants
<1> QED BY <1>1 DEF Chosen, Accounts

LEMMA IdleType == Idle \in Requests
<1>1. Chosen("admin") \in Accounts
  BY ChosenType DEF Roles
<1> QED BY <1>1, Constants DEF Idle, Requests, Stages

LEMMA ResetType ==
  ASSUME NEW a \in Accounts, made \in Nat
  PROVE  Reset(a) \in Accounts /\ Own(a) \in Accounts
<1>1. 0 \in 0 .. MaxFailedLogins - 1 /\ made + 1 \in Nat
  BY Constants
<1> DEFINE n == made + 1
<1> HIDE DEF n
<1>2. n \in Nat
  BY <1>1 DEF n
<1>3. [a EXCEPT !.hash = n, !.must = TRUE, !.temp = n, !.failed = 0, !.locked = "never"] \in Accounts
  BY <1>1, <1>2 DEF Accounts
<1>4. [a EXCEPT !.hash = n, !.must = FALSE, !.temp = 0] \in Accounts
  BY <1>2 DEF Accounts
<1> QED BY <1>3, <1>4 DEF Reset, Own, n

\* The bound on requests leaves begun in its range.
LEMMA BeginType ==
  ASSUME TypeOK, NEW t \in Threads, NEW r \in Requests, Begin(t, r)
  PROVE  begun' \in 0 .. MaxRequests /\ req' = [req EXCEPT ![t] = r] /\ req' \in [Threads -> Requests]
<1>1. begun' = begun + 1 /\ begun < MaxRequests /\ req' = [req EXCEPT ![t] = r]
  BY DEF Begin
<1>2. begun \in 0 .. MaxRequests /\ req \in [Threads -> Requests]
  BY DEF TypeOK
<1>3. begun' \in 0 .. MaxRequests
  BY <1>1, <1>2, Constants
<1> QED BY <1>1, <1>2, <1>3

LEMMA CountedType == ASSUME NEW a \in Accounts PROVE Counted(a) \in Accounts
<1>1. a.failed \in 0 .. MaxFailedLogins - 1
  BY DEF Accounts
<1>2. CASE a.failed + 1 >= MaxFailedLogins
  <2>1. 0 \in 0 .. MaxFailedLogins - 1
    BY Constants
  <2> QED BY <1>2, <2>1 DEF Counted, Accounts
<1>3. CASE ~(a.failed + 1 >= MaxFailedLogins)
  <2>1. a.failed + 1 \in 0 .. MaxFailedLogins - 1
    BY <1>1, <1>3, Constants
  <2> QED BY <1>3, <2>1 DEF Counted, Accounts
<1> QED BY <1>2, <1>3

LEMMA WrittenType ==
  ASSUME TypeOK, NEW r \in Requests, row[r.user] # None
  PROVE  Written(r) \in Accounts
<1>1. row[r.user] \in Accounts /\ r.loaded \in Accounts /\ r.want \in Accounts
  BY DEF TypeOK, Requests
<1> DEFINE now == row[r.user]
<1> HIDE DEF now
<1>2. now \in Accounts
  BY <1>1 DEF now
<1>3. /\ Column(r.loaded.role, r.want.role, now.role) \in Roles
      /\ Column(r.loaded.active, r.want.active, now.active) \in BOOLEAN
      /\ Column(r.loaded.hash, r.want.hash, now.hash) \in Nat
      /\ Column(r.loaded.must, r.want.must, now.must) \in BOOLEAN
      /\ Column(r.loaded.temp, r.want.temp, now.temp) \in Nat
      /\ Column(r.loaded.failed, r.want.failed, now.failed) \in 0 .. MaxFailedLogins - 1
      /\ Column(r.loaded.locked, r.want.locked, now.locked) \in {"never", "held", "past"}
  BY <1>1, <1>2 DEF Column, Accounts
<1> QED BY <1>3 DEF Written, Accounts, now

-----------------------------------------------------------------------------
(* Types.                                                                  *)

LEMMA TypeInit == Init => TInv
<1> SUFFICES ASSUME Init PROVE TInv
  OBVIOUS
<1>1. Chosen("analyst") \in Accounts /\ Chosen("admin") \in Accounts
  BY ChosenType DEF Roles
<1>2. row \in [Users -> Accounts \cup {None}] /\ row[First] # None
  BY <1>1, Constants DEF Init
<1>3. sess \in Sessions
  BY Constants DEF Init, Sessions
<1>4. trail \in [Users -> [role : Roles, active : BOOLEAN]]
  <2>1. \A u \in Users : row[u] # None => row[u].role \in Roles
    BY <1>2 DEF Accounts
  <2> QED BY <2>1 DEF Init, Roles
<1>5. req \in [Threads -> Requests]
  BY IdleType DEF Init
<1>6. TypeOK
  <2>1. begun \in 0 .. MaxRequests /\ made \in Nat /\ issued \subseteq Nat /\ proof \in [Tokens -> Nat]
    BY Constants DEF Init
  <2> QED BY <1>2, <1>3, <1>4, <1>5, <2>1, Constants DEF Init, TypeOK
<1>7. Existing
  BY <1>2, Constants DEF Init, Existing, Idle
<1>8. Restorable
  BY DEF Init, Restorable, Idle
<1> QED BY <1>6, <1>7, <1>8 DEF TInv

\* What Overlaps leaves of the requests.
LEMMA OverlapsType ==
  ASSUME TypeOK, NEW t \in Threads, NEW u \in Users, NEW r \in Requests, Overlaps(t, u, r)
  PROVE  /\ req' \in [Threads -> Requests]
         /\ req'[t] = r
         /\ \A x \in Threads \ {t} :
              /\ req'[x].user = req[x].user /\ req'[x].at = req[x].at
              /\ req'[x].loaded = req[x].loaded /\ req'[x].want = req[x].want
              /\ req'[x].token = req[x].token /\ req'[x].seen = req[x].seen
              /\ req'[x].late = (req[x].late \/ (req[x].user = u /\
                   req[x].at \in {"login", "verified", "changing", "changed", "revoked"}))
<1>1. \A x \in Threads : req[x] \in Requests /\ [req[x] EXCEPT !.late = TRUE] \in Requests
  BY DEF TypeOK, Requests
<1>2. req' \in [Threads -> Requests] /\ req'[t] = r
  BY <1>1 DEF Overlaps
<1>3. ASSUME NEW x \in Threads \ {t}
      PROVE  req'[x] = IF req[x].user = u /\ req[x].at \in {"login", "verified", "changing", "changed", "revoked"}
                         THEN [req[x] EXCEPT !.late = TRUE] ELSE req[x]
  BY <1>3 DEF Overlaps
<1>4. \A x \in Threads : req[x].late \in BOOLEAN
  BY <1>1 DEF Requests
<1> QED BY <1>1, <1>2, <1>3, <1>4 DEF Requests

\* A request becomes r, and nothing else changes but what is typed of its own.
LEMMA WithoutType == ASSUME TypeOK, NEW u \in Users PROVE
  /\ Without(u) \in Sessions
  /\ \A s \in Tokens : Without(u)[s] = (IF sess[s] = u THEN None ELSE sess[s])
BY DEF TypeOK, Sessions, Without

LEMMA RestorableStep == TInv /\ [Next]_vars => Restorable'
<1> SUFFICES ASSUME TInv, [Next]_vars PROVE Restorable'
  OBVIOUS
<1> USE DEF TInv
<1>t. \A t \in Threads : req[t] \in Requests
  BY DEF TypeOK
<1>i. Idle \in Requests /\ Idle.at = "idle"
  BY IdleType DEF Idle
<1>1. ASSUME NEW t \in Threads, NEW r \in Requests,
             r.at \in {"changing", "changed", "revoked"} => r.token \in Tokens,
             req' = [req EXCEPT ![t] = r] \/ \E u \in Users : Overlaps(t, u, r)
      PROVE  Restorable'
  <2>1. CASE req' = [req EXCEPT ![t] = r]
    BY <1>1, <2>1 DEF TypeOK, Restorable
  <2>2. CASE \E u \in Users : Overlaps(t, u, r)
    <3> PICK u \in Users : Overlaps(t, u, r)
      BY <2>2
    <3>1. req'[t] = r /\ \A x \in Threads \ {t} : req'[x].at = req[x].at /\ req'[x].token = req[x].token
      BY OverlapsType
    <3> QED BY <1>1, <3>1 DEF Restorable
  <2> QED BY <1>1, <2>1, <2>2
<1>2. ASSUME NEW t \in Threads, req' = [req EXCEPT ![t] = Idle] \/ \E u \in Users : Overlaps(t, u, Idle)
      PROVE  Restorable'
  BY <1>1, <1>2, <1>i
<1>3. CASE \E t \in Threads, s \in Tokens : Admit(t, s) \/ ChangeLoads(t, s)
  <2> PICK t \in Threads, s \in Tokens : Admit(t, s) \/ ChangeLoads(t, s)
    BY <1>3
  <2>1. sess[s] \in Users /\ row[sess[s]] \in Accounts
    BY Constants DEF Admit, ChangeLoads, Resolves, TypeOK, Existing, Sessions
  <2> DEFINE r == [Idle EXCEPT !.at = "admitted", !.user = sess[s],
                               !.loaded = row[sess[s]], !.want = row[sess[s]]]
             q == [Idle EXCEPT !.at = "changing", !.user = sess[s], !.loaded = row[sess[s]],
                               !.want = row[sess[s]], !.token = s]
  <2>2. r \in Requests /\ r.at = "admitted" /\ q \in Requests /\ q.token = s
    BY <2>1, <1>i DEF Requests, Stages
  <2>3. req' = [req EXCEPT ![t] = r] \/ req' = [req EXCEPT ![t] = q]
    BY DEF Admit, ChangeLoads, Begin
  <2> HIDE DEF r, q
  <2>4. CASE req' = [req EXCEPT ![t] = r]
    BY <1>1, <2>2, <2>4
  <2>5. CASE req' = [req EXCEPT ![t] = q]
    BY <1>1, <2>2, <2>5
  <2> QED BY <2>3, <2>4, <2>5
<1>4. ASSUME NEW t \in Threads, NEW u \in Users,
             \/ \E role \in Roles, active \in BOOLEAN : PatchLoads(t, u, role, active)
             \/ ResetLoads(t, u) \/ ConsoleResets(t, u) \/ LoginLoads(t, u)
      PROVE  Restorable'
  <2>1. \A at, a, w : [Idle EXCEPT !.at = at, !.user = u, !.loaded = a, !.want = w].at = at
    BY DEF Idle
  <2>2. \E at \in {"loaded", "guarded", "resetting", "login"} : \E a, w :
           req' = [req EXCEPT ![t] = [Idle EXCEPT !.at = at, !.user = u, !.loaded = a, !.want = w]]
    <3>1. CASE \E role \in Roles, active \in BOOLEAN : PatchLoads(t, u, role, active)
      BY <3>1 DEF PatchLoads
    <3>2. CASE ResetLoads(t, u)
      BY <3>2 DEF ResetLoads
    <3>3. CASE ConsoleResets(t, u)
      BY <3>3 DEF ConsoleResets, Begin
    <3>4. CASE LoginLoads(t, u)
      BY <3>4 DEF LoginLoads, Begin
    <3> QED BY <1>4, <3>1, <3>2, <3>3, <3>4
  <2>25. PICK at \in {"loaded", "guarded", "resetting", "login"} : \E a, w :
           req' = [req EXCEPT ![t] = [Idle EXCEPT !.at = at, !.user = u, !.loaded = a, !.want = w]]
    BY <2>2
  <2>3. PICK a, w :
           req' = [req EXCEPT ![t] = [Idle EXCEPT !.at = at, !.user = u, !.loaded = a, !.want = w]]
    BY <2>25
  <2> DEFINE r == [Idle EXCEPT !.at = at, !.user = u, !.loaded = a, !.want = w]
  <2>4. r.at = at /\ req' = [req EXCEPT ![t] = r]
    BY <2>1, <2>3
  <2> HIDE DEF r
  <2> QED BY <2>4 DEF TypeOK, Restorable
<1>5. ASSUME NEW t \in Threads, Finds(t) \/ Guard(t) \/ Refused(t)
      PROVE  Restorable'
  <2> DEFINE f == [req[t] EXCEPT !.at = "counting", !.seen = ActiveAdmins]
             g == [req[t] EXCEPT !.at = "guarded"]
  <2>1. f.at = "counting" /\ g.at = "guarded"
    BY <1>t DEF Requests
  <2>2. req' = [req EXCEPT ![t] = f] \/ req' = [req EXCEPT ![t] = g] \/ req' = [req EXCEPT ![t] = Idle]
    BY <1>5 DEF Finds, Guard, Refused
  <2> HIDE DEF f, g
  <2> QED BY <2>1, <2>2, <1>i DEF TypeOK, Restorable
<1>6. ASSUME NEW t \in Threads, PatchCommits(t) \/ ResetCommits(t)
      PROVE  Restorable'
  <2>1. req[t].user \in Users
    BY <1>t DEF Requests
  <2>2. CASE PatchCommits(t)
    BY <2>1, <2>2, <1>2 DEF PatchCommits
  <2>3. CASE ResetCommits(t)
    <3> DEFINE r == [req[t] EXCEPT !.want = Reset(req[t].loaded)]
    <3>1. r.user = req[t].user
      BY <1>t DEF Requests
    <3>2. Overlaps(t, r.user, Idle)
      BY <2>3 DEF ResetCommits, EndsSessions
    <3> QED BY <2>1, <3>1, <3>2, <1>2
  <2> QED BY <1>6, <2>2, <2>3
<1>7. ASSUME NEW t \in Threads, LoginSucceeds(t)
      PROVE  Restorable'
  <2> DEFINE r == [req[t] EXCEPT !.want = [req[t].loaded EXCEPT !.failed = 0, !.locked = "never"]]
             v == [r EXCEPT !.at = "verified"]
  <2>1. v.at = "verified"
    BY <1>t DEF Requests
  <2>2. req' = [req EXCEPT ![t] = v]
    BY <1>7 DEF LoginSucceeds
  <2> HIDE DEF v
  <2> QED BY <2>1, <2>2 DEF TypeOK, Restorable
<1>8. ASSUME NEW t \in Threads, ChangeCommits(t)
      PROVE  Restorable'
  <2> DEFINE r == [req[t] EXCEPT !.want = Own(req[t].loaded)]
             q == [r EXCEPT !.at = "changed"]
  <2>1. q \in Requests /\ q.token = req[t].token /\ r.user \in Users
    BY <1>t, ResetType DEF Requests, TypeOK, Stages
  <2>2. req[t].token \in Tokens /\ Overlaps(t, r.user, q)
    BY <1>8 DEF ChangeCommits, Restorable
  <2> HIDE DEF r, q
  <2> QED BY <2>1, <2>2, <1>1
<1>9. ASSUME NEW t \in Threads, ChangeRevokes(t)
      PROVE  Restorable'
  BY <1>9, <1>t DEF ChangeRevokes, Restorable, TypeOK, Requests
<1>10. ASSUME NEW s \in Tokens, Logout(s)
       PROVE  Restorable'
  BY <1>10, <1>t DEF Logout, Restorable, TypeOK, Requests
<1>11. CASE Crash
  BY <1>11, <1>i DEF Crash, Restorable
<1>12. CASE TimePasses \/ UNCHANGED vars
  BY <1>12 DEF TimePasses, vars, Restorable
<1>13. ASSUME NEW t \in Threads,
              \/ \E s \in Tokens : Issue(t, s)
              \/ \E u \in Users : CreateAdmin(t, u) \/ \E role \in Roles : CreateUser(t, u, role)
              \/ LoginFails(t) \/ ChangeRestores(t)
       PROVE  Restorable'
  BY <1>13, <1>2 DEF Issue, Open, CreateAdmin, Begin, CreateUser, LoginFails, ChangeRestores
<1> QED BY <1>3, <1>4, <1>5, <1>6, <1>7, <1>8, <1>9, <1>10, <1>11, <1>12, <1>13 DEF Next

LEMMA TypeStep == TInv /\ [Next]_vars => TInv'
<1> SUFFICES ASSUME TInv, [Next]_vars PROVE TypeOK' /\ Existing'
  BY RestorableStep DEF TInv
<1> USE DEF TInv
<1>t. \A t \in Threads : req[t] \in Requests /\ req[t].user \in Users
                          /\ req[t].loaded \in Accounts /\ req[t].want \in Accounts
                          /\ row[req[t].user] \in Accounts /\ row[req[t].user] # None
  BY DEF TypeOK, Requests, Existing
<1>u. \A s \in Tokens : sess[s] # None => sess[s] \in Users /\ row[sess[s]] \in Accounts
  BY DEF TypeOK, Existing, Sessions
<1>1. ASSUME NEW t \in Threads, NEW s \in Tokens, Admit(t, s) PROVE TypeOK' /\ Existing'
  <2>1. sess[s] \in Users /\ row[sess[s]] \in Accounts /\ row[sess[s]] # None
    BY <1>1, <1>u, Constants DEF Admit, Resolves
  <2>2. [Idle EXCEPT !.at = "admitted", !.user = sess[s],
                     !.loaded = row[sess[s]], !.want = row[sess[s]]] \in Requests
    BY <2>1, IdleType DEF Requests, Stages
  <2>3. req' \in [Threads -> Requests] /\ begun' \in 0 .. MaxRequests
    BY <1>1, <2>2, BeginType DEF Admit
  <2>4. \A x \in Threads : req'[x].user = req[x].user \/ req'[x].user = sess[s]
    BY <1>1, IdleType DEF Admit, Begin, TypeOK, Requests
  <2> QED BY <1>1, <2>1, <2>3, <2>4 DEF Admit, TypeOK, Existing, stored, history
<1>2. ASSUME NEW t \in Threads, NEW s \in Tokens, Issue(t, s) PROVE TypeOK' /\ Existing'
  BY <1>2, <1>t, IdleType, Constants DEF Issue, Open, TypeOK, Existing, Sessions, Accounts, Idle
<1>3. ASSUME NEW t \in Threads, NEW s \in Tokens, ChangeLoads(t, s) PROVE TypeOK' /\ Existing'
  <2>1. sess[s] \in Users /\ row[sess[s]] \in Accounts /\ row[sess[s]] # None
    BY <1>3, <1>u, Constants DEF ChangeLoads, Resolves
  <2>2. [Idle EXCEPT !.at = "changing", !.user = sess[s], !.loaded = row[sess[s]],
                     !.want = row[sess[s]], !.token = s] \in Requests
    BY <2>1, IdleType DEF Requests, Stages
  <2>3. req' \in [Threads -> Requests] /\ begun' \in 0 .. MaxRequests
    BY <1>3, <2>2, BeginType DEF ChangeLoads
  <2>4. \A x \in Threads : req'[x].user = req[x].user \/ req'[x].user = sess[s]
    BY <1>3, IdleType DEF ChangeLoads, Begin, TypeOK, Requests
  <2> QED BY <1>3, <2>1, <2>3, <2>4 DEF ChangeLoads, TypeOK, Existing, stored, history
<1>4. ASSUME NEW t \in Threads, NEW u \in Users, NEW role \in Roles, NEW active \in BOOLEAN,
             PatchLoads(t, u, role, active)
      PROVE  TypeOK' /\ Existing'
  <2> DEFINE a == Target(t, u)
             r == [Idle EXCEPT
                     !.at = IF IsActiveAdmin(a) /\ (role = "analyst" \/ ~active) THEN "loaded" ELSE "guarded",
                     !.user = u, !.loaded = a, !.want = [a EXCEPT !.role = role, !.active = active]]
  <2>1. a \in Accounts /\ row[u] # None
    BY <1>4, <1>t DEF PatchLoads, Target, TypeOK
  <2>2. [a EXCEPT !.role = role, !.active = active] \in Accounts
    BY <2>1 DEF Accounts
  <2>3. r \in Requests /\ r.user = u
    BY <2>1, <2>2, IdleType DEF Requests, Stages
  <2>4. req' = [req EXCEPT ![t] = r]
    BY <1>4 DEF PatchLoads
  <2> HIDE DEF r, a
  <2>5. req' \in [Threads -> Requests] /\ \A x \in Threads : row[req'[x].user] # None
    BY <2>1, <2>3, <2>4, <1>t DEF TypeOK
  <2> QED BY <1>4, <2>5 DEF PatchLoads, TypeOK, Existing, stored, history
<1>5. ASSUME NEW t \in Threads, NEW u \in Users, ResetLoads(t, u) \/ ConsoleResets(t, u) \/ LoginLoads(t, u)
      PROVE  TypeOK' /\ Existing'
  <2>1. PICK a \in Accounts, at \in Stages :
          /\ row[u] # None
          /\ req' = [req EXCEPT ![t] = [Idle EXCEPT !.at = at, !.user = u, !.loaded = a, !.want = a]]
          /\ begun' \in 0 .. MaxRequests
    <3>1. Target(t, u) \in Accounts \/ row[u] = None
      BY <1>t DEF Target, TypeOK
    <3>2. row[u] # None => row[u] \in Accounts
      BY DEF TypeOK
    <3>3. CASE ResetLoads(t, u)
      <4>1. "resetting" \in Stages /\ Target(t, u) \in Accounts /\ row[u] # None
        BY <3>1, <3>3 DEF ResetLoads, Stages
      <4>2. begun' \in 0 .. MaxRequests
        BY <3>3 DEF ResetLoads, TypeOK
      <4>3. req' = [req EXCEPT ![t] = [Idle EXCEPT !.at = "resetting", !.user = u,
                                          !.loaded = Target(t, u), !.want = Target(t, u)]]
        BY <3>3 DEF ResetLoads
      <4> QED BY <4>1, <4>2, <4>3
    <3>4. CASE ConsoleResets(t, u)
      <4>1. [Idle EXCEPT !.at = "resetting", !.user = u, !.loaded = row[u], !.want = row[u]] \in Requests
        BY <3>2, <3>4, IdleType DEF ConsoleResets, Requests, Stages
      <4>2. "resetting" \in Stages /\ row[u] \in Accounts /\ row[u] # None
        BY <3>2, <3>4 DEF ConsoleResets, Stages
      <4>3. Begin(t, [Idle EXCEPT !.at = "resetting", !.user = u, !.loaded = row[u], !.want = row[u]])
        BY <3>4 DEF ConsoleResets
      <4>4. /\ begun' \in 0 .. MaxRequests
            /\ req' = [req EXCEPT ![t] = [Idle EXCEPT !.at = "resetting", !.user = u,
                                             !.loaded = row[u], !.want = row[u]]]
        BY <4>1, <4>3, BeginType
      <4> QED BY <4>2, <4>4
    <3>5. CASE LoginLoads(t, u)
      <4>1. [Idle EXCEPT !.at = "login", !.user = u, !.loaded = row[u], !.want = row[u]] \in Requests
        BY <3>2, <3>5, IdleType DEF LoginLoads, Requests, Stages
      <4>2. "login" \in Stages /\ row[u] \in Accounts /\ row[u] # None
        BY <3>2, <3>5 DEF LoginLoads, Stages
      <4>3. Begin(t, [Idle EXCEPT !.at = "login", !.user = u, !.loaded = row[u], !.want = row[u]])
        BY <3>5 DEF LoginLoads
      <4>4. /\ begun' \in 0 .. MaxRequests
            /\ req' = [req EXCEPT ![t] = [Idle EXCEPT !.at = "login", !.user = u,
                                             !.loaded = row[u], !.want = row[u]]]
        BY <4>1, <4>3, BeginType
      <4> QED BY <4>2, <4>4
    <3> QED BY <1>5, <3>3, <3>4, <3>5
  <2> DEFINE r == [Idle EXCEPT !.at = at, !.user = u, !.loaded = a, !.want = a]
  <2>2. r \in Requests /\ r.user = u
    BY <2>1, IdleType DEF Requests
  <2> HIDE DEF r
  <2>3. req' \in [Threads -> Requests] /\ \A x \in Threads : row[req'[x].user] # None
    BY <2>1, <2>2, <1>t DEF TypeOK, r
  <2> QED BY <1>5, <2>1, <2>3 DEF ResetLoads, ConsoleResets, LoginLoads, TypeOK, Existing, stored, history
<1>6. ASSUME NEW t \in Threads, NEW u \in Users, CreateAdmin(t, u) PROVE TypeOK' /\ Existing'
  <2>1. [Chosen("admin") EXCEPT !.hash = made + 1] \in Accounts
    BY ChosenType DEF Roles, Accounts, TypeOK
  <2>2. row' \in [Users -> Accounts \cup {None}] /\ made' \in Nat
        /\ \A x \in Users : row[x] # None => row'[x] # None
    BY <1>6, <2>1 DEF CreateAdmin, TypeOK
  <2>3. req' \in [Threads -> Requests] /\ begun' \in 0 .. MaxRequests
        /\ \A x \in Threads : req'[x].user \in {req[x].user, First}
    <3>1. Begin(t, Idle) /\ Idle.user = First
      BY <1>6 DEF CreateAdmin, Idle
    <3> QED BY <3>1, IdleType, BeginType DEF TypeOK
  <2>4. trail' \in [Users -> [role : Roles, active : BOOLEAN]]
    BY <1>6 DEF CreateAdmin, TypeOK, Roles
  <2>5. TypeOK'
    BY <1>6, <2>2, <2>3, <2>4 DEF CreateAdmin, TypeOK
  <2>6. Existing'
    <3>1. \A x \in Threads : row'[req'[x].user] # None
      BY <2>2, <2>3, <1>t, Constants DEF Existing
    <3>2. \A s \in Tokens : sess'[s] # None => row'[sess'[s]] # None
      BY <1>6, <2>2, <1>u DEF CreateAdmin, Existing
    <3> QED BY <2>2, <3>1, <3>2, Constants DEF Existing
  <2> QED BY <2>5, <2>6
<1>7. ASSUME NEW t \in Threads, NEW u \in Users, NEW role \in Roles, CreateUser(t, u, role) PROVE TypeOK' /\ Existing'
  <2>1. Reset(Chosen(role)) \in Accounts
    BY ChosenType, ResetType DEF TypeOK
  <2>2. row' \in [Users -> Accounts \cup {None}] /\ made' \in Nat
        /\ \A x \in Users : row[x] # None => row'[x] # None
    BY <1>7, <2>1, Constants DEF CreateUser, TypeOK
  <2>3. req' \in [Threads -> Requests]
        /\ \A x \in Threads : req'[x].user \in {req[x].user, First}
    BY <1>7, IdleType DEF CreateUser, TypeOK, Idle
  <2>4. trail' \in [Users -> [role : Roles, active : BOOLEAN]]
    BY <1>7 DEF CreateUser, TypeOK
  <2>5. TypeOK'
    BY <1>7, <2>2, <2>3, <2>4 DEF CreateUser, TypeOK
  <2>6. Existing'
    <3>1. \A x \in Threads : row'[req'[x].user] # None
      BY <2>2, <2>3, <1>t, Constants DEF Existing
    <3>2. \A s \in Tokens : sess'[s] # None => row'[sess'[s]] # None
      BY <1>7, <2>2, <1>u DEF CreateUser, Existing
    <3> QED BY <2>2, <3>1, <3>2, Constants DEF Existing
  <2> QED BY <2>5, <2>6
<1>8. ASSUME NEW t \in Threads, Finds(t) \/ Guard(t) \/ Refused(t) PROVE TypeOK' /\ Existing'
  <2>1. ActiveAdmins \subseteq Users
    BY DEF ActiveAdmins
  <2>2. req' \in [Threads -> Requests] /\ \A x \in Threads : req'[x].user \in {req[x].user, First}
    <3>1. [req[t] EXCEPT !.at = "counting", !.seen = ActiveAdmins] \in Requests
          /\ [req[t] EXCEPT !.at = "guarded"] \in Requests
      BY <1>t, <2>1 DEF Requests, Stages
    <3> DEFINE f == [req[t] EXCEPT !.at = "counting", !.seen = ActiveAdmins]
               g == [req[t] EXCEPT !.at = "guarded"]
    <3>2. f.user = req[t].user /\ g.user = req[t].user /\ Idle.user = First
      BY <1>t DEF Requests, Idle
    <3>3. req' = [req EXCEPT ![t] = f] \/ req' = [req EXCEPT ![t] = g] \/ req' = [req EXCEPT ![t] = Idle]
      BY <1>8 DEF Finds, Guard, Refused
    <3>4. f \in Requests /\ g \in Requests /\ Idle \in Requests
      BY <3>1, IdleType
    <3> HIDE DEF f, g
    <3> QED BY <3>2, <3>3, <3>4 DEF TypeOK
  <2>3. lock' \in [Users -> Threads \cup {None}]
    BY <1>8 DEF Finds, Guard, Refused, Locks, Unlocked, TypeOK
  <2> QED BY <1>8, <2>2, <2>3, <1>t DEF Finds, Guard, Refused, TypeOK, Existing, stored, history
<1>9. ASSUME NEW t \in Threads, PatchCommits(t) PROVE TypeOK' /\ Existing'
  <2> DEFINE r == req[t]
  <2>1. Written(r) \in Accounts /\ r \in Requests /\ r.user \in Users
    BY <1>t, WrittenType
  <2>2. row' = [row EXCEPT ![r.user] = Written(r)] /\ trail' = [trail EXCEPT ![r.user] = Trail(r)]
    BY <1>9 DEF PatchCommits
  <2>3. row' \in [Users -> Accounts \cup {None}] /\ \A x \in Users : row[x] # None => row'[x] # None
    BY <2>1, <2>2, Constants DEF TypeOK
  <2>4. Trail(r) \in [role : Roles, active : BOOLEAN]
    BY <1>t, <2>1 DEF Trail, Column, TypeOK, Accounts
  <2>5. trail' \in [Users -> [role : Roles, active : BOOLEAN]]
    BY <2>2, <2>4 DEF TypeOK
  <2>6. sess' \in Sessions /\ \A s \in Tokens : sess'[s] \in {sess[s], None}
    <3>1. sess' = Without(r.user) \/ sess' = sess
      BY <1>9 DEF PatchCommits
    <3> QED BY <3>1, <2>1, WithoutType DEF TypeOK
  <2>7. req' \in [Threads -> Requests] /\ \A x \in Threads : req'[x].user \in {req[x].user, First}
    <3>1. CASE Overlaps(t, r.user, Idle)
      BY <3>1, <2>1, IdleType, OverlapsType DEF Idle
    <3>2. CASE req' = [req EXCEPT ![t] = Idle]
      BY <3>2, IdleType DEF TypeOK, Idle
    <3> QED BY <1>9, <3>1, <3>2 DEF PatchCommits
  <2>8. lock' \in [Users -> Threads \cup {None}] /\ raced' \in BOOLEAN
    BY <1>9 DEF PatchCommits, Unlocked, TypeOK
  <2>9. TypeOK'
    BY <1>9, <2>3, <2>5, <2>6, <2>7, <2>8 DEF PatchCommits, TypeOK
  <2>10. Existing'
    BY <2>3, <2>6, <2>7, <1>t, <1>u, Constants DEF Existing
  <2> QED BY <2>9, <2>10
<1>10. ASSUME NEW t \in Threads, ResetCommits(t) PROVE TypeOK' /\ Existing'
  <2> DEFINE r == [req[t] EXCEPT !.want = Reset(req[t].loaded)]
  <2>1. r \in Requests /\ r.user = req[t].user /\ r.user \in Users
    BY <1>t, ResetType DEF Requests, TypeOK
  <2>2. Written(r) \in Accounts
    BY <2>1, <1>t, WrittenType
  <2>3. row' = [row EXCEPT ![r.user] = Written(r)] /\ EndsSessions(t, r)
    BY <1>10 DEF ResetCommits
  <2> HIDE DEF r
  <2>4. row' \in [Users -> Accounts \cup {None}] /\ \A x \in Users : row[x] # None => row'[x] # None
    BY <2>1, <2>2, <2>3, Constants DEF TypeOK
  <2>5. sess' \in Sessions /\ \A s \in Tokens : sess'[s] \in {sess[s], None}
    BY <2>1, <2>3, WithoutType DEF EndsSessions
  <2>6. req' \in [Threads -> Requests] /\ \A x \in Threads : req'[x].user \in {req[x].user, First}
    BY <2>1, <2>3, IdleType, OverlapsType DEF EndsSessions, Idle
  <2>7. mixed' \subseteq Users /\ made' \in Nat /\ issued' \subseteq Nat
    BY <1>10, <2>1 DEF ResetCommits, Mixed, TypeOK, r
  <2>8. TypeOK'
    BY <1>10, <2>4, <2>5, <2>6, <2>7 DEF ResetCommits, TypeOK
  <2>9. Existing'
    BY <2>4, <2>5, <2>6, <1>t, <1>u, Constants DEF Existing
  <2> QED BY <2>8, <2>9
<1>11. ASSUME NEW t \in Threads, LoginFails(t) PROVE TypeOK' /\ Existing'
  <2> DEFINE r == [req[t] EXCEPT !.want = Counted(req[t].loaded)]
  <2>1. r \in Requests /\ r.user = req[t].user /\ r.user \in Users
    BY <1>t, CountedType DEF Requests
  <2>2. Written(r) \in Accounts
    BY <2>1, <1>t, WrittenType
  <2>3. row' = [row EXCEPT ![r.user] = Written(r)]
    BY <1>11 DEF LoginFails
  <2> HIDE DEF r
  <2>4. row' \in [Users -> Accounts \cup {None}] /\ \A x \in Users : row[x] # None => row'[x] # None
    BY <2>1, <2>2, <2>3, Constants DEF TypeOK
  <2>6. req' \in [Threads -> Requests] /\ \A x \in Threads : req'[x].user \in {req[x].user, First}
    BY <1>11, IdleType DEF LoginFails, TypeOK, Idle
  <2>8. TypeOK'
    BY <1>11, <2>4, <2>6 DEF LoginFails, TypeOK, history
  <2>9. Existing'
    BY <1>11, <2>4, <2>6, <1>t, <1>u, Constants DEF LoginFails, Existing
  <2> QED BY <2>8, <2>9
<1>12. ASSUME NEW t \in Threads, LoginSucceeds(t) PROVE TypeOK' /\ Existing'
  <2> DEFINE w == [req[t].loaded EXCEPT !.failed = 0, !.locked = "never"]
             r == [req[t] EXCEPT !.want = w]
  <2>0. w \in Accounts
    <3>1. 0 \in 0 .. MaxFailedLogins - 1
      BY Constants
    <3> QED BY <1>t, <3>1 DEF Accounts
  <2>1. r \in Requests /\ r.user = req[t].user /\ r.user \in Users /\ [r EXCEPT !.at = "verified"] \in Requests
    BY <1>t, <2>0 DEF Requests, Stages
  <2>2. Written(r) \in Accounts
    BY <2>1, <1>t, WrittenType
  <2>3. row' = [row EXCEPT ![r.user] = Written(r)] /\ req' = [req EXCEPT ![t] = [r EXCEPT !.at = "verified"]]
    BY <1>12 DEF LoginSucceeds
  <2>6. req' \in [Threads -> Requests] /\ \A x \in Threads : req'[x].user = req[x].user
    BY <2>1, <2>3, <1>t DEF TypeOK, Requests
  <2> HIDE DEF r
  <2>4. row' \in [Users -> Accounts \cup {None}] /\ \A x \in Users : row[x] # None => row'[x] # None
    BY <2>1, <2>2, <2>3, Constants DEF TypeOK
  <2>5. sess' \in Sessions /\ \A s \in Tokens : sess'[s] \in {sess[s], None}
    BY <1>12 DEF LoginSucceeds, Purged, TypeOK, Sessions
  <2>8. TypeOK'
    BY <1>12, <2>4, <2>5, <2>6 DEF LoginSucceeds, TypeOK, history
  <2>9. Existing'
    BY <2>4, <2>5, <2>6, <1>t, <1>u, Constants DEF Existing
  <2> QED BY <2>8, <2>9
<1>13. ASSUME NEW t \in Threads, ChangeCommits(t) PROVE TypeOK' /\ Existing'
  <2> DEFINE r == [req[t] EXCEPT !.want = Own(req[t].loaded)]
  <2>1. r \in Requests /\ r.user = req[t].user /\ r.user \in Users /\ [r EXCEPT !.at = "changed"] \in Requests
        /\ [r EXCEPT !.at = "changed"].user = req[t].user
    BY <1>t, ResetType DEF Requests, TypeOK, Stages
  <2>2. Written(r) \in Accounts
    BY <2>1, <1>t, WrittenType
  <2>3. row' = [row EXCEPT ![r.user] = Written(r)] /\ Overlaps(t, r.user, [r EXCEPT !.at = "changed"])
    BY <1>13 DEF ChangeCommits
  <2>6. req' \in [Threads -> Requests] /\ \A x \in Threads : req'[x].user = req[x].user
    <3>1. /\ req' \in [Threads -> Requests] /\ req'[t] = [r EXCEPT !.at = "changed"]
          /\ \A x \in Threads \ {t} : req'[x].user = req[x].user
      <4> HIDE DEF r
      <4> QED BY <2>1, <2>3, OverlapsType
    <3> QED BY <3>1, <2>1
  <2> HIDE DEF r
  <2>4. row' \in [Users -> Accounts \cup {None}] /\ \A x \in Users : row[x] # None => row'[x] # None
    BY <2>1, <2>2, <2>3, Constants DEF TypeOK
  <2>7. mixed' \subseteq Users /\ made' \in Nat
    BY <1>13, <2>1 DEF ChangeCommits, Mixed, TypeOK, r
  <2>8. TypeOK'
    BY <1>13, <2>4, <2>6, <2>7 DEF ChangeCommits, TypeOK
  <2>9. Existing'
    BY <1>13, <2>4, <2>6, <1>t, <1>u, Constants DEF ChangeCommits, Existing
  <2> QED BY <2>8, <2>9
<1>14. ASSUME NEW t \in Threads, ChangeRevokes(t) PROVE TypeOK' /\ Existing'
  <2>1. [req[t] EXCEPT !.at = "revoked"] \in Requests
    BY <1>t DEF Requests, Stages
  <2>2. req' \in [Threads -> Requests] /\ \A x \in Threads : req'[x].user = req[x].user
    BY <1>14, <2>1, <1>t DEF ChangeRevokes, TypeOK, Requests
  <2>3. sess' \in Sessions /\ \A s \in Tokens : sess'[s] \in {sess[s], None}
    BY <1>14, <1>t, WithoutType DEF ChangeRevokes
  <2> QED BY <1>14, <2>2, <2>3, <1>t DEF ChangeRevokes, TypeOK, Existing, history
<1>15. ASSUME NEW t \in Threads, ChangeRestores(t) PROVE TypeOK' /\ Existing'
  <2>1. req[t].token \in Tokens
    BY <1>15 DEF ChangeRestores, Restorable
  <2> QED BY <1>15, <2>1, <1>t, IdleType, Constants
      DEF ChangeRestores, Open, TypeOK, Existing, Sessions, Accounts, Idle
<1>16. ASSUME NEW s \in Tokens, Logout(s) PROVE TypeOK' /\ Existing'
  <2>1. \A x \in Threads : [req[x] EXCEPT !.late = TRUE] \in Requests
    BY <1>t DEF Requests
  <2>2. req' \in [Threads -> Requests] /\ \A x \in Threads : req'[x].user = req[x].user
    BY <1>16, <2>1, <1>t DEF Logout, TypeOK, Requests
  <2>3. sess' \in Sessions /\ \A x \in Tokens : sess'[x] \in {sess[x], None}
    BY <1>16 DEF Logout, TypeOK, Sessions
  <2> QED BY <1>16, <2>2, <2>3, <1>t DEF Logout, TypeOK, Existing
<1>17. CASE Crash
  BY <1>17, <1>t, IdleType, Constants DEF Crash, TypeOK, Existing, stored, Idle
<1>18. CASE TimePasses
  <2>1. row' \in [Users -> Accounts \cup {None}] /\ \A x \in Users : row[x] # None => row'[x] # None
    <3>1. \A u \in Users : row[u] # None => [row[u] EXCEPT !.locked = "past"] \in Accounts
      BY DEF TypeOK, Accounts
    <3> QED BY <1>18, <3>1, Constants DEF TimePasses, Lapse, TypeOK
  <2>2. over' \subseteq Tokens
    BY <1>18 DEF TimePasses, Lapse, TypeOK
  <2> QED BY <1>18, <2>1, <2>2, <1>t, <1>u, Constants DEF TimePasses, TypeOK, Existing, history
<1>19. CASE UNCHANGED vars
  BY <1>19 DEF vars, stored, history, TypeOK, Existing
<1> QED BY <1>1, <1>2, <1>3, <1>4, <1>5, <1>6, <1>7, <1>8, <1>9, <1>10, <1>11, <1>12, <1>13,
           <1>14, <1>15, <1>16, <1>17, <1>18, <1>19 DEF Next

\* Types hold.
THEOREM TypesHold == Spec => []TypeOK
<1>1. TInv => TypeOK
  BY DEF TInv
<1> QED BY TypeInit, TypeStep, <1>1, PTL DEF Spec

-----------------------------------------------------------------------------
(* An administrator remains.                                               *)

\* The change would leave its target, loaded as an active administrator, none.
Demotes(r) == IsActiveAdmin(r.loaded) /\ ~(r.want.role = "admin" /\ r.want.active)

\* Locked rows are active administrators', and a change that passed the guard
\* holds two of them, of which its target is at most one.
Held ==
  /\ \A u \in Users : lock[u] # None => IsActiveAdmin(row[u])
  /\ \A t \in Threads : req[t].at = "guarded" /\ Demotes(req[t]) =>
       \E u, v \in Users : u # v /\ lock[u] = t /\ lock[v] = t

AInv == TInv /\ Held /\ AdminRemains

\* Administrators stay, and so do the locks of a guarded change while it lasts.
LEMMA HeldStep ==
  ASSUME Held, AdminRemains, raced => raced',
         \A u \in Users : IsActiveAdmin(row[u]) => IsActiveAdmin(row'[u]),
         \A u \in Users : \/ lock'[u] = lock[u]
                          \/ lock'[u] = None /\ \A x \in Threads : lock[u] = x => req'[x].at # "guarded",
         \A t \in Threads : req'[t].at = "guarded" =>
           \/ ~Demotes(req'[t])
           \/ req[t].at = "guarded" /\ req'[t].loaded = req[t].loaded /\ req'[t].want = req[t].want
  PROVE  Held' /\ AdminRemains'
<1>1. \A u \in Users : lock'[u] # None => IsActiveAdmin(row'[u])
  BY DEF Held
<1>2. ASSUME NEW t \in Threads, req'[t].at = "guarded", Demotes(req'[t])
      PROVE  \E u, v \in Users : u # v /\ lock'[u] = t /\ lock'[v] = t
  <2>1. req[t].at = "guarded" /\ Demotes(req[t])
    BY <1>2 DEF Demotes
  <2>2. PICK u \in Users, v \in Users : u # v /\ lock[u] = t /\ lock[v] = t
    BY <2>1 DEF Held
  <2> QED BY <1>2, <2>2
<1>3. AdminRemains'
  BY DEF AdminRemains, ActiveAdmins, IsActiveAdmin
<1> QED BY <1>1, <1>2, <1>3 DEF Held, Demotes, IsActiveAdmin

\* The thread's new request is not a guarded change.
LEMMA PassesHeld ==
  ASSUME TInv, Held, AdminRemains, UNCHANGED <<lock, raced>>, NEW t \in Threads, NEW r,
         r.at # "guarded", req' = [req EXCEPT ![t] = r],
         \A u \in Users : IsActiveAdmin(row[u]) => IsActiveAdmin(row'[u])
  PROVE  Held' /\ AdminRemains'
<1>1. \A x \in Threads : req'[x].at = "guarded" => req'[x] = req[x]
  BY DEF TInv, TypeOK
<1> QED BY <1>1, HeldStep

\* The other requests are marked late at most.
LEMMA OverlapsHeld ==
  ASSUME TInv, NEW t \in Threads, NEW u, NEW r, r.at # "guarded", Overlaps(t, u, r)
  PROVE  /\ req'[t] = r
         /\ \A x \in Threads : req'[x].at = "guarded" =>
              req[x].at = "guarded" /\ req'[x].loaded = req[x].loaded /\ req'[x].want = req[x].want
<1>1. \A x \in Threads : \/ x = t /\ req'[x] = r
                         \/ x # t /\ req'[x] = req[x]
                         \/ x # t /\ req'[x] = [req[x] EXCEPT !.late = TRUE]
  BY DEF Overlaps
<1>2. req'[t] = r
  BY DEF Overlaps
<1>3. \A x \in Threads : LET l == [req[x] EXCEPT !.late = TRUE]
                         IN  l.at = req[x].at /\ l.loaded = req[x].loaded /\ l.want = req[x].want
  BY DEF TInv, TypeOK, Requests
<1> QED BY <1>1, <1>2, <1>3

\* The role and the state of every account stay.
Same == \A u \in Users : /\ row[u] # None <=> row'[u] # None
                         /\ row'[u].role = row[u].role /\ row'[u].active = row[u].active

\* What does not mean to change the role or the state does not.
LEMMA WrittenKeeps ==
  ASSUME TypeOK, NEW r \in Requests, row[r.user] # None,
         r.want.role = r.loaded.role, r.want.active = r.loaded.active,
         row' = [row EXCEPT ![r.user] = Written(r)]
  PROVE  Same
<1> DEFINE now == row[r.user]
           new == Written(r)
<1>1. new.role = Column(r.loaded.role, r.want.role, now.role)
      /\ new.active = Column(r.loaded.active, r.want.active, now.active)
  BY DEF Written
<1>2. new \in Accounts
  BY WrittenType
<1>3. now \in Accounts /\ r.user \in Users /\ now # None
  BY DEF TypeOK, Requests
<1>4. new # None
  BY <1>2, Constants
<1>6. row' = [row EXCEPT ![r.user] = new] /\ row[r.user] = now
  OBVIOUS
<1> HIDE DEF now, new
<1>5. new.role = now.role /\ new.active = now.active
  BY <1>1 DEF Column
<1> QED BY <1>3, <1>4, <1>5, <1>6 DEF TypeOK, Same

\* The guard locks administrators, and two of them if it lets a change pass.
LEMMA GuardHeld ==
  ASSUME TInv, Held, AdminRemains, NEW t \in Threads, Guard(t)
  PROVE  Held' /\ AdminRemains'
<1> DEFINE locked == req[t].seen \cap ActiveAdmins
<1>t. req \in [Threads -> Requests] /\ lock \in [Users -> Threads \cup {None}] /\ req[t] \in Requests
  BY DEF TInv, TypeOK
<1>u. UNCHANGED <<row, raced>> /\ req[t].at = "counting" /\ \A u \in req[t].seen : Free(t, u)
  BY DEF Guard, stored, history
<1>1. CASE /\ \E u, v \in locked : u # v
           /\ Locks(t, locked)
           /\ req' = [req EXCEPT ![t] = [req[t] EXCEPT !.at = "guarded"]]
  <2>1. \A u \in Users : lock'[u] = IF u \in locked THEN t ELSE lock[u]
    BY <1>1 DEF Locks
  <2>2. \A u \in locked : u \in Users /\ IsActiveAdmin(row[u]) /\ lock[u] \in {None, t}
    BY <1>u DEF ActiveAdmins, Free
  <2> HIDE DEF locked
  <2>3. \A u \in Users : lock'[u] # None => IsActiveAdmin(row'[u])
    BY <1>u, <2>1, <2>2 DEF Held
  <2>4. ASSUME NEW x \in Threads, req'[x].at = "guarded", Demotes(req'[x])
        PROVE  \E u, v \in Users : u # v /\ lock'[u] = x /\ lock'[v] = x
    <3>1. CASE x = t
      BY <1>1, <2>1, <2>2, <3>1
    <3>2. CASE x # t
      <4>1. req'[x] = req[x]
        BY <1>1, <1>t, <3>2
      <4>2. PICK u \in Users, v \in Users : u # v /\ lock[u] = x /\ lock[v] = x
        BY <2>4, <4>1 DEF Held
      <4>3. x # None
        BY Constants
      <4> QED BY <2>1, <2>2, <3>2, <4>2, <4>3
    <3> QED BY <3>1, <3>2
  <2>5. AdminRemains'
    BY <1>u DEF AdminRemains, ActiveAdmins
  <2> QED BY <2>3, <2>4, <2>5 DEF Held, Demotes, IsActiveAdmin
<1>2. CASE req' = [req EXCEPT ![t] = Idle] /\ UNCHANGED lock
  BY <1>2, <1>u, PassesHeld DEF Idle
<1> QED BY <1>1, <1>2 DEF Guard

\* A change that takes an administrator away held one more, which nobody else
\* has written; the locks of the others stay.
LEMMA PatchHeld ==
  ASSUME TInv, Held, AdminRemains, NEW t \in Threads, PatchCommits(t)
  PROVE  Held' /\ AdminRemains'
<1> DEFINE r == req[t]
           now == row[r.user]
           new == Written(r)
<1>t. req \in [Threads -> Requests] /\ lock \in [Users -> Threads \cup {None}] /\ r \in Requests
      /\ row \in [Users -> Accounts \cup {None}] /\ raced \in BOOLEAN
      /\ r.user \in Users /\ now # None /\ now \in Accounts
  BY DEF TInv, TypeOK, Existing, Requests
<1>1. r.at = "guarded" /\ Free(t, r.user) /\ row' = [row EXCEPT ![r.user] = new] /\ lock' = Unlocked(t)
  BY DEF PatchCommits
<1>2. \A x \in Threads : req'[x].at = "guarded" =>
        x # t /\ req[x].at = "guarded" /\ req'[x].loaded = req[x].loaded /\ req'[x].want = req[x].want
  <2>1. Idle.at # "guarded"
    BY DEF Idle
  <2>2. CASE Overlaps(t, r.user, Idle)
    BY <2>1, <2>2, OverlapsHeld
  <2>3. CASE req' = [req EXCEPT ![t] = Idle]
    BY <2>1, <2>3, <1>t
  <2> QED BY <2>2, <2>3 DEF PatchCommits
<1>3. \A u \in Users : lock'[u] # None => lock'[u] = lock[u] /\ u # r.user
  BY <1>1, <1>t DEF Unlocked, Free
<1>4. \A u \in Users \ {r.user} : row'[u] = row[u]
  BY <1>1, <1>t
<1>5. \A u \in Users : lock'[u] # None => IsActiveAdmin(row'[u])
  BY <1>3, <1>4 DEF Held
<1>6. ASSUME NEW x \in Threads, req'[x].at = "guarded", Demotes(req'[x])
      PROVE  \E u, v \in Users : u # v /\ lock'[u] = x /\ lock'[v] = x
  <2>1. x # t /\ req[x].at = "guarded" /\ Demotes(req[x])
    BY <1>2, <1>6 DEF Demotes
  <2>2. PICK u \in Users, v \in Users : u # v /\ lock[u] = x /\ lock[v] = x
    BY <2>1 DEF Held
  <2> QED BY <1>1, <2>1, <2>2 DEF Unlocked
<1>7. AdminRemains'
  <2>0. raced => raced'
    BY DEF PatchCommits
  <2>1. CASE Demotes(r)
    <3>1. PICK u \in Users, v \in Users : u # v /\ lock[u] = t /\ lock[v] = t
      BY <1>1, <2>1 DEF Held
    <3>2. PICK w \in Users : w # r.user /\ lock[w] = t
      BY <3>1
    <3>3. IsActiveAdmin(row'[w])
      BY <1>4, <3>2, Constants DEF Held
    <3> QED BY <3>2, <3>3 DEF AdminRemains, ActiveAdmins
  <2>2. CASE ~Demotes(r) /\ IsActiveAdmin(r.loaded)
    <3>1. r.loaded.role = "admin" /\ r.loaded.active /\ r.want.role = "admin" /\ r.want.active
      BY <2>2 DEF Demotes, IsActiveAdmin
    <3>2. r.loaded.active \in BOOLEAN /\ r.want.active \in BOOLEAN
      BY <1>t DEF Requests, Accounts
    <3>3. r.want.role = r.loaded.role /\ r.want.active = r.loaded.active
      BY <3>1, <3>2
    <3>4. \A u \in Users : IsActiveAdmin(row[u]) => IsActiveAdmin(row'[u])
      BY <1>1, <1>t, <3>3, WrittenKeeps DEF TInv, Same, IsActiveAdmin
    <3> QED BY <2>0, <3>4 DEF AdminRemains, ActiveAdmins
  <2>3. CASE ~IsActiveAdmin(r.loaded)
    <3>1. raced' = (raced \/ (IsActiveAdmin(now) /\ ~IsActiveAdmin(r.loaded) /\ ~IsActiveAdmin(new)))
      BY DEF PatchCommits
    <3>2. row'[r.user] = new
      BY <1>1, <1>t
    <3> HIDE DEF r, new, now
    <3>3. CASE IsActiveAdmin(now) /\ ~IsActiveAdmin(new)
      BY <2>3, <3>1, <3>3 DEF AdminRemains
    <3>4. CASE ~IsActiveAdmin(now) \/ IsActiveAdmin(new)
      <4>1. \A u \in Users : IsActiveAdmin(row[u]) => IsActiveAdmin(row'[u])
        BY <1>4, <3>2, <3>4 DEF now
      <4> QED BY <2>0, <4>1 DEF AdminRemains, ActiveAdmins
    <3> QED BY <3>3, <3>4
  <2> QED BY <2>1, <2>2, <2>3
<1> QED BY <1>5, <1>6, <1>7 DEF Held, Demotes, IsActiveAdmin

LEMMA ResetKeeps ==
  ASSUME NEW a \in Accounts
  PROVE  Reset(a).role = a.role /\ Reset(a).active = a.active
BY DEF Reset, Accounts

LEMMA OwnKeeps ==
  ASSUME NEW a \in Accounts
  PROVE  Own(a).role = a.role /\ Own(a).active = a.active
BY DEF Own, Accounts

LEMMA CountedKeeps ==
  ASSUME NEW a \in Accounts
  PROVE  Counted(a).role = a.role /\ Counted(a).active = a.active
<1>1. CASE a.failed + 1 >= MaxFailedLogins
  BY <1>1 DEF Counted, Accounts
<1>2. CASE ~(a.failed + 1 >= MaxFailedLogins)
  BY <1>2 DEF Counted, Accounts
<1> QED BY <1>1, <1>2

\* Nobody but update_user means to change them.
LEMMA WritesKeep ==
  ASSUME TInv, NEW t \in Threads,
         ResetCommits(t) \/ ChangeCommits(t) \/ LoginFails(t) \/ LoginSucceeds(t)
  PROVE  Same
<1>r. req[t] \in Requests /\ req[t].loaded \in Accounts /\ row[req[t].user] # None /\ made \in Nat
  BY DEF TInv, TypeOK, Existing, Requests
<1>1. ASSUME NEW w \in Accounts, w.role = req[t].loaded.role, w.active = req[t].loaded.active,
             row' = [row EXCEPT ![[req[t] EXCEPT !.want = w].user] = Written([req[t] EXCEPT !.want = w])]
      PROVE  Same
  <2> DEFINE r == [req[t] EXCEPT !.want = w]
  <2>1. r \in Requests /\ r.user = req[t].user /\ r.loaded = req[t].loaded /\ r.want = w
    BY <1>r DEF Requests
  <2>2. row' = [row EXCEPT ![r.user] = Written(r)]
    BY <1>1
  <2> HIDE DEF r
  <2> QED BY <1>1, <1>r, <2>1, <2>2, WrittenKeeps DEF TInv
<1>2. CASE ResetCommits(t)
  BY <1>1, <1>2, <1>r, ResetType, ResetKeeps DEF ResetCommits
<1>3. CASE ChangeCommits(t)
  BY <1>1, <1>3, <1>r, ResetType, OwnKeeps DEF ChangeCommits
<1>4. CASE LoginFails(t)
  BY <1>1, <1>4, <1>r, CountedType, CountedKeeps DEF LoginFails
<1>5. CASE LoginSucceeds(t)
  <2> DEFINE w == [req[t].loaded EXCEPT !.failed = 0, !.locked = "never"]
  <2>1. w \in Accounts /\ w.role = req[t].loaded.role /\ w.active = req[t].loaded.active
    <3>1. 0 \in 0 .. MaxFailedLogins - 1
      BY Constants
    <3> QED BY <1>r, <3>1 DEF Accounts
  <2>2. row' = [row EXCEPT ![[req[t] EXCEPT !.want = w].user] = Written([req[t] EXCEPT !.want = w])]
    BY <1>5 DEF LoginSucceeds
  <2> HIDE DEF w
  <2> QED BY <1>1, <2>1, <2>2
<1> QED BY <1>2, <1>3, <1>4, <1>5

LEMMA LapseKeeps ==
  ASSUME TInv, Lapse
  PROVE  Same
<1>t. row \in [Users -> Accounts \cup {None}]
  BY DEF TInv, TypeOK
<1>1. CASE \E u \in Users : /\ row[u] # None
                            /\ row' = [row EXCEPT ![u] = [row[u] EXCEPT !.locked = "past"]]
  <2> PICK u \in Users : row[u] # None /\ row' = [row EXCEPT ![u] = [row[u] EXCEPT !.locked = "past"]]
    BY <1>1
  <2> DEFINE past == [row[u] EXCEPT !.locked = "past"]
  <2>1. past \in Accounts /\ past.role = row[u].role /\ past.active = row[u].active
    BY <1>t DEF Accounts
  <2>2. \A x \in Users : row'[x] = IF x = u THEN past ELSE row[x]
    BY <1>t
  <2> HIDE DEF past
  <2> QED BY <2>1, <2>2, Constants DEF Same
<1>2. CASE UNCHANGED row
  BY <1>2 DEF Same
<1> QED BY <1>1, <1>2 DEF Lapse

LEMMA HeldInit == Init => Held /\ AdminRemains
<1> SUFFICES ASSUME Init PROVE Held /\ AdminRemains
  OBVIOUS
<1>1. Held
  BY DEF Init, Held, Idle
<1>2. IsActiveAdmin(row[First])
  <2>1. row[First] = Chosen("admin") /\ Chosen("admin") \in Accounts
    BY ChosenType DEF Init, Roles
  <2>2. row[First] # None
    BY <2>1, Constants
  <2>3. Chosen("admin").role = "admin" /\ Chosen("admin").active
    BY DEF Chosen
  <2> QED BY <2>1, <2>2, <2>3 DEF IsActiveAdmin
<1> QED BY <1>1, <1>2, Constants DEF AdminRemains, ActiveAdmins

LEMMA HeldNext == AInv /\ [Next]_vars => Held' /\ AdminRemains'
<1> SUFFICES ASSUME TInv, Held, AdminRemains, [Next]_vars PROVE Held' /\ AdminRemains'
  BY DEF AInv
<1>t. /\ req \in [Threads -> Requests] /\ row \in [Users -> Accounts \cup {None}]
      /\ lock \in [Users -> Threads \cup {None}] /\ made \in Nat
  BY DEF TInv, TypeOK
<1>r. \A t \in Threads : req[t] \in Requests /\ req[t].user \in Users /\ req[t].loaded \in Accounts
                          /\ row[req[t].user] # None
  BY <1>t DEF TInv, Existing, Requests
<1>i. Idle.at = "idle"
  BY DEF Idle
\* Requests that begin, go on or end without touching a row or a lock.
<1>1. ASSUME NEW t \in Threads, NEW s \in Tokens, Admit(t, s) \/ Issue(t, s) \/ ChangeLoads(t, s)
      PROVE  Held' /\ AdminRemains'
  <2> DEFINE a == [Idle EXCEPT !.at = "admitted", !.user = sess[s],
                               !.loaded = row[sess[s]], !.want = row[sess[s]]]
             c == [Idle EXCEPT !.at = "changing", !.user = sess[s], !.loaded = row[sess[s]],
                               !.want = row[sess[s]], !.token = s]
  <2>1. a.at = "admitted" /\ c.at = "changing"
    BY DEF Idle
  <2>2. req' = [req EXCEPT ![t] = a] \/ req' = [req EXCEPT ![t] = c] \/ req' = [req EXCEPT ![t] = Idle]
    BY <1>1 DEF Admit, Issue, ChangeLoads, Begin, Open
  <2>3. UNCHANGED <<row, lock, raced>>
    BY <1>1 DEF Admit, Issue, ChangeLoads, stored, history
  <2> HIDE DEF a, c
  <2> QED BY <1>i, <2>1, <2>2, <2>3, PassesHeld
<1>2. ASSUME NEW t \in Threads, NEW u \in Users, ResetLoads(t, u) \/ ConsoleResets(t, u) \/ LoginLoads(t, u)
      PROVE  Held' /\ AdminRemains'
  <2> DEFINE a == [Idle EXCEPT !.at = "resetting", !.user = u, !.loaded = Target(t, u), !.want = Target(t, u)]
             c == [Idle EXCEPT !.at = "resetting", !.user = u, !.loaded = row[u], !.want = row[u]]
             l == [Idle EXCEPT !.at = "login", !.user = u, !.loaded = row[u], !.want = row[u]]
  <2>1. a.at = "resetting" /\ c.at = "resetting" /\ l.at = "login"
    BY DEF Idle
  <2>2. req' = [req EXCEPT ![t] = a] \/ req' = [req EXCEPT ![t] = c] \/ req' = [req EXCEPT ![t] = l]
    BY <1>2 DEF ResetLoads, ConsoleResets, LoginLoads, Begin
  <2>3. UNCHANGED <<row, lock, raced>>
    BY <1>2 DEF ResetLoads, ConsoleResets, LoginLoads, stored, history
  <2> HIDE DEF a, c, l
  <2> QED BY <2>1, <2>2, <2>3, PassesHeld
<1>3. ASSUME NEW t \in Threads, Finds(t) \/ ChangeRevokes(t) \/ ChangeRestores(t)
      PROVE  Held' /\ AdminRemains'
  <2> DEFINE f == [req[t] EXCEPT !.at = "counting", !.seen = ActiveAdmins]
             v == [req[t] EXCEPT !.at = "revoked"]
  <2>1. f.at = "counting" /\ v.at = "revoked"
    BY <1>r DEF Requests
  <2>2. req' = [req EXCEPT ![t] = f] \/ req' = [req EXCEPT ![t] = v] \/ req' = [req EXCEPT ![t] = Idle]
    BY <1>3 DEF Finds, ChangeRevokes, ChangeRestores, Open
  <2>3. UNCHANGED <<row, lock, raced>>
    BY <1>3 DEF Finds, ChangeRevokes, ChangeRestores, stored, history
  <2> HIDE DEF f, v
  <2> QED BY <1>i, <2>1, <2>2, <2>3, PassesHeld
\* A change is guarded unless it takes no administrator away.
<1>4. ASSUME NEW t \in Threads, NEW u \in Users, NEW role \in Roles, NEW active \in BOOLEAN,
             PatchLoads(t, u, role, active)
      PROVE  Held' /\ AdminRemains'
  <2> DEFINE a == Target(t, u)
             w == [a EXCEPT !.role = role, !.active = active]
             guarded == IsActiveAdmin(a) /\ (role = "analyst" \/ ~active)
             r == [Idle EXCEPT !.at = IF guarded THEN "loaded" ELSE "guarded",
                               !.user = u, !.loaded = a, !.want = w]
  <2>1. a \in Accounts
    BY <1>4, <1>t, <1>r DEF PatchLoads, Target
  <2>2. req' = [req EXCEPT ![t] = r]
    BY <1>4 DEF PatchLoads
  <2>3. w.role = role /\ w.active = active
    BY <2>1 DEF Accounts
  <2>4. r.at = (IF guarded THEN "loaded" ELSE "guarded") /\ r.loaded = a /\ r.want = w
    BY DEF Idle
  <2>5. UNCHANGED <<row, lock, raced>>
    BY <1>4 DEF PatchLoads, stored, history
  <2> HIDE DEF a, w, r
  <2>6. r.at = "guarded" => ~Demotes(r)
    BY <2>3, <2>4 DEF Demotes, Roles
  <2>7. \A x \in Threads : req'[x].at = "guarded" =>
          ~Demotes(req'[x]) \/ (x # t /\ req'[x] = req[x])
    BY <1>t, <2>2, <2>6
  <2> QED BY <2>5, <2>7, HeldStep
\* New accounts.
<1>5. ASSUME NEW t \in Threads, NEW u \in Users,
             CreateAdmin(t, u) \/ \E role \in Roles : CreateUser(t, u, role)
      PROVE  Held' /\ AdminRemains'
  <2>1. row[u] = None /\ \A x \in Users \ {u} : row'[x] = row[x]
    BY <1>5, <1>t DEF CreateAdmin, CreateUser
  <2>2. UNCHANGED <<lock, raced>> /\ req' = [req EXCEPT ![t] = Idle]
    BY <1>5 DEF CreateAdmin, CreateUser, Begin
  <2> QED BY <1>i, <2>1, <2>2, PassesHeld DEF IsActiveAdmin
\* Writes that leave the role and the state alone.
<1>6. ASSUME NEW t \in Threads, ResetCommits(t) \/ ChangeCommits(t) \/ LoginFails(t) \/ LoginSucceeds(t)
      PROVE  Held' /\ AdminRemains'
  <2>1. \A u \in Users : IsActiveAdmin(row[u]) => IsActiveAdmin(row'[u])
    BY <1>6, WritesKeep DEF Same, IsActiveAdmin
  <2>2. UNCHANGED <<lock, raced>>
    BY <1>6 DEF ResetCommits, ChangeCommits, LoginFails, LoginSucceeds, history
  <2>3. \A x \in Threads : req'[x].at = "guarded" =>
          req[x].at = "guarded" /\ req'[x].loaded = req[x].loaded /\ req'[x].want = req[x].want
    <3> DEFINE q == [[req[t] EXCEPT !.want = Own(req[t].loaded)] EXCEPT !.at = "changed"]
               v == [[req[t] EXCEPT !.want = [req[t].loaded EXCEPT !.failed = 0, !.locked = "never"]]
                       EXCEPT !.at = "verified"]
    <3>1. q.at = "changed" /\ v.at = "verified"
      BY <1>r DEF Requests
    <3>2. \/ \E u : Overlaps(t, u, Idle) \/ Overlaps(t, u, q)
          \/ req' = [req EXCEPT ![t] = Idle] \/ req' = [req EXCEPT ![t] = v]
      BY <1>6 DEF ResetCommits, EndsSessions, ChangeCommits, LoginFails, LoginSucceeds
    <3> HIDE DEF q, v
    <3>3. CASE \E u : Overlaps(t, u, Idle) \/ Overlaps(t, u, q)
      BY <1>i, <3>1, <3>3, OverlapsHeld
    <3>4. CASE req' = [req EXCEPT ![t] = Idle] \/ req' = [req EXCEPT ![t] = v]
      BY <1>i, <1>t, <3>1, <3>4
    <3> QED BY <3>2, <3>3, <3>4
  <2> QED BY <2>1, <2>2, <2>3, HeldStep
\* Locks are given up.
<1>7. ASSUME NEW t \in Threads, Refused(t)
       PROVE  Held' /\ AdminRemains'
  <2>1. req' = [req EXCEPT ![t] = Idle] /\ lock' = Unlocked(t) /\ UNCHANGED <<row, raced>>
    BY <1>7 DEF Refused, stored, history
  <2>2. \A u \in Users : \/ lock'[u] = lock[u]
                         \/ lock'[u] = None /\ \A x \in Threads : lock[u] = x => req'[x].at # "guarded"
    BY <1>i, <1>t, <2>1 DEF Unlocked
  <2>3. \A x \in Threads : req'[x].at = "guarded" => req'[x] = req[x]
    BY <1>i, <1>t, <2>1
  <2> QED BY <2>1, <2>2, <2>3, HeldStep
<1>8. CASE Crash
  <2>1. (\A x \in Threads : req'[x].at = "idle") /\ (\A u \in Users : lock'[u] = None) /\ UNCHANGED <<row, raced>>
    BY <1>8, <1>i DEF Crash, stored, history
  <2> QED BY <2>1, HeldStep
<1>9. ASSUME NEW s \in Tokens, Logout(s)
       PROVE  Held' /\ AdminRemains'
  <2>1. UNCHANGED <<row, lock, raced>>
    BY <1>9 DEF Logout
  <2>2. \A x \in Threads : req'[x].at = req[x].at /\ req'[x].loaded = req[x].loaded /\ req'[x].want = req[x].want
    <3>1. \A x \in Threads : LET l == [req[x] EXCEPT !.late = TRUE]
                             IN  l.at = req[x].at /\ l.loaded = req[x].loaded /\ l.want = req[x].want
      BY <1>r DEF Requests
    <3> QED BY <1>9, <3>1 DEF Logout
  <2> QED BY <2>1, <2>2, HeldStep
<1>10. CASE TimePasses
  <2>1. UNCHANGED <<lock, req, raced>>
    BY <1>10 DEF TimePasses, history
  <2>2. \A u \in Users : IsActiveAdmin(row[u]) => IsActiveAdmin(row'[u])
    BY <1>10, LapseKeeps DEF TimePasses, Same, IsActiveAdmin
  <2> QED BY <2>1, <2>2, HeldStep
<1>11. CASE UNCHANGED vars
  BY <1>11, HeldStep DEF vars, stored, history
<1>12. ASSUME NEW t \in Threads, Guard(t) \/ PatchCommits(t)
       PROVE  Held' /\ AdminRemains'
  BY <1>12, GuardHeld, PatchHeld
<1> QED BY <1>1, <1>2, <1>3, <1>4, <1>5, <1>6, <1>7, <1>8, <1>9, <1>10, <1>11, <1>12 DEF Next

\* Whatever changes of accounts overlap, and whoever dies with rows locked,
\* somebody can administer, unless a change skipped guard_last_admin on a row
\* it had loaded before its target became an active administrator.
THEOREM AdministratorRemains == Spec => []AdminRemains
<1>1. Init => AInv
  BY TypeInit, HeldInit DEF AInv
<1>2. AInv /\ [Next]_vars => AInv'
  BY TypeStep, HeldNext DEF AInv
<1>3. AInv => AdminRemains
  BY DEF AInv
<1> QED BY <1>1, <1>2, <1>3, PTL DEF Spec

-----------------------------------------------------------------------------
(* The audit log.                                                          *)

LEMMA TrailKeeps ==
  ASSUME TrailTellsTheRow, Same, UNCHANGED trail
  PROVE  TrailTellsTheRow'
BY DEF TrailTellsTheRow, Same

LEMMA TrailInit == Init => TrailTellsTheRow
<1> SUFFICES ASSUME Init, NEW u \in Users, row[u] # None
             PROVE  trail[u] = [role |-> row[u].role, active |-> row[u].active]
  BY DEF TrailTellsTheRow
<1>1. trail[u] = [role |-> row[u].role, active |-> TRUE]
  BY DEF Init
<1>2. row[u] = Chosen("analyst") \/ row[u] = Chosen("admin")
  BY DEF Init
<1>3. row[u].active = TRUE
  BY <1>2 DEF Chosen
<1> QED BY <1>1, <1>3

LEMMA TrailNext == TInv /\ TrailTellsTheRow /\ [Next]_vars => TrailTellsTheRow'
<1> SUFFICES ASSUME TInv, TrailTellsTheRow, [Next]_vars PROVE TrailTellsTheRow'
  OBVIOUS
<1>t. /\ row \in [Users -> Accounts \cup {None}] /\ made \in Nat
      /\ trail \in [Users -> [role : Roles, active : BOOLEAN]]
  BY DEF TInv, TypeOK
<1>1. ASSUME UNCHANGED <<row, trail>> PROVE TrailTellsTheRow'
  BY <1>1, TrailKeeps DEF Same
<1>2. ASSUME NEW t \in Threads,
             \/ \E s \in Tokens : Admit(t, s) \/ Issue(t, s) \/ ChangeLoads(t, s)
             \/ \E u \in Users :
                  \/ \E role \in Roles, active \in BOOLEAN : PatchLoads(t, u, role, active)
                  \/ ResetLoads(t, u) \/ ConsoleResets(t, u) \/ LoginLoads(t, u)
             \/ Finds(t) \/ Guard(t) \/ ChangeRevokes(t) \/ ChangeRestores(t) \/ Refused(t)
      PROVE  TrailTellsTheRow'
  <2>1. CASE \E s \in Tokens : Admit(t, s) \/ Issue(t, s) \/ ChangeLoads(t, s)
    BY <1>1, <2>1 DEF Admit, Issue, ChangeLoads, stored
  <2>2. CASE \E u \in Users : \E role \in Roles, active \in BOOLEAN : PatchLoads(t, u, role, active)
    BY <1>1, <2>2 DEF PatchLoads, stored
  <2>3. CASE \E u \in Users : ResetLoads(t, u) \/ ConsoleResets(t, u) \/ LoginLoads(t, u)
    BY <1>1, <2>3 DEF ResetLoads, ConsoleResets, LoginLoads, stored
  <2>4. CASE Finds(t) \/ Guard(t) \/ Refused(t)
    BY <1>1, <2>4 DEF Finds, Guard, Refused, stored
  <2>5. CASE ChangeRevokes(t) \/ ChangeRestores(t)
    BY <1>1, <2>5 DEF ChangeRevokes, ChangeRestores
  <2> QED BY <1>2, <2>1, <2>2, <2>3, <2>4, <2>5
<1>3. ASSUME NEW t \in Threads, ResetCommits(t) \/ ChangeCommits(t) \/ LoginFails(t) \/ LoginSucceeds(t)
      PROVE  TrailTellsTheRow'
  <2>1. UNCHANGED trail
    BY <1>3 DEF ResetCommits, ChangeCommits, LoginFails, LoginSucceeds
  <2> QED BY <1>3, <2>1, WritesKeep, TrailKeeps
<1>4. ASSUME NEW t \in Threads, NEW u \in Users, NEW role \in Roles, CreateUser(t, u, role)
      PROVE  TrailTellsTheRow'
  <2>1. Reset(Chosen(role)).role = role /\ Reset(Chosen(role)).active = TRUE
    <3>1. Chosen(role).role = role /\ Chosen(role).active = TRUE
      BY DEF Chosen
    <3> QED BY <3>1, ChosenType, ResetKeeps
  <2> DEFINE a == Reset(Chosen(role))
  <2>2. row' = [row EXCEPT ![u] = a] /\ trail' = [trail EXCEPT ![u] = [role |-> role, active |-> TRUE]]
    BY <1>4 DEF CreateUser
  <2>3. a.role = role /\ a.active = TRUE
    BY <2>1
  <2> HIDE DEF a
  <2> QED BY <1>t, <2>2, <2>3 DEF TrailTellsTheRow
<1>5. ASSUME NEW t \in Threads, NEW u \in Users, CreateAdmin(t, u)
      PROVE  TrailTellsTheRow'
  <2> DEFINE a == [Chosen("admin") EXCEPT !.hash = made + 1]
  <2>1. a.role = "admin" /\ a.active = TRUE
    BY DEF Chosen
  <2>2. row' = [row EXCEPT ![u] = a] /\ trail' = [trail EXCEPT ![u] = [role |-> "admin", active |-> TRUE]]
    BY <1>5 DEF CreateAdmin
  <2> HIDE DEF a
  <2> QED BY <1>t, <2>1, <2>2 DEF TrailTellsTheRow
<1>6. ASSUME NEW t \in Threads, PatchCommits(t)
      PROVE  TrailTellsTheRow'
  <2> DEFINE r == req[t]
             now == row[r.user]
             new == Written(r)
             told == Trail(r)
  <2>1. r.user \in Users /\ now # None
    BY DEF TInv, TypeOK, Existing, Requests
  <2>2. new.role = Column(r.loaded.role, r.want.role, now.role)
        /\ new.active = Column(r.loaded.active, r.want.active, now.active)
    BY DEF Written
  <2>3. trail[r.user] = [role |-> now.role, active |-> now.active]
    BY <2>1 DEF TrailTellsTheRow
  <2>4. trail[r.user].role = now.role /\ trail[r.user].active = now.active
    BY <2>3
  <2>5. told = [role   |-> Column(r.loaded.role, r.want.role, now.role),
                active |-> Column(r.loaded.active, r.want.active, now.active)]
    BY <2>4 DEF Trail
  <2>6. row' = [row EXCEPT ![r.user] = new] /\ trail' = [trail EXCEPT ![r.user] = told]
    BY <1>6 DEF PatchCommits
  <2> HIDE DEF r, now, new, told
  <2>7. told = [role |-> new.role, active |-> new.active]
    BY <2>2, <2>5
  <2> QED BY <1>t, <2>6, <2>7 DEF TrailTellsTheRow
<1>7. ASSUME NEW s \in Tokens, Logout(s)
      PROVE  TrailTellsTheRow'
  BY <1>1, <1>7 DEF Logout
<1>8. CASE Crash
  BY <1>1, <1>8 DEF Crash, stored
<1>9. CASE TimePasses
  BY <1>9, LapseKeeps, TrailKeeps DEF TimePasses
<1>10. CASE UNCHANGED vars
  BY <1>1, <1>10 DEF vars, stored
<1> QED BY <1>2, <1>3, <1>4, <1>5, <1>6, <1>7, <1>8, <1>9, <1>10 DEF Next

\* However requests overlap, each working from the row as it had loaded it, the
\* audit log read back tells the role and the state every account has.
THEOREM LogTells == Spec => []TrailTellsTheRow
<1>1. Init => TInv /\ TrailTellsTheRow
  BY TypeInit, TrailInit
<1>2. TInv /\ TrailTellsTheRow /\ [Next]_vars => TInv' /\ TrailTellsTheRow'
  BY TypeStep, TrailNext
<1> QED BY <1>1, <1>2, PTL DEF Spec
-----------------------------------------------------------------------------
(* Passwords and sessions.                                                 *)

\* The stages in which a request will open a session or put one back.
Openers == {"login", "verified", "changing", "changed", "revoked"}

\* A password's number says which of the accounts' passwords it is: what was
\* loaded with the password there is now, is what there is now.
Known(r) ==
  r.at # "idle" =>
    /\ r.loaded.hash <= made /\ r.loaded.temp <= made
    /\ r.loaded.hash = row[r.user].hash =>
         r.loaded.must = row[r.user].must /\ r.loaded.temp = row[r.user].temp

\* An administrator's change is of the role and the state alone.
Patches(r) ==
  r.at \in {"loaded", "counting", "guarded"} =>
    /\ r.want.hash = r.loaded.hash /\ r.want.must = r.loaded.must
    /\ r.want.temp = r.loaded.temp

\* A request that nothing overtook opens a session for the account as it is.
Opens(r) ==
  r.late \/
    /\ r.at \in {"login", "changing"} =>
         /\ r.loaded.hash = row[r.user].hash
         /\ r.loaded.active => row[r.user].active
    /\ r.at = "changing" => r.loaded.active
    /\ r.at \in {"verified", "changed", "revoked"} =>
         r.want.hash = row[r.user].hash /\ row[r.user].active
    /\ r.at \in {"changing", "changed", "revoked"} => r.token \notin out \ excused

Sound(r) == Known(r) /\ Patches(r) /\ Opens(r)

Numbered ==
  /\ \A n \in issued : n <= made
  /\ \A u \in Users : row[u] # None => row[u].hash <= made /\ row[u].temp <= made

\* The bodies of IssuedIsReplaced and SessionsFollowAccount.
Replaced(u) ==
  /\ row[u].must <=> row[u].hash \in issued
  /\ row[u].temp = IF row[u].hash \in issued THEN row[u].hash ELSE 0
Ending(u) == \E t \in Threads : req[t].at = "changed" /\ req[t].user = u
Followed(s) ==
  /\ s \notin out
  /\ row[sess[s]].active
  /\ proof[s] = row[sess[s]].hash \/ Ending(sess[s])

CInv ==
  /\ TInv /\ Numbered
  /\ \A t \in Threads : Sound(req[t])
  /\ IssuedIsReplaced /\ SessionsFollowAccount

\* A request goes on as it was, or is overtaken.
Steady(x) ==
  /\ req'[x].at = req[x].at /\ req'[x].user = req[x].user
  /\ req'[x].loaded = req[x].loaded /\ req'[x].want = req[x].want
  /\ req'[x].token = req[x].token /\ (req[x].late => req'[x].late)

\* The password of u stays, and u is not switched off.
Keeps(u) ==
  /\ row'[u].hash = row[u].hash /\ row'[u].must = row[u].must /\ row'[u].temp = row[u].temp
  /\ row[u].active => row'[u].active

\* A request that goes on stays sound if its account kept its password, or has
\* one that is new and the request is overtaken.
LEMMA SteadySound ==
  ASSUME TInv, NEW x \in Threads, Sound(req[x]), Steady(x), made' \in Nat, made <= made',
         \/ Keeps(req[x].user)
         \/ /\ \/ row'[req[x].user].hash > made
               \/ /\ row'[req[x].user].hash = row[req[x].user].hash
                  /\ row'[req[x].user].must = row[req[x].user].must
                  /\ row'[req[x].user].temp = row[req[x].user].temp
            /\ req[x].at \in Openers => req'[x].late,
         ~req'[x].late => (req[x].token \in out' \ excused' => req[x].token \in out \ excused)
  PROVE  Sound(req[x])'
<1>t. /\ made \in Nat /\ req[x] \in Requests /\ req[x].loaded \in Accounts
      /\ row[req[x].user] \in Accounts
  BY DEF TInv, TypeOK, Requests, Existing
<1> DEFINE r == req[x]
           q == req'[x]
           a == row[req[x].user]
           b == row'[req[x].user]
<1>1. /\ q.at = r.at /\ q.user = r.user /\ q.loaded = r.loaded /\ q.want = r.want
      /\ q.token = r.token /\ (r.late => q.late)
  BY DEF Steady
<1>2. r.loaded.hash \in Nat /\ r.loaded.temp \in Nat /\ a.hash \in Nat
  BY <1>t DEF Accounts
<1>3. Known(req[x])'
  <2>1. ASSUME q.at # "idle"
        PROVE  /\ q.loaded.hash <= made' /\ q.loaded.temp <= made'
               /\ q.loaded.hash = b.hash => q.loaded.must = b.must /\ q.loaded.temp = b.temp
    <3>1. /\ r.loaded.hash <= made /\ r.loaded.temp <= made
          /\ r.loaded.hash = a.hash => r.loaded.must = a.must /\ r.loaded.temp = a.temp
      BY <1>1, <2>1 DEF Sound, Known
    <3>2. b.hash > made \/ (b.hash = a.hash /\ b.must = a.must /\ b.temp = a.temp)
      BY DEF Keeps
    <3> QED BY <1>1, <1>2, <1>t, <3>1, <3>2
  <2> QED BY <1>1, <2>1 DEF Known
<1>4. Patches(req[x])'
  BY <1>1 DEF Sound, Patches
<1>5. Opens(req[x])'
  <2>1. CASE q.late
    BY <2>1 DEF Opens
  <2>2. CASE ~q.late /\ Keeps(req[x].user)
    BY <1>1, <2>2 DEF Sound, Opens, Keeps
  <2>3. CASE ~q.late /\ req[x].at \notin Openers
    BY <1>1, <2>3 DEF Opens, Openers
  <2> QED BY <2>1, <2>2, <2>3
<1> QED BY <1>3, <1>4, <1>5 DEF Sound

\* A session is followed if it is one that was, of an account that was neither
\* switched off nor given another password, or whose other sessions are to end.
LEMMA FollowStep ==
  ASSUME SessionsFollowAccount, excused \subseteq excused',
         \A s \in Tokens : sess'[s] # None /\ s \notin excused' =>
           \/ Followed(s)'
           \/ /\ sess'[s] = sess[s] /\ proof'[s] = proof[s] /\ (s \in out' => s \in out)
              /\ row[sess[s]].active => row'[sess[s]].active
              /\ \/ row'[sess[s]].hash = row[sess[s]].hash /\ (Ending(sess[s]) => Ending(sess[s])')
                 \/ \E x \in Threads : req'[x].at = "changed" /\ req'[x].user = sess[s]
  PROVE  SessionsFollowAccount'
<1> SUFFICES ASSUME NEW s \in Tokens, sess'[s] # None, s \notin excused'
             PROVE  Followed(s)'
  BY DEF SessionsFollowAccount, Followed, Ending
<1>1. CASE Followed(s)'
  BY <1>1
<1>2. CASE ~Followed(s)'
  <2>1. sess'[s] = sess[s] /\ proof'[s] = proof[s] /\ (s \in out' => s \in out)
        /\ (row[sess[s]].active => row'[sess[s]].active)
    BY <1>2
  <2>2. Followed(s)
    BY <2>1 DEF SessionsFollowAccount, Followed, Ending
  <2> QED BY <1>2, <2>1, <2>2 DEF Followed, Ending
<1> QED BY <1>1, <1>2


\* Nothing is written, or nothing of a password or of a state; one request goes
\* on to what is sound, and sessions end, or one that is followed begins.
LEMMA PassesInv ==
  ASSUME CInv, TInv', NEW t \in Threads, UNCHANGED <<made, issued, mixed, out>>,
         \A u \in Users : row[u] # None <=> row'[u] # None,
         \A u \in Users : row[u] # None => Keeps(u),
         \A x \in Threads \ {t} : req'[x] = req[x],
         excused \subseteq excused', Sound(req[t])',
         req[t].at = "changed" => \A s \in Tokens : sess'[s] # req[t].user,
         \A s \in Tokens : \/ sess'[s] = None \/ s \in excused' \/ Followed(s)'
                           \/ sess'[s] = sess[s] /\ proof'[s] = proof[s]
  PROVE  CInv'
<1>t. /\ made \in Nat /\ \A x \in Threads : req[x].user \in Users /\ row[req[x].user] # None
      /\ \A s \in Tokens : sess[s] # None => sess[s] \in Users /\ row[sess[s]] # None
  BY DEF CInv, TInv, TypeOK, Requests, Existing, Sessions
<1>1. Numbered'
  BY DEF CInv, Numbered, Keeps
<1>2. ASSUME NEW x \in Threads PROVE Sound(req[x])'
  <2>1. CASE x = t
    BY <2>1
  <2>2. CASE x # t
    <3>1. Steady(x) /\ Keeps(req[x].user) /\ Sound(req[x])
      BY <1>t, <2>2 DEF Steady, CInv
    <3>2. req[x].token \in out' \ excused' => req[x].token \in out \ excused
      OBVIOUS
    <3> QED BY <1>t, <3>1, <3>2, SteadySound DEF CInv
  <2> QED BY <2>1, <2>2
<1>3. IssuedIsReplaced'
  BY DEF CInv, IssuedIsReplaced, Keeps
<1>4. SessionsFollowAccount'
  <2>1. ASSUME NEW s \in Tokens, sess'[s] # None, s \notin excused', ~Followed(s)'
        PROVE  /\ sess'[s] = sess[s] /\ proof'[s] = proof[s] /\ (s \in out' => s \in out)
               /\ row[sess[s]].active => row'[sess[s]].active
               /\ row'[sess[s]].hash = row[sess[s]].hash /\ (Ending(sess[s]) => Ending(sess[s])')
    <3>1. sess'[s] = sess[s] /\ proof'[s] = proof[s] /\ Keeps(sess[s])
      BY <1>t, <2>1
    <3>2. ASSUME Ending(sess[s]) PROVE Ending(sess[s])'
      <4>1. PICK x \in Threads : req[x].at = "changed" /\ req[x].user = sess[s]
        BY <3>2 DEF Ending
      <4>2. x # t
        BY <3>1, <4>1
      <4> QED BY <3>1, <4>1, <4>2 DEF Ending
    <3> QED BY <3>1, <3>2 DEF Keeps
  <2> QED BY <2>1, FollowStep DEF CInv
<1> QED BY <1>1, <1>2, <1>3, <1>4 DEF CInv

\* Requests that begin, go on or end without a commit of an account.
Works(t) ==
  \/ \E s \in Tokens : Admit(t, s) \/ ChangeLoads(t, s)
  \/ \E u \in Users :
       \/ \E role \in Roles, active \in BOOLEAN : PatchLoads(t, u, role, active)
       \/ ResetLoads(t, u) \/ ConsoleResets(t, u) \/ LoginLoads(t, u)
  \/ Finds(t) \/ Guard(t) \/ Refused(t)

LEMMA WorksInv ==
  ASSUME CInv, TInv', NEW t \in Threads, Works(t)
  PROVE  CInv'
<1>t. /\ req \in [Threads -> Requests] /\ made \in Nat /\ row \in [Users -> Accounts \cup {None}]
      /\ req[t] \in Requests /\ req[t].user \in Users /\ req[t].loaded \in Accounts
      /\ row[req[t].user] # None
  BY DEF CInv, TInv, TypeOK, Requests, Existing
<1>s. \A s \in Tokens : sess[s] # None => sess[s] \in Users /\ row[sess[s]] # None
  BY DEF CInv, TInv, TypeOK, Sessions, Existing
<1>n. \A u \in Users : row[u] # None => row[u].hash <= made /\ row[u].temp <= made
  BY DEF CInv, Numbered
<1>1. UNCHANGED <<row, sess, made, history>> /\ req[t].at # "changed"
  <2>1. ASSUME NEW s \in Tokens, Admit(t, s) \/ ChangeLoads(t, s)
        PROVE  UNCHANGED <<row, sess, made, history>> /\ req[t].at # "changed"
    BY <2>1 DEF Admit, ChangeLoads, Begin, stored
  <2>2. ASSUME NEW u \in Users, NEW role \in Roles, NEW active \in BOOLEAN, PatchLoads(t, u, role, active)
        PROVE  UNCHANGED <<row, sess, made, history>> /\ req[t].at # "changed"
    BY <2>2 DEF PatchLoads, stored
  <2>3. ASSUME NEW u \in Users, ResetLoads(t, u) \/ ConsoleResets(t, u) \/ LoginLoads(t, u)
        PROVE  UNCHANGED <<row, sess, made, history>> /\ req[t].at # "changed"
    BY <2>3 DEF ResetLoads, ConsoleResets, LoginLoads, Begin, stored
  <2>4. ASSUME Finds(t) \/ Guard(t) \/ Refused(t)
        PROVE  UNCHANGED <<row, sess, made, history>> /\ req[t].at # "changed"
    BY <2>4 DEF Finds, Guard, Refused, stored
  <2> QED BY <2>1, <2>2, <2>3, <2>4 DEF Works
<1>3. ASSUME NEW r, req' = [req EXCEPT ![t] = r], Sound(req[t])'
      PROVE  CInv'
  BY <1>1, <1>3, <1>t, PassesInv DEF history, Keeps
\* A stage that knows its account and opens no session.
<1>4. ASSUME NEW r, req' = [req EXCEPT ![t] = r], r.at \in {"admitted", "resetting"},
             \/ r.user \in Users /\ row[r.user] # None /\ r.loaded = row[r.user]
             \/ req[t].at = "admitted" /\ r.user = req[t].user /\ r.loaded = req[t].loaded
      PROVE  CInv'
  <2>1. req'[t] = r
    BY <1>4, <1>t
  <2>2. Known(req[t])
    BY DEF CInv, Sound
  <2>3. Known(req[t])'
    BY <1>1, <1>4, <1>n, <2>1, <2>2 DEF Known
  <2>4. Patches(req[t])' /\ Opens(req[t])'
    BY <1>4, <2>1 DEF Patches, Opens
  <2> QED BY <1>3, <1>4, <2>3, <2>4 DEF Sound
<1>5. ASSUME req' = [req EXCEPT ![t] = Idle]
      PROVE  CInv'
  BY <1>3, <1>5, <1>t DEF Sound, Known, Patches, Opens, Idle
<1>6. CASE \E s \in Tokens : Admit(t, s)
  <2> PICK s \in Tokens : Admit(t, s)
    BY <1>6
  <2> DEFINE r == [Idle EXCEPT !.at = "admitted", !.user = sess[s],
                               !.loaded = row[sess[s]], !.want = row[sess[s]]]
  <2>1. req' = [req EXCEPT ![t] = r] /\ sess[s] # None
    BY DEF Admit, Begin, Resolves
  <2>2. r.at = "admitted" /\ r.user = sess[s] /\ r.loaded = row[sess[s]]
    BY DEF Idle
  <2> HIDE DEF r
  <2> QED BY <1>4, <1>s, <2>1, <2>2
<1>7. CASE \E s \in Tokens : ChangeLoads(t, s)
  <2> PICK s \in Tokens : ChangeLoads(t, s)
    BY <1>7
  <2> DEFINE r == [Idle EXCEPT !.at = "changing", !.user = sess[s], !.loaded = row[sess[s]],
                               !.want = row[sess[s]], !.token = s]
  <2>1. req' = [req EXCEPT ![t] = r] /\ sess[s] # None /\ row[sess[s]].active
    BY DEF ChangeLoads, Begin, Resolves
  <2>2. r.at = "changing" /\ r.user = sess[s] /\ r.loaded = row[sess[s]] /\ r.token = s
    BY DEF Idle
  <2>3. s \notin out \ excused
    BY <2>1 DEF CInv, SessionsFollowAccount
  <2> HIDE DEF r
  <2>4. req'[t] = r
    BY <1>t, <2>1
  <2>5. Known(req[t])' /\ Patches(req[t])'
    BY <1>1, <1>n, <1>s, <2>1, <2>2, <2>4 DEF Known, Patches
  <2>6. Opens(req[t])'
    BY <1>1, <1>s, <2>1, <2>2, <2>3, <2>4 DEF Opens, history
  <2> QED BY <1>3, <2>1, <2>5, <2>6 DEF Sound
<1>8. CASE \E u \in Users, role \in Roles, active \in BOOLEAN : PatchLoads(t, u, role, active)
  <2> PICK u \in Users, role \in Roles, active \in BOOLEAN : PatchLoads(t, u, role, active)
    BY <1>8
  <2> DEFINE a == Target(t, u)
             w == [a EXCEPT !.role = role, !.active = active]
             guarded == IsActiveAdmin(a) /\ (role = "analyst" \/ ~active)
             at == IF guarded THEN "loaded" ELSE "guarded"
             r == [Idle EXCEPT !.at = at, !.user = u, !.loaded = a, !.want = w]
  <2>1. req' = [req EXCEPT ![t] = r] /\ req[t].at = "admitted" /\ row[u] # None
    BY DEF PatchLoads
  <2>2. a \in Accounts /\ (a = row[u] \/ (u = req[t].user /\ a = req[t].loaded))
    BY <1>t, <2>1 DEF Target
  <2>3. w.hash = a.hash /\ w.must = a.must /\ w.temp = a.temp
    BY <2>2 DEF Accounts
  <2>4. at \in {"loaded", "guarded"} /\ r.at = at /\ r.user = u /\ r.loaded = a /\ r.want = w
    BY DEF Idle
  <2> HIDE DEF a, w, at, r
  <2>5. req'[t] = r
    BY <1>t, <2>1
  <2>6. Known(req[t])
    BY DEF CInv, Sound
  <2>7. Known(req[t])'
    BY <1>1, <1>n, <2>1, <2>2, <2>4, <2>5, <2>6 DEF Known
  <2>8. Patches(req[t])' /\ Opens(req[t])'
    BY <2>3, <2>4, <2>5 DEF Patches, Opens
  <2> QED BY <1>3, <2>1, <2>7, <2>8 DEF Sound
<1>9. CASE \E u \in Users : ResetLoads(t, u) \/ ConsoleResets(t, u)
  <2> PICK u \in Users : ResetLoads(t, u) \/ ConsoleResets(t, u)
    BY <1>9
  <2> DEFINE q == [Idle EXCEPT !.at = "resetting", !.user = u, !.loaded = Target(t, u), !.want = Target(t, u)]
             c == [Idle EXCEPT !.at = "resetting", !.user = u, !.loaded = row[u], !.want = row[u]]
  <2>1. /\ \/ req[t].at = "admitted" /\ req' = [req EXCEPT ![t] = q]
           \/ req' = [req EXCEPT ![t] = c]
        /\ row[u] # None
    BY DEF ResetLoads, ConsoleResets, Begin
  <2>2. /\ q.at = "resetting" /\ q.user = u /\ q.loaded = Target(t, u)
        /\ c.at = "resetting" /\ c.user = u /\ c.loaded = row[u]
    BY DEF Idle
  <2>3. Target(t, u) = row[u] \/ (u = req[t].user /\ Target(t, u) = req[t].loaded)
    BY DEF Target
  <2> HIDE DEF q, c
  <2>4. CASE req[t].at = "admitted" /\ req' = [req EXCEPT ![t] = q]
    BY <1>4, <2>1, <2>2, <2>3, <2>4
  <2>5. CASE req' = [req EXCEPT ![t] = c]
    BY <1>4, <2>1, <2>2, <2>5
  <2> QED BY <2>1, <2>4, <2>5
<1>10. CASE \E u \in Users : LoginLoads(t, u)
  <2> PICK u \in Users : LoginLoads(t, u)
    BY <1>10
  <2> DEFINE r == [Idle EXCEPT !.at = "login", !.user = u, !.loaded = row[u], !.want = row[u]]
  <2>1. req' = [req EXCEPT ![t] = r] /\ row[u] # None
    BY DEF LoginLoads, Begin
  <2>2. r.at = "login" /\ r.user = u /\ r.loaded = row[u]
    BY DEF Idle
  <2> HIDE DEF r
  <2>3. req'[t] = r
    BY <1>t, <2>1
  <2>4. Known(req[t])' /\ Patches(req[t])' /\ Opens(req[t])'
    BY <1>1, <1>n, <2>1, <2>2, <2>3 DEF Known, Patches, Opens
  <2> QED BY <1>3, <2>1, <2>4 DEF Sound
<1>11. CASE Finds(t) \/ (Guard(t) /\ req' # [req EXCEPT ![t] = Idle])
  <2> DEFINE f == [req[t] EXCEPT !.at = "counting", !.seen = ActiveAdmins]
             g == [req[t] EXCEPT !.at = "guarded"]
  <2>1. req' = [req EXCEPT ![t] = f] \/ req' = [req EXCEPT ![t] = g]
    BY <1>11 DEF Finds, Guard
  <2>2. /\ f.at = "counting" /\ f.user = req[t].user /\ f.loaded = req[t].loaded /\ f.want = req[t].want
        /\ g.at = "guarded" /\ g.user = req[t].user /\ g.loaded = req[t].loaded /\ g.want = req[t].want
    BY <1>t DEF Requests
  <2>3. req[t].at \in {"loaded", "counting"} /\ Sound(req[t])
    BY <1>11 DEF Finds, Guard, CInv
  <2> HIDE DEF f, g
  <2>4. req'[t] = f \/ req'[t] = g
    BY <1>t, <2>1
  <2>5. Known(req[t])' /\ Patches(req[t])' /\ Opens(req[t])'
    BY <1>1, <2>2, <2>3, <2>4 DEF Sound, Known, Patches, Opens
  <2> QED BY <1>3, <2>1, <2>5 DEF Sound
<1>12. CASE Refused(t)
  BY <1>5, <1>12 DEF Refused
<1> QED BY <1>5, <1>6, <1>7, <1>8, <1>9, <1>10, <1>11, <1>12 DEF Works, Guard

\* A session is opened, or put back: with the password it was earned with.
LEMMA OpenInv ==
  ASSUME CInv, TInv', NEW t \in Threads, NEW s \in Tokens, Open(t, s),
         UNCHANGED <<row, made, issued, out, mixed>>,
         req[t].at \in {"verified", "revoked"},
         req[t].late \/ s \notin out \ excused
  PROVE  CInv'
<1>t. /\ req \in [Threads -> Requests] /\ sess \in [Tokens -> Users \cup {None}]
      /\ proof \in [Tokens -> Nat] /\ req[t].user \in Users /\ row[req[t].user] # None
  BY DEF CInv, TInv, TypeOK, Requests, Existing, Sessions
<1>1. /\ req' = [req EXCEPT ![t] = Idle] /\ sess' = [sess EXCEPT ![s] = req[t].user]
      /\ proof' = [proof EXCEPT ![s] = req[t].want.hash]
      /\ excused' = IF req[t].late THEN excused \cup {s} ELSE excused
  BY DEF Open
<1>2. Sound(req[t])'
  BY <1>1, <1>t DEF Sound, Known, Patches, Opens, Idle
<1>3. s \in excused' \/ Followed(s)'
  <2>1. CASE req[t].late
    BY <1>1, <2>1
  <2>2. CASE ~req[t].late
    <3>1. req[t].want.hash = row[req[t].user].hash /\ row[req[t].user].active
      BY <2>2 DEF CInv, Sound, Opens
    <3>2. sess'[s] = req[t].user /\ proof'[s] = req[t].want.hash
      BY <1>1, <1>t
    <3> QED BY <1>1, <2>2, <3>1, <3>2 DEF Followed
  <2> QED BY <2>1, <2>2
<1>4. \A x \in Tokens \ {s} : sess'[x] = sess[x] /\ proof'[x] = proof[x]
  BY <1>1, <1>t
<1> QED BY <1>1, <1>2, <1>3, <1>4, <1>t, PassesInv DEF Keeps

LEMMA SessionsInv ==
  ASSUME CInv, TInv', NEW t \in Threads,
         (\E s \in Tokens : Issue(t, s)) \/ ChangeRevokes(t) \/ ChangeRestores(t)
  PROVE  CInv'
<1>t. /\ req \in [Threads -> Requests] /\ req[t] \in Requests /\ req[t].user \in Users
      /\ sess \in [Tokens -> Users \cup {None}] /\ row[req[t].user] # None
  BY DEF CInv, TInv, TypeOK, Requests, Existing, Sessions
<1>1. ASSUME NEW s \in Tokens, Issue(t, s)
      PROVE  CInv'
  BY <1>1, OpenInv DEF Issue, Fresh
<1>2. ASSUME ChangeRestores(t)
      PROVE  CInv'
  <2>1. req[t].token \in Tokens /\ (req[t].late \/ req[t].token \notin out \ excused)
    BY <1>2 DEF ChangeRestores, CInv, TInv, Restorable, Sound, Opens
  <2> QED BY <1>2, <2>1, OpenInv DEF ChangeRestores
<1>3. ASSUME ChangeRevokes(t)
      PROVE  CInv'
  <2> DEFINE r == [req[t] EXCEPT !.at = "revoked"]
  <2>1. req' = [req EXCEPT ![t] = r] /\ sess' = Without(req[t].user) /\ UNCHANGED <<row, made, history>>
    BY <1>3 DEF ChangeRevokes
  <2>2. /\ r.at = "revoked" /\ r.user = req[t].user /\ r.loaded = req[t].loaded
        /\ r.want = req[t].want /\ r.token = req[t].token /\ r.late = req[t].late
    BY <1>t DEF Requests
  <2>3. Sound(req[t]) /\ req[t].at = "changed"
    BY <1>3 DEF ChangeRevokes, CInv
  <2> HIDE DEF r
  <2>4. req'[t] = r
    BY <1>t, <2>1
  <2>5. Known(req[t])' /\ Patches(req[t])'
    BY <2>1, <2>2, <2>3, <2>4 DEF Sound, Known, Patches
  <2>6. Opens(req[t])'
    BY <2>1, <2>2, <2>3, <2>4 DEF Sound, Opens, history
  <2>7. \A s \in Tokens : sess'[s] # req[t].user /\ sess'[s] \in {sess[s], None}
    BY <1>t, <2>1, Constants DEF Without
  <2> QED BY <1>t, <2>1, <2>3, <2>5, <2>6, <2>7, PassesInv DEF Sound, history, Keeps
<1> QED BY <1>1, <1>2, <1>3

\* A commit overtakes the requests that would open a session of its account.
LEMMA OverlapsSound ==
  ASSUME CInv, NEW t \in Threads, NEW u \in Users, NEW r \in Requests, Overlaps(t, u, r),
         Sound(req[t])', made' \in Nat, made <= made', UNCHANGED <<out, excused>>,
         \A v \in Users \ {u} : row'[v] = row[v],
         \/ row'[u].hash > made
         \/ row'[u].hash = row[u].hash /\ row'[u].must = row[u].must /\ row'[u].temp = row[u].temp
  PROVE  \A x \in Threads : Sound(req[x])'
<1> SUFFICES ASSUME NEW x \in Threads \ {t} PROVE Sound(req[x])'
  OBVIOUS
<1>1. TInv /\ Sound(req[x]) /\ req[x].user \in Users
  BY DEF CInv, TInv, TypeOK, Requests
<1>2. /\ req'[x].user = req[x].user /\ req'[x].at = req[x].at
      /\ req'[x].loaded = req[x].loaded /\ req'[x].want = req[x].want
      /\ req'[x].token = req[x].token /\ req'[x].seen = req[x].seen
      /\ req'[x].late = (req[x].late \/ (req[x].user = u /\
           req[x].at \in {"login", "verified", "changing", "changed", "revoked"}))
  BY <1>1, OverlapsType DEF TInv
<1>3. Steady(x)
  BY <1>2 DEF Steady
<1>4. CASE req[x].user = u
  <2>1. req[x].at \in Openers => req'[x].late
    BY <1>2, <1>4 DEF Openers
  <2> QED BY <1>1, <1>3, <1>4, <2>1, SteadySound
<1>5. CASE req[x].user # u
  BY <1>1, <1>3, <1>5, SteadySound DEF Keeps
<1> QED BY <1>4, <1>5

\* What a commit writes, and where.
LEMMA WrittenColumns ==
  ASSUME TInv, NEW r \in Requests, row[r.user] # None, row' = [row EXCEPT ![r.user] = Written(r)]
  PROVE  /\ row'[r.user] # None
         /\ row'[r.user].hash = Column(r.loaded.hash, r.want.hash, row[r.user].hash)
         /\ row'[r.user].must = Column(r.loaded.must, r.want.must, row[r.user].must)
         /\ row'[r.user].temp = Column(r.loaded.temp, r.want.temp, row[r.user].temp)
         /\ row'[r.user].active = Column(r.loaded.active, r.want.active, row[r.user].active)
         /\ \A v \in Users \ {r.user} : row'[v] = row[v]
<1> DEFINE new == Written(r)
<1>1. new \in Accounts /\ r.user \in Users /\ row \in [Users -> Accounts \cup {None}]
  BY WrittenType DEF TInv, TypeOK, Requests
<1>2. /\ new.hash = Column(r.loaded.hash, r.want.hash, row[r.user].hash)
      /\ new.must = Column(r.loaded.must, r.want.must, row[r.user].must)
      /\ new.temp = Column(r.loaded.temp, r.want.temp, row[r.user].temp)
      /\ new.active = Column(r.loaded.active, r.want.active, row[r.user].active)
  BY DEF Written
<1>3. row' = [row EXCEPT ![r.user] = new]
  OBVIOUS
<1> HIDE DEF new
<1> QED BY <1>1, <1>2, <1>3, Constants

\* What is not to change the password, or to switch the account off, does not.
LEMMA WrittenStays ==
  ASSUME TInv, NEW r \in Requests, row[r.user] # None, row' = [row EXCEPT ![r.user] = Written(r)],
         r.want.hash = r.loaded.hash, r.want.must = r.loaded.must, r.want.temp = r.loaded.temp,
         r.want.active = r.loaded.active \/ r.want.active
  PROVE  /\ \A u \in Users : row[u] # None <=> row'[u] # None
         /\ \A u \in Users : row[u] # None => Keeps(u)
<1>1. Keeps(r.user)
  BY WrittenColumns DEF Column, Keeps
<1> QED BY <1>1, WrittenColumns DEF Keeps

\* Signing in writes neither the password nor the state.
LEMMA LoginInv ==
  ASSUME CInv, TInv', NEW t \in Threads, LoginFails(t) \/ LoginSucceeds(t)
  PROVE  CInv'
<1>t. /\ req \in [Threads -> Requests] /\ req[t] \in Requests /\ req[t].loaded \in Accounts
      /\ row[req[t].user] # None /\ sess \in [Tokens -> Users \cup {None}] /\ TInv
  BY DEF CInv, TInv, TypeOK, Requests, Existing, Sessions
<1>1. ASSUME NEW w \in Accounts, w.hash = req[t].loaded.hash, w.must = req[t].loaded.must,
             w.temp = req[t].loaded.temp, w.active = req[t].loaded.active,
             row' = [row EXCEPT ![[req[t] EXCEPT !.want = w].user] = Written([req[t] EXCEPT !.want = w])]
      PROVE  /\ \A u \in Users : row[u] # None <=> row'[u] # None
             /\ \A u \in Users : row[u] # None => Keeps(u)
  <2> DEFINE r == [req[t] EXCEPT !.want = w]
  <2>1. r \in Requests /\ r.user = req[t].user /\ r.loaded = req[t].loaded /\ r.want = w
    BY <1>t DEF Requests
  <2>2. row' = [row EXCEPT ![r.user] = Written(r)]
    BY <1>1
  <2> HIDE DEF r
  <2> QED BY <1>1, <1>t, <2>1, <2>2, WrittenStays
<1>2. CASE LoginFails(t)
  <2>1. Counted(req[t].loaded) \in Accounts
    BY <1>t, CountedType
  <2> DEFINE w == Counted(req[t].loaded)
  <2>2. w.hash = req[t].loaded.hash /\ w.must = req[t].loaded.must
        /\ w.temp = req[t].loaded.temp /\ w.active = req[t].loaded.active
    <3>1. CASE req[t].loaded.failed + 1 >= MaxFailedLogins
      BY <1>t, <3>1 DEF Counted, Accounts
    <3>2. CASE ~(req[t].loaded.failed + 1 >= MaxFailedLogins)
      BY <1>t, <3>2 DEF Counted, Accounts
    <3> QED BY <3>1, <3>2
  <2>3. row' = [row EXCEPT ![[req[t] EXCEPT !.want = w].user] = Written([req[t] EXCEPT !.want = w])]
        /\ req' = [req EXCEPT ![t] = Idle] /\ UNCHANGED <<sess, made, history>> /\ req[t].at = "login"
    BY <1>2 DEF LoginFails
  <2> HIDE DEF w
  <2>4. /\ \A u \in Users : row[u] # None <=> row'[u] # None
        /\ \A u \in Users : row[u] # None => Keeps(u)
    BY <1>1, <2>1, <2>2, <2>3 DEF w
  <2>5. Sound(req[t])'
    BY <1>t, <2>3 DEF Sound, Known, Patches, Opens, Idle
  <2> QED BY <1>t, <2>3, <2>4, <2>5, PassesInv DEF history
<1>3. CASE LoginSucceeds(t)
  <2> DEFINE w == [req[t].loaded EXCEPT !.failed = 0, !.locked = "never"]
             r == [req[t] EXCEPT !.want = w]
             v == [r EXCEPT !.at = "verified"]
  <2>1. w \in Accounts /\ w.hash = req[t].loaded.hash /\ w.must = req[t].loaded.must
        /\ w.temp = req[t].loaded.temp /\ w.active = req[t].loaded.active
    <3>1. 0 \in 0 .. MaxFailedLogins - 1
      BY Constants
    <3> QED BY <1>t, <3>1 DEF Accounts
  <2>2. /\ v.at = "verified" /\ v.user = req[t].user /\ v.loaded = req[t].loaded
        /\ v.want = w /\ v.token = req[t].token /\ v.late = req[t].late
    BY <1>t DEF Requests
  <2>3. /\ row' = [row EXCEPT ![[req[t] EXCEPT !.want = w].user] = Written([req[t] EXCEPT !.want = w])]
        /\ req' = [req EXCEPT ![t] = v] /\ sess' = Purged /\ UNCHANGED <<made, history>>
        /\ req[t].at = "login" /\ req[t].loaded.active
    <3>1. r.loaded = req[t].loaded
      BY <1>t DEF Requests
    <3> QED BY <1>3, <3>1 DEF LoginSucceeds
  <2> HIDE DEF w, r, v
  <2>4. /\ \A u \in Users : row[u] # None <=> row'[u] # None
        /\ \A u \in Users : row[u] # None => Keeps(u)
    BY <1>1, <2>1, <2>3
  <2>5. req'[t] = v /\ req[t].user \in Users /\ Sound(req[t])
    BY <1>t, <2>3 DEF CInv, Requests
  <2>6. Sound(req[t])'
    <3>1. Keeps(req[t].user)
      BY <1>t, <2>4, <2>5
    <3>2. Known(req[t])'
      BY <2>2, <2>3, <2>5, <3>1 DEF Sound, Known, Keeps
    <3>3. Patches(req[t])'
      BY <2>2, <2>5 DEF Patches
    <3>4. Opens(req[t])'
      BY <2>1, <2>2, <2>3, <2>5, <3>1 DEF Sound, Opens, Keeps
    <3> QED BY <3>2, <3>3, <3>4 DEF Sound
  <2>7. \A s \in Tokens : sess'[s] \in {sess[s], None}
    BY <1>t, <2>3 DEF Purged
  <2> QED BY <1>t, <2>3, <2>4, <2>6, <2>7, PassesInv DEF history
<1> QED BY <1>2, <1>3

\* An administrator's change ends the sessions of who is switched off.
LEMMA PatchInv ==
  ASSUME CInv, TInv', NEW t \in Threads, PatchCommits(t)
  PROVE  CInv'
<1> DEFINE r == req[t]
<1>t. /\ req \in [Threads -> Requests] /\ r \in Requests /\ r.user \in Users /\ row[r.user] # None
      /\ sess \in [Tokens -> Users \cup {None}] /\ TInv /\ made \in Nat
      /\ r.loaded.active \in BOOLEAN /\ r.want.active \in BOOLEAN
  BY DEF CInv, TInv, TypeOK, Requests, Existing, Sessions, Accounts
<1>1. r.want.hash = r.loaded.hash /\ r.want.must = r.loaded.must /\ r.want.temp = r.loaded.temp
  BY DEF PatchCommits, CInv, Sound, Patches
<1>2. /\ row' = [row EXCEPT ![r.user] = Written(r)] /\ UNCHANGED <<made, issued, proof, out, excused, mixed>>
      /\ r.at = "guarded"
  BY DEF PatchCommits
<1>3. CASE ~Deactivates(r)
  <2>1. req' = [req EXCEPT ![t] = Idle] /\ UNCHANGED sess
    BY <1>3 DEF PatchCommits
  <2>2. Sound(req[t])'
    BY <1>t, <2>1 DEF Sound, Known, Patches, Opens, Idle
  <2>3. r.want.active = r.loaded.active \/ r.want.active
    BY <1>t, <1>3 DEF Deactivates
  <2>4. /\ \A u \in Users : row[u] # None <=> row'[u] # None
        /\ \A u \in Users : row[u] # None => Keeps(u)
    BY <1>1, <1>2, <1>t, <2>3, WrittenStays
  <2> QED BY <1>2, <1>t, <2>1, <2>2, <2>4, PassesInv
<1>4. CASE Deactivates(r)
  <2>1. sess' = Without(r.user) /\ Overlaps(t, r.user, Idle)
    BY <1>4 DEF PatchCommits
  <2>2. req'[t] = Idle /\ \A x \in Threads \ {t} : req'[x].at = req[x].at /\ req'[x].user = req[x].user
    BY <1>t, <2>1, OverlapsType, IdleType DEF TInv
  <2>3. Sound(req[t])'
    BY <2>2 DEF Sound, Known, Patches, Opens, Idle
  <2>4. /\ row'[r.user] # None /\ row'[r.user].hash = row[r.user].hash
        /\ row'[r.user].must = row[r.user].must /\ row'[r.user].temp = row[r.user].temp
        /\ \A v \in Users \ {r.user} : row'[v] = row[v]
    BY <1>1, <1>2, <1>t, WrittenColumns DEF Column
  <2>5. \A x \in Threads : Sound(req[x])'
    BY <1>2, <1>t, <2>1, <2>3, <2>4, OverlapsSound, IdleType
  <2>6. Numbered' /\ IssuedIsReplaced'
    BY <1>2, <1>t, <2>4 DEF CInv, Numbered, IssuedIsReplaced
  <2>7. SessionsFollowAccount'
    <3>1. ASSUME NEW s \in Tokens, sess'[s] # None
          PROVE  /\ sess'[s] = sess[s] /\ sess[s] \in Users \ {r.user}
                 /\ row'[sess[s]] = row[sess[s]] /\ (Ending(sess[s]) => Ending(sess[s])')
      <4>1. sess'[s] = sess[s] /\ sess[s] \in Users \ {r.user}
        BY <1>t, <2>1, <3>1 DEF Without
      <4>2. Ending(sess[s]) => Ending(sess[s])'
        BY <1>2, <2>2, <4>1 DEF Ending
      <4> QED BY <2>4, <4>1, <4>2
    <3> QED BY <1>2, <3>1, FollowStep DEF CInv
  <2> QED BY <2>5, <2>6, <2>7 DEF CInv
<1> QED BY <1>3, <1>4

\* A temporary password ends the sessions with the commit that issues it.
LEMMA ResetInv ==
  ASSUME CInv, TInv', NEW t \in Threads, ResetCommits(t)
  PROVE  CInv'
<1> DEFINE r == [req[t] EXCEPT !.want = Reset(req[t].loaded)]
           n == made + 1
           a == row[req[t].user]
<1>t. /\ req \in [Threads -> Requests] /\ req[t] \in Requests /\ req[t].user \in Users /\ a # None
      /\ sess \in [Tokens -> Users \cup {None}] /\ TInv /\ made \in Nat /\ n \in Nat /\ n > made
      /\ req[t].loaded \in Accounts /\ a \in Accounts /\ mixed \subseteq Users
  BY DEF CInv, TInv, TypeOK, Requests, Existing, Sessions
<1>1. /\ r \in Requests /\ r.user = req[t].user /\ r.loaded = req[t].loaded
      /\ r.want.hash = n /\ r.want.must = TRUE /\ r.want.temp = n
  <2>1. Reset(req[t].loaded) \in Accounts
    BY <1>t, ResetType
  <2>2. Reset(req[t].loaded).hash = n /\ Reset(req[t].loaded).must = TRUE /\ Reset(req[t].loaded).temp = n
    BY <1>t DEF Reset, Accounts
  <2> QED BY <1>t, <2>1, <2>2 DEF Requests
<1>2. /\ row' = [row EXCEPT ![r.user] = Written(r)] /\ sess' = Without(r.user) /\ Overlaps(t, r.user, Idle)
      /\ made' = n /\ issued' = issued \cup {n} /\ mixed' = Mixed(r) /\ UNCHANGED <<proof, out, excused>>
      /\ req[t].at = "resetting"
  BY DEF ResetCommits, EndsSessions
<1> HIDE DEF r, n
<1>3. /\ row'[req[t].user] # None /\ \A v \in Users \ {req[t].user} : row'[v] = row[v]
      /\ row'[req[t].user].hash = Column(req[t].loaded.hash, n, a.hash)
      /\ row'[req[t].user].must = Column(req[t].loaded.must, TRUE, a.must)
      /\ row'[req[t].user].temp = Column(req[t].loaded.temp, n, a.temp)
  <2>1. row[r.user] # None
    BY <1>1, <1>t
  <2>2. /\ row'[r.user] # None
        /\ row'[r.user].hash = Column(r.loaded.hash, r.want.hash, row[r.user].hash)
        /\ row'[r.user].must = Column(r.loaded.must, r.want.must, row[r.user].must)
        /\ row'[r.user].temp = Column(r.loaded.temp, r.want.temp, row[r.user].temp)
        /\ \A v \in Users \ {r.user} : row'[v] = row[v]
    BY <1>1, <1>2, <1>t, <2>1, WrittenColumns
  <2> QED BY <1>1, <2>2
<1>4. /\ Known(req[t]) /\ a.hash <= made /\ a.temp <= made
      /\ req[t].loaded.hash <= made /\ req[t].loaded.temp <= made
      /\ req[t].loaded.hash = a.hash => req[t].loaded.must = a.must /\ req[t].loaded.temp = a.temp
  BY <1>2, <1>t DEF CInv, Numbered, Sound, Known
<1>5. row'[req[t].user].hash = n /\ row'[req[t].user].temp = n
  BY <1>3, <1>4, <1>t DEF Column, Accounts
<1>6. req[t].loaded.hash = a.hash => row'[req[t].user].must = TRUE
  <2>1. a.must \in BOOLEAN /\ req[t].loaded.must \in BOOLEAN
    BY <1>t DEF Accounts
  <2> QED BY <1>3, <1>4, <2>1 DEF Column
<1>7. req'[t] = Idle /\ \A x \in Threads \ {t} : req'[x].at = req[x].at /\ req'[x].user = req[x].user
  BY <1>1, <1>2, <1>t, OverlapsType, IdleType DEF TInv
<1>8. \A x \in Threads : Sound(req[x])'
  <2>1. Sound(req[t])'
    BY <1>7 DEF Sound, Known, Patches, Opens, Idle
  <2> QED BY <1>1, <1>2, <1>3, <1>5, <1>t, <2>1, OverlapsSound, IdleType
<1>9. Numbered'
  <2>1. \A k \in issued : k \in Nat /\ k <= made
    BY DEF CInv, Numbered, TInv, TypeOK
  <2>2. \A k \in issued' : k <= made'
    BY <1>2, <1>t, <2>1
  <2>3. ASSUME NEW v \in Users, row'[v] # None PROVE row'[v].hash <= made' /\ row'[v].temp <= made'
    <3>1. CASE v = req[t].user
      BY <1>2, <1>5, <1>t, <3>1
    <3>2. CASE v # req[t].user
      <4>1. row'[v] = row[v] /\ row[v] \in Accounts /\ row[v].hash <= made /\ row[v].temp <= made
        BY <1>3, <2>3, <3>2 DEF CInv, Numbered, TInv, TypeOK
      <4> QED BY <1>2, <1>t, <4>1 DEF Accounts
    <3> QED BY <3>1, <3>2
  <2> QED BY <2>2, <2>3 DEF Numbered
<1>10. IssuedIsReplaced'
  <2> SUFFICES ASSUME NEW v \in Users, row'[v] # None, v \notin mixed'
               PROVE  /\ row'[v].must <=> row'[v].hash \in issued'
                      /\ row'[v].temp = IF row'[v].hash \in issued' THEN row'[v].hash ELSE 0
    BY DEF IssuedIsReplaced
  <2>1. CASE v = req[t].user
    <3>1. req[t].loaded.hash = a.hash
      BY <1>1, <1>2, <2>1 DEF Mixed
    <3> QED BY <1>2, <1>5, <1>6, <2>1, <3>1
  <2>2. CASE v # req[t].user
    <3>1. row'[v] = row[v] /\ row[v] \in Accounts /\ row[v].hash <= made /\ v \notin mixed
      BY <1>1, <1>2, <1>3, <2>2 DEF CInv, Numbered, TInv, TypeOK, Mixed
    <3>2. row[v].hash \in issued' <=> row[v].hash \in issued
      BY <1>2, <1>t, <3>1 DEF Accounts
    <3> QED BY <3>1, <3>2 DEF CInv, IssuedIsReplaced
  <2> QED BY <2>1, <2>2
<1>11. SessionsFollowAccount'
  <2>1. ASSUME NEW s \in Tokens, sess'[s] # None
        PROVE  /\ sess'[s] = sess[s] /\ sess[s] \in Users \ {req[t].user}
               /\ row'[sess[s]] = row[sess[s]] /\ (Ending(sess[s]) => Ending(sess[s])')
    <3>1. sess'[s] = sess[s] /\ sess[s] \in Users \ {req[t].user}
      BY <1>1, <1>2, <1>t, <2>1 DEF Without
    <3>2. Ending(sess[s]) => Ending(sess[s])'
      BY <1>2, <1>7, <3>1 DEF Ending
    <3> QED BY <1>3, <3>1, <3>2
  <2> QED BY <1>2, <2>1, FollowStep DEF CInv
<1> QED BY <1>8, <1>9, <1>10, <1>11 DEF CInv

\* A password of one's own: the sessions there are go with the next commit.
LEMMA ChangeInv ==
  ASSUME CInv, TInv', NEW t \in Threads, ChangeCommits(t)
  PROVE  CInv'
<1> DEFINE r == [req[t] EXCEPT !.want = Own(req[t].loaded)]
           q == [r EXCEPT !.at = "changed"]
           n == made + 1
           a == row[req[t].user]
           b == row'[req[t].user]
<1>t. /\ req \in [Threads -> Requests] /\ req[t] \in Requests /\ req[t].user \in Users /\ a # None
      /\ sess \in [Tokens -> Users \cup {None}] /\ TInv /\ made \in Nat /\ n \in Nat /\ n > made
      /\ req[t].loaded \in Accounts /\ a \in Accounts /\ issued \subseteq Nat
  BY DEF CInv, TInv, TypeOK, Requests, Existing, Sessions
<1>1. /\ r \in Requests /\ r.user = req[t].user /\ r.loaded = req[t].loaded
      /\ r.want.hash = n /\ r.want.must = FALSE /\ r.want.temp = 0 /\ r.want.active = req[t].loaded.active
      /\ q \in Requests /\ q.at = "changed" /\ q.user = req[t].user /\ q.loaded = req[t].loaded
      /\ q.want.hash = n /\ q.token = req[t].token /\ q.late = req[t].late
  <2>1. Own(req[t].loaded) \in Accounts
    BY <1>t, ResetType
  <2>2. /\ Own(req[t].loaded).hash = n /\ Own(req[t].loaded).must = FALSE /\ Own(req[t].loaded).temp = 0
        /\ Own(req[t].loaded).active = req[t].loaded.active
    BY <1>t DEF Own, Accounts
  <2> QED BY <1>t, <2>1, <2>2 DEF Requests, Stages
<1>2. /\ row' = [row EXCEPT ![r.user] = Written(r)] /\ Overlaps(t, r.user, q)
      /\ made' = n /\ mixed' = Mixed(r) /\ UNCHANGED <<sess, issued, proof, out, excused>>
      /\ req[t].at = "changing"
  BY DEF ChangeCommits
<1> HIDE DEF r, q, n
<1>3. /\ b # None /\ \A v \in Users \ {req[t].user} : row'[v] = row[v]
      /\ b.hash = Column(req[t].loaded.hash, n, a.hash)
      /\ b.must = Column(req[t].loaded.must, FALSE, a.must)
      /\ b.temp = Column(req[t].loaded.temp, 0, a.temp)
      /\ b.active = a.active
  <2>1. row[r.user] # None
    BY <1>1, <1>t
  <2>2. /\ row'[r.user] # None
        /\ row'[r.user].hash = Column(r.loaded.hash, r.want.hash, row[r.user].hash)
        /\ row'[r.user].must = Column(r.loaded.must, r.want.must, row[r.user].must)
        /\ row'[r.user].temp = Column(r.loaded.temp, r.want.temp, row[r.user].temp)
        /\ row'[r.user].active = Column(r.loaded.active, r.want.active, row[r.user].active)
        /\ \A v \in Users \ {r.user} : row'[v] = row[v]
    BY <1>1, <1>2, <1>t, <2>1, WrittenColumns
  <2>3. row'[r.user].active = row[r.user].active
    BY <1>1, <2>2 DEF Column
  <2> QED BY <1>1, <2>2, <2>3
<1>4. /\ Sound(req[t]) /\ a.hash <= made /\ a.temp <= made
      /\ req[t].loaded.hash <= made /\ req[t].loaded.temp <= made
      /\ req[t].loaded.hash = a.hash => req[t].loaded.must = a.must /\ req[t].loaded.temp = a.temp
  BY <1>2, <1>t DEF CInv, Numbered, Sound, Known
<1>5. b.hash = n /\ b.hash > made
  BY <1>3, <1>4, <1>t DEF Column, Accounts
<1>6. req[t].loaded.hash = a.hash => b.must = FALSE /\ b.temp = 0
  <2>1. a.must \in BOOLEAN /\ req[t].loaded.must \in BOOLEAN
    BY <1>t DEF Accounts
  <2> QED BY <1>3, <1>4, <2>1 DEF Column
<1>7. req'[t] = q /\ \A x \in Threads \ {t} : req'[x].at = req[x].at /\ req'[x].user = req[x].user
  BY <1>1, <1>2, <1>t, OverlapsType DEF TInv
<1>8. \A x \in Threads : Sound(req[x])'
  <2>1. Known(req[t])'
    <3>1. q.loaded.hash \in Nat /\ q.loaded.temp \in Nat /\ q.loaded.hash <= made /\ q.loaded.temp <= made
      BY <1>1, <1>4, <1>t DEF Accounts
    <3>2. q.loaded.hash <= made' /\ q.loaded.temp <= made' /\ q.loaded.hash # row'[q.user].hash
      BY <1>1, <1>2, <1>5, <1>t, <3>1
    <3> QED BY <1>7, <3>2 DEF Known
  <2>2. Patches(req[t])'
    BY <1>1, <1>7 DEF Patches
  <2>3. Opens(req[t])'
    <3>1. CASE req[t].late
      BY <1>1, <1>7, <3>1 DEF Opens
    <3>2. CASE ~req[t].late
      <4>1. a.active /\ req[t].token \notin out \ excused
        BY <1>2, <1>4, <3>2 DEF Sound, Opens
      <4> QED BY <1>1, <1>2, <1>3, <1>5, <1>7, <4>1 DEF Opens
    <3> QED BY <3>1, <3>2
  <2> QED BY <1>1, <1>2, <1>3, <1>5, <1>t, <2>1, <2>2, <2>3, OverlapsSound DEF Sound
<1>9. Numbered'
  <2>1. \A k \in issued' : k <= made'
    BY <1>2, <1>t DEF CInv, Numbered
  <2>2. b.temp <= made'
    BY <1>2, <1>3, <1>4, <1>t DEF Column, Accounts
  <2>3. ASSUME NEW v \in Users, row'[v] # None PROVE row'[v].hash <= made' /\ row'[v].temp <= made'
    <3>1. CASE v = req[t].user
      BY <1>2, <1>5, <1>t, <2>2, <3>1
    <3>2. CASE v # req[t].user
      <4>1. row'[v] = row[v] /\ row[v] \in Accounts /\ row[v].hash <= made /\ row[v].temp <= made
        BY <1>3, <2>3, <3>2 DEF CInv, Numbered, TInv, TypeOK
      <4> QED BY <1>2, <1>t, <4>1 DEF Accounts
    <3> QED BY <3>1, <3>2
  <2> QED BY <2>1, <2>3 DEF Numbered
<1>10. IssuedIsReplaced'
  <2> SUFFICES ASSUME NEW v \in Users, row'[v] # None, v \notin mixed'
               PROVE  /\ row'[v].must <=> row'[v].hash \in issued'
                      /\ row'[v].temp = IF row'[v].hash \in issued' THEN row'[v].hash ELSE 0
    BY DEF IssuedIsReplaced
  <2>1. CASE v = req[t].user
    <3>1. req[t].loaded.hash = a.hash
      BY <1>1, <1>2, <2>1 DEF Mixed
    <3>2. n \notin issued
      BY <1>t DEF CInv, Numbered
    <3> QED BY <1>2, <1>5, <1>6, <2>1, <3>1, <3>2
  <2>2. CASE v # req[t].user
    <3>1. row'[v] = row[v] /\ v \notin mixed
      BY <1>1, <1>2, <1>3, <2>2 DEF Mixed
    <3> QED BY <1>2, <2>2, <3>1 DEF CInv, IssuedIsReplaced
  <2> QED BY <2>1, <2>2
<1>11. SessionsFollowAccount'
  <2>1. ASSUME NEW s \in Tokens, sess'[s] # None
        PROVE  /\ sess'[s] = sess[s]
               /\ row[sess[s]].active => row'[sess[s]].active
               /\ \/ row'[sess[s]].hash = row[sess[s]].hash /\ (Ending(sess[s]) => Ending(sess[s])')
                  \/ \E x \in Threads : req'[x].at = "changed" /\ req'[x].user = sess[s]
    <3>1. sess'[s] = sess[s] /\ sess[s] \in Users
      BY <1>2, <1>t, <2>1
    <3>2. CASE sess[s] = req[t].user
      BY <1>1, <1>3, <1>7, <3>1, <3>2
    <3>3. CASE sess[s] # req[t].user
      <4>1. Ending(sess[s]) => Ending(sess[s])'
        BY <1>2, <1>7, <3>1, <3>3 DEF Ending
      <4> QED BY <1>3, <3>1, <3>3, <4>1
    <3> QED BY <3>2, <3>3
  <2> QED BY <1>2, <2>1, FollowStep DEF CInv
<1> QED BY <1>8, <1>9, <1>10, <1>11 DEF CInv

\* A new account has nobody's session and nobody's request.
LEMMA NewInv ==
  ASSUME CInv, TInv', NEW t \in Threads, NEW u \in Users,
         CreateAdmin(t, u) \/ \E role \in Roles : CreateUser(t, u, role)
  PROVE  CInv'
<1> DEFINE n == made + 1
<1>t. /\ req \in [Threads -> Requests] /\ sess \in [Tokens -> Users \cup {None}] /\ TInv
      /\ row \in [Users -> Accounts \cup {None}] /\ made \in Nat /\ n \in Nat /\ n > made /\ issued \subseteq Nat
      /\ \A x \in Threads : req[x].user \in Users /\ row[req[x].user] # None
      /\ \A s \in Tokens : sess[s] # None => sess[s] \in Users /\ row[sess[s]] # None
  BY DEF CInv, TInv, TypeOK, Requests, Existing, Sessions
<1>1. /\ row[u] = None /\ made' = n /\ req' = [req EXCEPT ![t] = Idle]
      /\ UNCHANGED <<sess, proof, out, excused, mixed>>
      /\ req[t].at \in {"idle", "admitted"}
  BY DEF CreateAdmin, CreateUser, Begin
<1>2. \/ issued' = issued /\ row'[u].hash = n /\ row'[u].must = FALSE /\ row'[u].temp = 0
      \/ issued' = issued \cup {n} /\ row'[u].hash = n /\ row'[u].must = TRUE /\ row'[u].temp = n
  <2>1. CASE CreateAdmin(t, u)
    <3> DEFINE a == [Chosen("admin") EXCEPT !.hash = n]
    <3>1. a.hash = n /\ a.must = FALSE /\ a.temp = 0
      BY DEF Chosen
    <3>2. row' = [row EXCEPT ![u] = a] /\ issued' = issued
      BY <2>1 DEF CreateAdmin
    <3> HIDE DEF a
    <3> QED BY <1>t, <3>1, <3>2
  <2>2. ASSUME NEW role \in Roles, CreateUser(t, u, role)
        PROVE  issued' = issued \cup {n} /\ row'[u].hash = n /\ row'[u].must = TRUE /\ row'[u].temp = n
    <3> DEFINE a == Reset(Chosen(role))
    <3>1. a.hash = n /\ a.must = TRUE /\ a.temp = n
      BY ChosenType DEF Reset, Accounts
    <3>2. row' = [row EXCEPT ![u] = a] /\ issued' = issued \cup {n}
      BY <2>2 DEF CreateUser
    <3> HIDE DEF a
    <3> QED BY <1>t, <3>1, <3>2
  <2> QED BY <2>1, <2>2
<1>3. \A v \in Users \ {u} : row'[v] = row[v]
  BY <1>t DEF CreateAdmin, CreateUser
<1> HIDE DEF n
<1>4. \A x \in Threads : Sound(req[x])'
  <2>1. Sound(req[t])'
    BY <1>1, <1>t DEF Sound, Known, Patches, Opens, Idle
  <2>2. ASSUME NEW x \in Threads \ {t} PROVE Sound(req[x])'
    <3>1. req'[x] = req[x] /\ req[x].user \in Users \ {u} /\ Sound(req[x])
      BY <1>1, <1>t DEF CInv
    <3>2. Steady(x) /\ Keeps(req[x].user)
      BY <1>3, <3>1 DEF Steady, Keeps
    <3> QED BY <1>1, <1>t, <3>1, <3>2, SteadySound
  <2> QED BY <2>1, <2>2
<1>5. Numbered'
  <2>1. \A k \in issued : k \in Nat /\ k <= made
    BY <1>t DEF CInv, Numbered
  <2>2. \A k \in issued' : k <= made'
    <3>1. issued' \subseteq issued \cup {n}
      BY <1>2
    <3> QED BY <1>1, <1>t, <2>1, <3>1
  <2>3. ASSUME NEW v \in Users, row'[v] # None PROVE row'[v].hash <= made' /\ row'[v].temp <= made'
    <3>1. CASE v = u
      <4>1. row'[u].hash = n /\ (row'[u].temp = 0 \/ row'[u].temp = n)
        BY <1>2
      <4>2. row'[u].hash <= n /\ row'[u].temp <= n
        BY <1>t, <4>1
      <4> QED BY <1>1, <3>1, <4>2
    <3>2. CASE v # u
      <4>1. row'[v] = row[v] /\ row[v] \in Accounts /\ row[v].hash <= made /\ row[v].temp <= made
        BY <1>3, <1>t, <2>3, <3>2 DEF CInv, Numbered
      <4> QED BY <1>1, <1>t, <4>1 DEF Accounts
    <3> QED BY <3>1, <3>2
  <2> QED BY <2>2, <2>3 DEF Numbered
<1>6. IssuedIsReplaced'
  <2> SUFFICES ASSUME NEW v \in Users, row'[v] # None, v \notin mixed'
               PROVE  /\ row'[v].must <=> row'[v].hash \in issued'
                      /\ row'[v].temp = IF row'[v].hash \in issued' THEN row'[v].hash ELSE 0
    BY DEF IssuedIsReplaced
  <2>1. CASE v = u
    <3>1. n \notin issued
      BY <1>t DEF CInv, Numbered
    <3> QED BY <1>2, <2>1, <3>1
  <2>2. CASE v # u
    <3>1. row'[v] = row[v] /\ row[v] \in Accounts /\ row[v].hash <= made /\ v \notin mixed
      BY <1>1, <1>3, <1>t, <2>2 DEF CInv, Numbered
    <3>2. row[v].hash \in issued' <=> row[v].hash \in issued
      BY <1>2, <1>t, <3>1 DEF Accounts
    <3> QED BY <2>2, <3>1, <3>2 DEF CInv, IssuedIsReplaced
  <2> QED BY <2>1, <2>2
<1>7. SessionsFollowAccount'
  <2>1. ASSUME NEW s \in Tokens, sess'[s] # None
        PROVE  /\ sess'[s] = sess[s] /\ row'[sess[s]] = row[sess[s]]
               /\ (Ending(sess[s]) => Ending(sess[s])')
    <3>1. sess'[s] = sess[s] /\ sess[s] \in Users \ {u}
      BY <1>1, <1>t, <2>1
    <3>2. Ending(sess[s]) => Ending(sess[s])'
      BY <1>1, <1>t, <3>1 DEF Ending
    <3> QED BY <1>3, <3>1, <3>2
  <2> QED BY <1>1, <2>1, FollowStep DEF CInv
<1> QED BY <1>4, <1>5, <1>6, <1>7 DEF CInv

\* A session that is logged out stays out, and so does the request it was
\* made with; a service that dies leaves no request.
LEMMA EndsInv ==
  ASSUME CInv, TInv', (\E s \in Tokens : Logout(s)) \/ Crash
  PROVE  CInv'
<1>t. /\ req \in [Threads -> Requests] /\ sess \in [Tokens -> Users \cup {None}] /\ TInv /\ made \in Nat
      /\ \A x \in Threads : req[x] \in Requests /\ req[x].user \in Users /\ Sound(req[x])
  BY DEF CInv, TInv, TypeOK, Requests, Sessions
<1>1. CASE Crash
  <2>1. /\ \A x \in Threads : req'[x] = Idle
        /\ UNCHANGED <<row, sess, made, issued, proof, out, mixed>>
        /\ excused' = excused \cup {s \in Tokens : \E x \in Threads :
                                      req[x].at = "changed" /\ req[x].user = sess[s]}
    BY <1>1 DEF Crash, stored
  <2>2. \A x \in Threads : Sound(req[x])'
    BY <2>1 DEF Sound, Known, Patches, Opens, Idle
  <2>3. Numbered' /\ IssuedIsReplaced'
    BY <2>1 DEF CInv, Numbered, IssuedIsReplaced
  <2>4. SessionsFollowAccount'
    <3>1. \A s \in Tokens : s \notin excused' => ~Ending(sess[s])
      BY <2>1 DEF Ending
    <3> QED BY <2>1, <3>1, FollowStep DEF CInv
  <2> QED BY <2>2, <2>3, <2>4 DEF CInv
<1>2. ASSUME NEW s \in Tokens, Logout(s)
      PROVE  CInv'
  <2>1. /\ sess' = [sess EXCEPT ![s] = None] /\ out' = out \cup {s}
        /\ UNCHANGED <<row, made, issued, proof, excused, mixed>>
        /\ req' = [x \in Threads |-> IF req[x].token = s THEN [req[x] EXCEPT !.late = TRUE] ELSE req[x]]
    BY <1>2 DEF Logout
  <2>2. ASSUME NEW x \in Threads
        PROVE  Steady(x) /\ (req[x].token = s => req'[x].late)
    <3> DEFINE l == [req[x] EXCEPT !.late = TRUE]
    <3>1. /\ l.at = req[x].at /\ l.user = req[x].user /\ l.loaded = req[x].loaded /\ l.want = req[x].want
          /\ l.token = req[x].token /\ l.late = TRUE
      BY <1>t DEF Requests
    <3>2. req'[x] = IF req[x].token = s THEN l ELSE req[x]
      BY <2>1
    <3> HIDE DEF l
    <3> QED BY <3>1, <3>2 DEF Steady
  <2>3. \A x \in Threads : Sound(req[x])'
    <3> SUFFICES ASSUME NEW x \in Threads PROVE Sound(req[x])'
      OBVIOUS
    <3>1. Keeps(req[x].user)
      BY <2>1 DEF Keeps
    <3>2. ~req'[x].late => (req[x].token \in out' \ excused' => req[x].token \in out \ excused)
      BY <2>1, <2>2
    <3> QED BY <1>t, <2>1, <2>2, <3>1, <3>2, SteadySound
  <2>4. Numbered' /\ IssuedIsReplaced'
    BY <2>1 DEF CInv, Numbered, IssuedIsReplaced
  <2>5. SessionsFollowAccount'
    <3>1. ASSUME NEW k \in Tokens, sess'[k] # None
          PROVE  k # s /\ sess'[k] = sess[k] /\ (Ending(sess[k]) => Ending(sess[k])')
      <4>1. k # s /\ sess'[k] = sess[k]
        BY <1>t, <2>1, <3>1
      <4>2. Ending(sess[k]) => Ending(sess[k])'
        BY <2>1, <2>2, <4>1 DEF Ending, Steady
      <4> QED BY <4>1, <4>2
    <3>2. \A k \in Tokens : sess'[k] # None => (k \in out' => k \in out)
      BY <2>1, <3>1
    <3> QED BY <2>1, <3>1, <3>2, FollowStep DEF CInv
  <2> QED BY <2>3, <2>4, <2>5 DEF CInv
<1> QED BY <1>1, <1>2

\* A lock that runs out, and a lifetime that ends, change no password.
LEMMA TimeInv ==
  ASSUME CInv, TInv', TimePasses \/ UNCHANGED vars
  PROVE  CInv'
<1>t. /\ TInv /\ made \in Nat /\ row \in [Users -> Accounts \cup {None}]
      /\ \A x \in Threads : req[x].user \in Users /\ row[req[x].user] # None /\ Sound(req[x])
      /\ \A s \in Tokens : sess[s] # None => sess[s] \in Users /\ row[sess[s]] # None
  BY DEF CInv, TInv, TypeOK, Requests, Existing, Sessions
<1>1. UNCHANGED <<sess, req, made, history>>
  BY DEF TimePasses, vars, stored
<1>2. \A u \in Users : row[u] # None => row'[u] # None /\ Keeps(u)
  <2>1. CASE \E u \in Users : /\ row[u] # None
                              /\ row' = [row EXCEPT ![u] = [row[u] EXCEPT !.locked = "past"]]
    <3> PICK u \in Users : row[u] # None /\ row' = [row EXCEPT ![u] = [row[u] EXCEPT !.locked = "past"]]
      BY <2>1
    <3> DEFINE past == [row[u] EXCEPT !.locked = "past"]
    <3>1. /\ past \in Accounts /\ past.hash = row[u].hash /\ past.must = row[u].must
          /\ past.temp = row[u].temp /\ past.active = row[u].active
      BY <1>t DEF Accounts
    <3>2. \A x \in Users : row'[x] = IF x = u THEN past ELSE row[x]
      BY <1>t
    <3> HIDE DEF past
    <3> QED BY <3>1, <3>2, Constants DEF Keeps
  <2>2. CASE UNCHANGED row
    BY <2>2 DEF Keeps
  <2> QED BY <2>1, <2>2 DEF TimePasses, Lapse, vars, stored
<1>3. \A u \in Users : row'[u] # None => row[u] # None
  BY <1>t DEF TimePasses, Lapse, vars, stored
<1>4. Numbered' /\ IssuedIsReplaced'
  BY <1>1, <1>2, <1>3 DEF CInv, Numbered, IssuedIsReplaced, Keeps, history
<1>5. \A x \in Threads : Sound(req[x])'
  <2> SUFFICES ASSUME NEW x \in Threads PROVE Sound(req[x])'
    OBVIOUS
  <2>1. Steady(x) /\ Keeps(req[x].user)
    BY <1>1, <1>2, <1>t DEF Steady
  <2> QED BY <1>1, <1>t, <2>1, SteadySound DEF history
<1>6. SessionsFollowAccount'
  <2>1. \A s \in Tokens : sess[s] # None => Keeps(sess[s]) /\ (Ending(sess[s]) => Ending(sess[s])')
    BY <1>1, <1>2, <1>t DEF Ending
  <2> QED BY <1>1, <2>1, FollowStep DEF CInv, Keeps, history
<1> QED BY <1>4, <1>5, <1>6 DEF CInv

LEMMA CredentialsInit == Init => CInv
<1> SUFFICES ASSUME Init PROVE CInv
  OBVIOUS
<1>t. TInv
  BY TypeInit
<1>1. \A u \in Users : row[u] # None =>
        row[u].hash = 0 /\ row[u].must = FALSE /\ row[u].temp = 0 /\ row[u].active = TRUE
  <2>1. \A u \in Users : row[u] # None => row[u] = Chosen("analyst") \/ row[u] = Chosen("admin")
    BY DEF Init
  <2> QED BY <2>1 DEF Chosen
<1>2. made = 0 /\ issued = {} /\ out = {} /\ proof = [s \in Tokens |-> 0] /\ req = [t \in Threads |-> Idle]
  BY DEF Init
<1>3. Numbered
  BY <1>1, <1>2 DEF Numbered
<1>4. \A t \in Threads : Sound(req[t])
  BY <1>2 DEF Sound, Known, Patches, Opens, Idle
<1>5. IssuedIsReplaced
  BY <1>1, <1>2 DEF IssuedIsReplaced
<1>6. SessionsFollowAccount
  <2>1. \A s \in Tokens : sess[s] # None => sess[s] \in Users /\ row[sess[s]] # None
    BY <1>t DEF TInv, TypeOK, Sessions, Existing
  <2> QED BY <1>1, <1>2, <2>1 DEF SessionsFollowAccount
<1> QED BY <1>t, <1>3, <1>4, <1>5, <1>6 DEF CInv

LEMMA CredentialsNext == CInv /\ [Next]_vars => CInv'
<1> SUFFICES ASSUME CInv, [Next]_vars PROVE CInv'
  OBVIOUS
<1>t. TInv'
  BY TypeStep DEF CInv
<1>1. ASSUME NEW t \in Threads, Works(t) PROVE CInv'
  BY <1>1, <1>t, WorksInv
<1>2. ASSUME NEW t \in Threads, (\E s \in Tokens : Issue(t, s)) \/ ChangeRevokes(t) \/ ChangeRestores(t)
      PROVE  CInv'
  BY <1>2, <1>t, SessionsInv
<1>3. ASSUME NEW t \in Threads, LoginFails(t) \/ LoginSucceeds(t) PROVE CInv'
  BY <1>3, <1>t, LoginInv
<1>4. ASSUME NEW t \in Threads, PatchCommits(t) \/ ResetCommits(t) \/ ChangeCommits(t) PROVE CInv'
  BY <1>4, <1>t, PatchInv, ResetInv, ChangeInv
<1>5. ASSUME NEW t \in Threads, NEW u \in Users, CreateAdmin(t, u) \/ \E role \in Roles : CreateUser(t, u, role)
      PROVE  CInv'
  BY <1>5, <1>t, NewInv
<1>6. ASSUME (\E s \in Tokens : Logout(s)) \/ Crash PROVE CInv'
  BY <1>6, <1>t, EndsInv
<1>7. ASSUME TimePasses \/ UNCHANGED vars PROVE CInv'
  BY <1>7, <1>t, TimeInv
<1> QED BY <1>1, <1>2, <1>3, <1>4, <1>5, <1>6, <1>7 DEF Next, Works

\* Whatever requests race, a session is of an account as it is: of its password
\* and its state, and never one that was logged out, but for the sessions whose
\* opening overlapped what should have ended them (auth/sessions.py).
THEOREM SessionsFollow == Spec => []SessionsFollowAccount
<1>1. CInv => SessionsFollowAccount
  BY DEF CInv
<1> QED BY CredentialsInit, CredentialsNext, <1>1, PTL DEF Spec

\* A password somebody else issued has to be changed and expires, and one its
\* owner chose does neither, unless two writes of the password overlapped:
\* must_change_password and temp_password_expires_at follow password_hash.
THEOREM IssuedReplaced == Spec => []IssuedIsReplaced
<1>1. CInv => IssuedIsReplaced
  BY DEF CInv
<1> QED BY CredentialsInit, CredentialsNext, <1>1, PTL DEF Spec
=============================================================================
