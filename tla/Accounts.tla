------------------------------ MODULE Accounts ------------------------------
(***************************************************************************)
(* Accounts (features/users/service.py, and the commands of cli.py that    *)
(* create and reset them) and what signing in does to them                 *)
(* (features/auth/service.py, auth/sessions.py, auth/router.py), on        *)
(* Postgres at READ COMMITTED.                                             *)
(*                                                                         *)
(* Every request works from the account as its session loaded it.  It is   *)
(* neither read again nor expired by a commit, an UPDATE names only the    *)
(* columns that differ from what was loaded, and hashing a password or     *)
(* checking one takes long enough for other requests to come between.      *)
(* Time is what has run out: a lock, a temporary password, a session.      *)
(***************************************************************************)
EXTENDS Naturals, FiniteSets

CONSTANTS
  Users,
  First,            \* the administrator created at the console
  Threads,          \* requests in flight, and commands at the console
  Tokens,           \* sessions, by digest
  SignedIn,         \* the sessions there are at the start, and of whom
  MaxFailedLogins,
  MaxRequests,      \* bound on the requests that are made
  None

VARIABLES
  row,        \* row[u]: the stored account
  lock,       \* lock[u]: the transaction that holds the row FOR UPDATE
  sess,       \* sess[s]: whose session it is
  over,       \* the sessions whose expires_at has passed
  trail,      \* trail[u]: the role and the state the audit log says u has
  req,        \* req[t]: the request a thread is serving
  begun, made,\* how many requests were made, and passwords hashed
  issued,     \* history: the passwords an administrator or the console issued
  proof,      \* history: proof[s]: the password that opened session s
  out,        \* history: the sessions that were logged out
  excused,    \* history: sessions whose opening overlapped a change of the account
  mixed,      \* history: accounts whose row two overlapping requests wrote
  raced       \* history: a change skipped the guard on what it had loaded

stored == <<row, sess, over, trail>>
history == <<issued, proof, out, excused, mixed, raced>>
vars == <<stored, lock, req, begun, made, history>>

Roles == {"admin", "analyst"}

\* hash and temp are numbers of passwords: the one whose hash is stored, and
\* the one whose expiry is in temp_password_expires_at (0: none).
Accounts == [role : Roles, active : BOOLEAN, hash : Nat, must : BOOLEAN, temp : Nat,
             failed : 0 .. MaxFailedLogins - 1, locked : {"never", "held", "past"}]

Stages == {"idle", "admitted", "loaded", "counting", "guarded",
           "resetting", "login", "verified", "changing", "changed", "revoked"}

\* loaded is the row as the session has it, want what the handler makes of it;
\* seen, the administrators the guard's query found; late, history: the
\* account's password or state changed, or its session ended, meanwhile.
Requests == [at : Stages, user : Users, loaded : Accounts, want : Accounts,
             token : Tokens \cup {None}, seen : SUBSET Users, late : BOOLEAN]

\* One row for each browser that is signed in.
Sessions == [Tokens -> Users \cup {None}]

ASSUME AccountsAssumption ==
  /\ First \in Users /\ SignedIn \in Sessions
  /\ MaxFailedLogins \in Nat \ {0} /\ MaxRequests \in Nat
  /\ None \notin Users /\ None \notin Tokens /\ None \notin Threads
  /\ None \notin Accounts

TypeOK ==
  /\ row \in [Users -> Accounts \cup {None}]
  /\ lock \in [Users -> Threads \cup {None}]
  /\ sess \in Sessions /\ over \subseteq Tokens
  /\ trail \in [Users -> [role : Roles, active : BOOLEAN]]
  /\ req \in [Threads -> Requests]
  /\ begun \in 0 .. MaxRequests /\ made \in Nat
  /\ issued \subseteq Nat /\ proof \in [Tokens -> Nat]
  /\ out \subseteq Tokens /\ excused \subseteq Tokens /\ mixed \subseteq Users /\ raced \in BOOLEAN

Chosen(role) == [role |-> role, active |-> TRUE, hash |-> 0, must |-> FALSE, temp |-> 0,
                 failed |-> 0, locked |-> "never"]
Idle == [at |-> "idle", user |-> First, loaded |-> Chosen("admin"),
         want |-> Chosen("admin"), token |-> None, seen |-> {}, late |-> FALSE]

\* The first administrator exists, and others may.
Init ==
  /\ row \in [Users -> {None, Chosen("analyst"), Chosen("admin")}]
  /\ row[First] = Chosen("admin")
  /\ sess = [s \in Tokens |->
       IF SignedIn[s] # None /\ row[SignedIn[s]] # None THEN SignedIn[s] ELSE None]
  /\ trail = [u \in Users |-> [role |-> IF row[u] = None THEN "analyst" ELSE row[u].role,
                               active |-> TRUE]]
  /\ lock = [u \in Users |-> None] /\ over = {}
  /\ req = [t \in Threads |-> Idle]
  /\ begun = 0 /\ made = 0
  /\ issued = {} /\ proof = [s \in Tokens |-> 0]
  /\ out = {} /\ excused = {} /\ mixed = {} /\ raced = FALSE

-----------------------------------------------------------------------------
(* Rows and transactions.                                                  *)

IsActiveAdmin(a) == a # None /\ a.role = "admin" /\ a.active
ActiveAdmins == {u \in Users : IsActiveAdmin(row[u])}

\* An UPDATE waits for whoever holds the row.
Free(t, u) == lock[u] \in {None, t}
Unlocked(t) == [u \in Users |-> IF lock[u] = t THEN None ELSE lock[u]]

\* A column is written if it is to differ from what was loaded.
Column(loaded, wanted, now) == IF wanted = loaded THEN now ELSE wanted
Written(r) ==
  LET now == row[r.user]
  IN [role   |-> Column(r.loaded.role, r.want.role, now.role),
      active |-> Column(r.loaded.active, r.want.active, now.active),
      hash   |-> Column(r.loaded.hash, r.want.hash, now.hash),
      must   |-> Column(r.loaded.must, r.want.must, now.must),
      temp   |-> Column(r.loaded.temp, r.want.temp, now.temp),
      failed |-> Column(r.loaded.failed, r.want.failed, now.failed),
      locked |-> Column(r.loaded.locked, r.want.locked, now.locked)]

Without(u) == [s \in Tokens |-> IF sess[s] = u THEN None ELSE sess[s]]

\* The requests, other than t's, that are opening a session of u or will put
\* back the one they were made with are late; t's becomes r.
Overlaps(t, u, r) ==
  req' = [x \in Threads |->
    IF x = t THEN r
    ELSE IF req[x].user = u /\ req[x].at \in {"login", "verified", "changing", "changed", "revoked"}
      THEN [req[x] EXCEPT !.late = TRUE]
      ELSE req[x]]

\* Whether another request wrote the password since this one loaded the row.
Mixed(r) == IF r.loaded.hash = row[r.user].hash THEN mixed \ {r.user} ELSE mixed \cup {r.user}

Begin(t, r) ==
  /\ req[t].at = "idle" /\ begun < MaxRequests
  /\ begun' = begun + 1
  /\ req' = [req EXCEPT ![t] = r]

-----------------------------------------------------------------------------
(* Sessions (auth/sessions.py).                                            *)

\* resolve: the account behind a token, if both are still good.
Resolves(s) == sess[s] # None /\ s \notin over /\ row[sess[s]].active

\* issue, and issue_with_id.
Open(t, s) ==
  /\ sess' = [sess EXCEPT ![s] = req[t].user]
  /\ proof' = [proof EXCEPT ![s] = req[t].want.hash]
  /\ excused' = IF req[t].late THEN excused \cup {s} ELSE excused
  /\ req' = [req EXCEPT ![t] = Idle]

\* POST /auth/logout: revoke. It takes no live account.
Logout(s) ==
  /\ sess[s] # None
  /\ sess' = [sess EXCEPT ![s] = None]
  /\ req' = [x \in Threads |-> IF req[x].token = s THEN [req[x] EXCEPT !.late = TRUE] ELSE req[x]]
  /\ out' = out \cup {s}
  /\ UNCHANGED <<row, over, trail, lock, begun, made, issued, proof, excused, mixed, raced>>

-----------------------------------------------------------------------------
(* Administration (users/service.py, cli.py).                              *)

\* current_user, require_user and require_admin: the account is in the session
\* from here on, also as the target if an administrator's target is itself.
Admit(t, s) ==
  /\ Resolves(s)
  /\ row[sess[s]].role = "admin" /\ ~row[sess[s]].must
  /\ Begin(t, [Idle EXCEPT !.at = "admitted", !.user = sess[s],
                           !.loaded = row[sess[s]], !.want = row[sess[s]]])
  /\ UNCHANGED <<stored, lock, made, history>>

\* _get_or_404.
Target(t, u) == IF u = req[t].user THEN req[t].loaded ELSE row[u]

\* update_user up to the guard, which returns early for a target that was not
\* loaded as an active administrator.
PatchLoads(t, u, role, active) ==
  /\ req[t].at = "admitted" /\ row[u] # None
  /\ LET a == Target(t, u)
         guarded == IsActiveAdmin(a) /\ (role = "analyst" \/ ~active)
     IN req' = [req EXCEPT ![t] = [Idle EXCEPT
          !.at = IF guarded THEN "loaded" ELSE "guarded",
          !.user = u, !.loaded = a, !.want = [a EXCEPT !.role = role, !.active = active]]]
  /\ UNCHANGED <<stored, lock, begun, made, history>>

\* SELECT ... FOR UPDATE finds its rows, then locks those that still match once
\* nobody else holds them.
Finds(t) ==
  /\ req[t].at = "loaded"
  /\ req' = [req EXCEPT ![t] = [req[t] EXCEPT !.at = "counting", !.seen = ActiveAdmins]]
  /\ UNCHANGED <<stored, lock, begun, made, history>>

\* Mutant: the rows are counted and not locked, as before the fix.
LocksNothing(t, locked) == UNCHANGED lock
Locks(t, locked) == lock' = [u \in Users |-> IF u \in locked THEN t ELSE lock[u]]

\* guard_last_admin: more than one is left, or the change is refused.
Guard(t) ==
  LET locked == req[t].seen \cap ActiveAdmins
  IN /\ req[t].at = "counting" /\ \A u \in req[t].seen : Free(t, u)
     /\ \/ /\ \E u, v \in locked : u # v
           /\ Locks(t, locked)
           /\ req' = [req EXCEPT ![t] = [req[t] EXCEPT !.at = "guarded"]]
        \/ /\ ~\E u, v \in locked : u # v
           /\ req' = [req EXCEPT ![t] = Idle]
           /\ UNCHANGED lock
     /\ UNCHANGED <<stored, begun, made, history>>

Deactivates(r) == r.loaded.active /\ ~r.want.active

\* Mutant: an entry tells both fields, as the request left them.
TrailOfBoth(r) == [role |-> r.want.role, active |-> r.want.active]
\* audit_service.record, for the fields that moved.
Trail(r) == [role   |-> Column(r.loaded.role, r.want.role, trail[r.user].role),
             active |-> Column(r.loaded.active, r.want.active, trail[r.user].active)]

\* The rest of update_user: one commit of the row, the end of the sessions and
\* the audit entries.
PatchCommits(t) ==
  LET r == req[t]
  IN /\ r.at = "guarded" /\ Free(t, r.user)
     /\ row' = [row EXCEPT ![r.user] = Written(r)]
     /\ trail' = [trail EXCEPT ![r.user] = Trail(r)]
     /\ lock' = Unlocked(t)
     /\ IF Deactivates(r)
          THEN sess' = Without(r.user) /\ Overlaps(t, r.user, Idle)
          ELSE req' = [req EXCEPT ![t] = Idle] /\ UNCHANGED sess
     /\ raced' = (raced \/ (IsActiveAdmin(row[r.user]) /\ ~IsActiveAdmin(r.loaded)
                              /\ ~IsActiveAdmin(Written(r))))
     /\ UNCHANGED <<over, begun, made, issued, proof, out, excused, mixed>>

\* The temporary password of reset_password and of the console's command.
Reset(a) == [a EXCEPT !.hash = made + 1, !.must = TRUE, !.temp = made + 1,
                      !.failed = 0, !.locked = "never"]

ResetLoads(t, u) ==
  /\ req[t].at = "admitted" /\ row[u] # None
  /\ req' = [req EXCEPT ![t] = [Idle EXCEPT
       !.at = "resetting", !.user = u, !.loaded = Target(t, u), !.want = Target(t, u)]]
  /\ UNCHANGED <<stored, lock, begun, made, history>>

ConsoleResets(t, u) ==
  /\ row[u] # None
  /\ Begin(t, [Idle EXCEPT !.at = "resetting", !.user = u, !.loaded = row[u], !.want = row[u]])
  /\ UNCHANGED <<stored, lock, made, history>>

\* Mutant: the sessions are left to a second transaction.
EndsNoSessions(t, r) == UNCHANGED sess /\ Overlaps(t, r.user, Idle)
EndsSessions(t, r) == sess' = Without(r.user) /\ Overlaps(t, r.user, Idle)

\* One commit: the credential, the lock and the sessions.
ResetCommits(t) ==
  LET r == [req[t] EXCEPT !.want = Reset(req[t].loaded)]
  IN /\ req[t].at = "resetting" /\ Free(t, r.user)
     /\ row' = [row EXCEPT ![r.user] = Written(r)]
     /\ EndsSessions(t, r)
     /\ made' = made + 1 /\ issued' = issued \cup {made + 1}
     /\ mixed' = Mixed(r)
     /\ UNCHANGED <<over, trail, lock, begun, proof, out, excused, raced>>

\* create_user: of two that race for one address, the unique index lets one in.
CreateUser(t, u, role) ==
  /\ req[t].at = "admitted" /\ row[u] = None
  /\ row' = [row EXCEPT ![u] = Reset(Chosen(role))]
  /\ trail' = [trail EXCEPT ![u] = [role |-> role, active |-> TRUE]]
  /\ made' = made + 1 /\ issued' = issued \cup {made + 1}
  /\ req' = [req EXCEPT ![t] = Idle]
  /\ UNCHANGED <<sess, over, lock, begun, proof, out, excused, mixed, raced>>

\* create-admin at the console: the password is the administrator's own, and the
\* audit log, which needs an actor, begins with the account as it is.
CreateAdmin(t, u) ==
  /\ row[u] = None
  /\ Begin(t, Idle)
  /\ row' = [row EXCEPT ![u] = [Chosen("admin") EXCEPT !.hash = made + 1]]
  /\ trail' = [trail EXCEPT ![u] = [role |-> "admin", active |-> TRUE]]
  /\ made' = made + 1
  /\ UNCHANGED <<sess, over, lock, issued, proof, out, excused, mixed, raced>>

-----------------------------------------------------------------------------
(* Signing in, and changing one's password (auth/service.py).              *)

LoginLoads(t, u) ==
  /\ row[u] # None
  /\ Begin(t, [Idle EXCEPT !.at = "login", !.user = u, !.loaded = row[u], !.want = row[u]])
  /\ UNCHANGED <<stored, lock, made, history>>

\* _is_last_active_admin, of the account as it was loaded.
LastAdmin(r) == IsActiveAdmin(r.loaded) /\ ActiveAdmins \subseteq {r.user}

\* Mutant: the account is locked one failure late.
CountedLate(a) ==
  IF a.failed + 1 > MaxFailedLogins
    THEN [a EXCEPT !.failed = 0, !.locked = "held"] ELSE [a EXCEPT !.failed = a.failed + 1]
\* One failure more, which may be the last before a lock.
Counted(a) ==
  IF a.failed + 1 >= MaxFailedLogins
    THEN [a EXCEPT !.failed = 0, !.locked = "held"] ELSE [a EXCEPT !.failed = a.failed + 1]

\* A wrong password is counted, unless the account is locked or exempt.
LoginFails(t) ==
  LET r == [req[t] EXCEPT !.want = Counted(req[t].loaded)]
  IN /\ req[t].at = "login" /\ r.loaded.locked # "held" /\ ~LastAdmin(r)
     /\ Free(t, r.user)
     /\ row' = [row EXCEPT ![r.user] = Written(r)]
     /\ req' = [req EXCEPT ![t] = Idle]
     /\ UNCHANGED <<sess, over, trail, lock, begun, made, history>>

\* purge_expired.
Purged == [s \in Tokens |-> IF s \in over THEN None ELSE sess[s]]

\* The right password, on an account that is neither locked nor switched off (and
\* whose temporary password, if it has one, has not expired: the model does not
\* count its hours): the counters are cleared, and expired sessions purged.
LoginSucceeds(t) ==
  LET r == [req[t] EXCEPT !.want = [req[t].loaded EXCEPT !.failed = 0, !.locked = "never"]]
  IN /\ req[t].at = "login" /\ r.loaded.locked # "held" /\ r.loaded.active
     /\ Free(t, r.user)
     /\ row' = [row EXCEPT ![r.user] = Written(r)]
     /\ sess' = Purged
     /\ req' = [req EXCEPT ![t] = [r EXCEPT !.at = "verified"]]
     /\ UNCHANGED <<over, trail, lock, begun, made, history>>

Fresh(s) == /\ sess[s] = None /\ s \notin over \cup out \cup excused
            /\ \A x \in Threads : req[x].token # s

\* issue: a token nobody has held, which begins its lifetime.
Issue(t, s) ==
  /\ req[t].at = "verified" /\ Fresh(s)
  /\ Open(t, s)
  /\ UNCHANGED <<row, over, trail, lock, begun, made, issued, out, mixed, raced>>

\* POST /auth/change-password: current_user, and its session's row is read.
ChangeLoads(t, s) ==
  /\ Resolves(s)
  /\ LET u == sess[s]
     IN Begin(t, [Idle EXCEPT !.at = "changing", !.user = u, !.loaded = row[u],
                              !.want = row[u], !.token = s])
  /\ UNCHANGED <<stored, lock, made, history>>

\* Mutant: the expiry of the temporary password is not cleared.
OwnExpires(a) == [a EXCEPT !.hash = made + 1, !.must = FALSE]
\* A password its owner chose.
Own(a) == [a EXCEPT !.hash = made + 1, !.must = FALSE, !.temp = 0]

\* change_password: the current password is checked against what was loaded.
ChangeCommits(t) ==
  LET r == [req[t] EXCEPT !.want = Own(req[t].loaded)]
  IN /\ req[t].at = "changing" /\ Free(t, r.user)
     /\ row' = [row EXCEPT ![r.user] = Written(r)]
     /\ Overlaps(t, r.user, [r EXCEPT !.at = "changed"])
     /\ made' = made + 1 /\ mixed' = Mixed(r)
     /\ UNCHANGED <<sess, over, trail, lock, begun, issued, proof, out, excused, raced>>

\* revoke_all_for_user, in a transaction of its own.
ChangeRevokes(t) ==
  /\ req[t].at = "changed"
  /\ sess' = Without(req[t].user)
  /\ req' = [req EXCEPT ![t] = [req[t] EXCEPT !.at = "revoked"]]
  /\ UNCHANGED <<row, over, trail, lock, begun, made, history>>

\* issue_with_id: the session the request came with is put back, with the
\* expiry it had, in a third transaction.
ChangeRestores(t) ==
  /\ req[t].at = "revoked"
  /\ Open(t, req[t].token)
  /\ UNCHANGED <<row, over, trail, lock, begun, made, issued, out, mixed, raced>>

-----------------------------------------------------------------------------

\* A request ends without a commit: its password was not the right one, it was
\* refused, or it failed.
Refused(t) ==
  /\ req[t].at \notin {"idle", "verified", "changed", "revoked"}
  /\ req' = [req EXCEPT ![t] = Idle]
  /\ lock' = Unlocked(t)
  /\ UNCHANGED <<stored, begun, made, history>>

\* The service dies.  A password change it cut short has not ended the sessions
\* it was to end.
Crash ==
  /\ \E t \in Threads : req[t].at # "idle"
  /\ req' = [t \in Threads |-> Idle]
  /\ lock' = [u \in Users |-> None]
  /\ excused' = excused \cup {s \in Tokens : \E t \in Threads :
                                req[t].at = "changed" /\ req[t].user = sess[s]}
  /\ UNCHANGED <<stored, begun, made, issued, proof, out, mixed, raced>>

\* Time: a lock runs out, the absolute lifetime of a session ends.
Lapse ==
  \/ \E u \in Users : /\ row[u] # None /\ row[u].locked = "held"
                      /\ row' = [row EXCEPT ![u] = [row[u] EXCEPT !.locked = "past"]]
                      /\ UNCHANGED over
  \/ \E s \in Tokens : sess[s] # None /\ s \notin over /\ over' = over \cup {s} /\ UNCHANGED row

TimePasses ==
  /\ Lapse
  /\ UNCHANGED <<sess, trail, lock, req, begun, made, history>>

Next ==
  \/ \E t \in Threads :
       \/ \E s \in Tokens : Admit(t, s) \/ Issue(t, s) \/ ChangeLoads(t, s)
       \/ \E u \in Users :
            \/ \E role \in Roles, active \in BOOLEAN : PatchLoads(t, u, role, active)
            \/ ResetLoads(t, u) \/ ConsoleResets(t, u) \/ LoginLoads(t, u)
            \/ CreateAdmin(t, u) \/ \E role \in Roles : CreateUser(t, u, role)
       \/ Finds(t) \/ Guard(t) \/ PatchCommits(t) \/ ResetCommits(t)
       \/ LoginFails(t) \/ LoginSucceeds(t)
       \/ ChangeCommits(t) \/ ChangeRevokes(t) \/ ChangeRestores(t)
       \/ Refused(t)
  \/ \E s \in Tokens : Logout(s)
  \/ Crash \/ TimePasses

Spec == Init /\ [][Next]_vars

-----------------------------------------------------------------------------

\* guard_last_admin: somebody can administer, unless a change skipped the guard
\* because its target became an active administrator after it was loaded.
AdminRemains == raced \/ ActiveAdmins # {}

\* A session is good for the account as it is now: it was opened with the
\* password the account has (or a change of password is about to end it), the
\* account has not been switched off since, and it has not been logged out -
\* but for those whose opening overlapped what should have ended them, and
\* those a password change had no time to end.
SessionsFollowAccount ==
  \A s \in Tokens : sess[s] # None /\ s \notin excused =>
    /\ s \notin out
    /\ row[sess[s]].active
    /\ \/ proof[s] = row[sess[s]].hash
       \/ \E t \in Threads : req[t].at = "changed" /\ req[t].user = sess[s]

\* A password somebody else issued has to be changed and expires; one its
\* owner chose does neither.  Two writes of the password that overlapped may
\* mix the columns of both.
IssuedIsReplaced ==
  \A u \in Users : row[u] # None /\ u \notin mixed =>
    /\ row[u].must <=> row[u].hash \in issued
    /\ row[u].temp = IF row[u].hash \in issued THEN row[u].hash ELSE 0

\* Reading the audit log back gives each account's role and state, whatever
\* overlapped: an entry is written exactly when the column is.
TrailTellsTheRow ==
  \A u \in Users : row[u] # None =>
    trail[u] = [role |-> row[u].role, active |-> row[u].active]
=============================================================================
