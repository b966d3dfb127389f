------------------------------ MODULE AuthSessions ------------------------------
(***************************************************************************)
(* Authentication: ValidateCredentials, RecordFailedLogin, GenerateJWT,    *)
(* Validate2FA and RevokeJWT of usecases/security, running concurrently    *)
(* over the tables users and user_sessions.  Every repository call is one  *)
(* autocommit statement, hence one step; a request holds in between the    *)
(* rows it has read and writes them back whole.                            *)
(*                                                                         *)
(* Emails are verified and no account is suspended: no use case does       *)
(* either.  The TOTP code and the password are right or wrong, nothing     *)
(* else of them matters here.                                              *)
(***************************************************************************)
EXTENDS Naturals

CONSTANTS
    Users,
    TwoFactor,        \* users with the second factor enabled
    Sessions,         \* identifiers of sessions, each drawn once
    Logins,           \* goroutines serving ValidateCredentials
    Validators,       \* goroutines serving Validate2FA
    Revokers,         \* goroutines serving RevokeJWT
    None,
    Threshold,        \* userFailedLoginThreshold, 5 in the code
    PendingStorable,  \* does user_sessions accept the status pending_2fa?
    Faults,           \* may repository calls fail and processes crash?
    MaxTime           \* bound on the clock, one unit being the lock of 30 minutes

ASSUME AuthAssumption ==
    /\ TwoFactor \subseteq Users
    /\ None \notin Users \cup Sessions
    /\ Threshold \in Nat \ {0}
    /\ PendingStorable \in BOOLEAN
    /\ Faults \in BOOLEAN
    /\ MaxTime \in Nat

VARIABLES
    now,         \* the clock
    users,       \* table users
    sessions,    \* table user_sessions
    login,       \* running ValidateCredentials requests
    validate,    \* running Validate2FA requests
    revoke       \* running RevokeJWT requests

\* History: read by the properties only.
VARIABLES
    wrong,       \* wrong passwords recorded since the last right one or lock
    exchanged    \* pending sessions for which a final session has been issued

requests == <<login, validate, revoke>>
vars == <<now, users, sessions, login, validate, revoke, wrong, exchanged>>

\* lockedUntil is 0 when nil.  The counter is only compared with the threshold,
\* so it is kept up to it.
UserRow == [status : {"active", "locked"}, attempts : 0..Threshold,
            until : 0..(MaxTime + 1)]
SessionStatuses == {"none", "active", "pending_2fa", "revoked"}
SessionRow == [user : Users \cup {None}, status : SessionStatuses]

NewUser == [status |-> "active", attempts |-> 0, until |-> 0]
NoSession == [user |-> None, status |-> "none"]

IdleLogin == [pc |-> "idle", user |-> None, row |-> NewUser]
IdleValidate == [pc |-> "idle", session |-> None, user |-> None]
IdleRevoke == [pc |-> "idle", session |-> None]

LoginState ==
    {r \in [pc : {"idle", "right", "issue", "wrong", "count", "lock", "cascade"},
            user : Users \cup {None}, row : UserRow] :
        r.pc # "idle" => r.user \in Users}
ValidateState ==
    {r \in [pc : {"idle", "timeout", "code", "save", "issue"},
            session : Sessions \cup {None}, user : Users \cup {None}] :
        r.pc # "idle" => r.session \in Sessions /\ r.user \in Users}
RevokeState ==
    {r \in [pc : {"idle", "save"}, session : Sessions \cup {None}] :
        r.pc # "idle" => r.session \in Sessions}

\* Every variable holds a value of its kind; a stored session has an owner.
TypeOK ==
    /\ now \in 0..MaxTime
    /\ users \in [Users -> UserRow]
    /\ sessions \in [Sessions -> SessionRow]
    /\ \A s \in Sessions : sessions[s].status = "none" <=> sessions[s].user = None
    /\ login \in [Logins -> LoginState]
    /\ validate \in [Validators -> ValidateState]
    /\ revoke \in [Revokers -> RevokeState]
    /\ wrong \in [Users -> 0..Threshold]
    /\ exchanged \subseteq Sessions

Init ==
    /\ now = 0
    /\ users = [u \in Users |-> NewUser]
    /\ sessions = [s \in Sessions |-> NoSession]
    /\ login = [l \in Logins |-> IdleLogin]
    /\ validate = [v \in Validators |-> IdleValidate]
    /\ revoke = [r \in Revokers |-> IdleRevoke]
    /\ wrong = [u \in Users |-> 0]
    /\ exchanged = {}

Tick ==
    /\ now < MaxTime
    /\ now' = now + 1
    /\ UNCHANGED <<users, sessions, requests, wrong, exchanged>>
--------------------------------------------------------------------------------
(* The User aggregate of internal/domain/user.go *)

IsLocked(user) == user.status = "locked" /\ now < user.until

UpTo(n) == IF n < Threshold THEN n + 1 ELSE n

RecordFailedLogin(user) ==
    [status |-> user.status, attempts |-> UpTo(user.attempts), until |-> user.until]
ThresholdReached(user) == user.attempts >= Threshold

\* userStatusTransitions has no arrow from locked to locked.
CanLock(user) == user.status = "active"
Lock(user) == [status |-> "locked", attempts |-> user.attempts, until |-> now + 1]

\* The status is left as it is.
RecordSuccessfulLogin(user) == [status |-> user.status, attempts |-> 0, until |-> 0]
--------------------------------------------------------------------------------
(* The table user_sessions *)

\* INSERT, against the CHECK on the status.
Insertable(status) == status # "pending_2fa" \/ PendingStorable
\* Mutant: the row is inserted without its user.
MutantInsertSession(s, u, status) ==
    /\ sessions[s].status = "none"
    /\ sessions' = [sessions EXCEPT ![s] = [user |-> None, status |-> status]]

InsertSession(s, u, status) ==
    /\ sessions[s].status = "none"
    /\ sessions' = [sessions EXCEPT ![s] = [user |-> u, status |-> status]]

\* Mutant: the session is revived, SM-17 having an arrow from pending to active.
MutantStoreRevoked(s) == sessions' = [sessions EXCEPT ![s].status = "active"]

\* UPDATE ... WHERE id = $1, over whatever the status has become.
StoreRevoked(s) == sessions' = [sessions EXCEPT ![s].status = "revoked"]

\* RevokeAllByUserID.
RevokeAll(u) ==
    sessions' = [s \in Sessions |->
        IF sessions[s].user = u /\ sessions[s].status \in {"active", "pending_2fa"}
        THEN [sessions[s] EXCEPT !.status = "revoked"] ELSE sessions[s]]
--------------------------------------------------------------------------------
(* ValidateCredentials, with RecordFailedLogin and GenerateJWT *)

\* Steps 1 to 4: the password is compared while other requests go on.
LoginLoad(l, u, outcome) ==
    /\ login[l].pc = "idle"
    /\ ~IsLocked(users[u])
    /\ login' = [login EXCEPT ![l] = [pc |-> outcome, user |-> u, row |-> users[u]]]
    /\ UNCHANGED <<now, users, sessions, validate, revoke, wrong, exchanged>>

\* RecordFailedLogin loads the user once more, and counts in memory.
LoginWrong(l) ==
    /\ login[l].pc = "wrong"
    /\ login' = [login EXCEPT
          ![l].pc = "count", ![l].row = RecordFailedLogin(users[login[l].user])]
    /\ UNCHANGED <<now, users, sessions, validate, revoke, wrong, exchanged>>

\* Its first Update; Lock then changes the user in memory, if it may.
LoginCount(l) ==
    LET row == login[l].row
        u == login[l].user
    IN
    /\ login[l].pc = "count"
    /\ users' = [users EXCEPT ![u] = row]
    /\ wrong' = [wrong EXCEPT ![u] = UpTo(@)]
    /\ login' = [login EXCEPT ![l] =
          IF ThresholdReached(row) /\ CanLock(row)
          THEN [pc |-> "lock", user |-> u, row |-> Lock(row)]
          ELSE IdleLogin]
    /\ UNCHANGED <<now, sessions, validate, revoke, exchanged>>

\* Its second Update.
LoginLock(l) ==
    /\ login[l].pc = "lock"
    /\ users' = [users EXCEPT ![login[l].user] = login[l].row]
    /\ wrong' = [wrong EXCEPT ![login[l].user] = 0]
    /\ login' = [login EXCEPT ![l].pc = "cascade"]
    /\ UNCHANGED <<now, sessions, validate, revoke, exchanged>>

\* And the cascade, whose error is dropped.
LoginCascade(l) ==
    /\ login[l].pc = "cascade"
    /\ RevokeAll(login[l].user) \/ (Faults /\ UNCHANGED sessions)
    /\ login' = [login EXCEPT ![l] = IdleLogin]
    /\ UNCHANGED <<now, users, validate, revoke, wrong, exchanged>>

\* The right password writes back the row that was read, counter reset; an
\* error of the Update is dropped.
LoginRight(l) ==
    LET u == login[l].user IN
    /\ login[l].pc = "right"
    /\ \/ users' = [users EXCEPT ![u] = RecordSuccessfulLogin(login[l].row)]
       \/ Faults /\ UNCHANGED users
    /\ wrong' = [wrong EXCEPT ![u] = 0]
    /\ login' = [login EXCEPT ![l].pc = "issue"]
    /\ UNCHANGED <<now, sessions, validate, revoke, exchanged>>

\* Steps 5 and 6: a pending session with the second factor, an active one without.
LoginIssue(l, s) ==
    LET u == login[l].user
        status == IF u \in TwoFactor THEN "pending_2fa" ELSE "active"
    IN
    /\ login[l].pc = "issue"
    /\ IF Insertable(status) THEN InsertSession(s, u, status) ELSE UNCHANGED sessions
    /\ login' = [login EXCEPT ![l] = IdleLogin]
    /\ UNCHANGED <<now, users, validate, revoke, wrong, exchanged>>

\* A process dies, or a call fails whose error ends the request.
LoginDies(l) ==
    /\ Faults
    /\ login[l].pc # "idle"
    /\ login' = [login EXCEPT ![l] = IdleLogin]
    /\ UNCHANGED <<now, users, sessions, validate, revoke, wrong, exchanged>>
--------------------------------------------------------------------------------
(* Validate2FA *)

\* Steps 1 to 3: the session must be pending, and may be past its five minutes.
ValidateLoad(v, s, pc) ==
    /\ validate[v].pc = "idle"
    /\ sessions[s].status = "pending_2fa"
    /\ validate' = [validate EXCEPT ![v] =
          [pc |-> pc, session |-> s, user |-> sessions[s].user]]
    /\ UNCHANGED <<now, users, sessions, login, revoke, wrong, exchanged>>

ValidateTimeout(v) ==
    /\ validate[v].pc = "timeout"
    /\ StoreRevoked(validate[v].session) \/ (Faults /\ UNCHANGED sessions)
    /\ validate' = [validate EXCEPT ![v] = IdleValidate]
    /\ UNCHANGED <<now, users, login, revoke, wrong, exchanged>>

\* Mutant: the temporary session is not revoked.
MutantValidateCode(v) ==
    /\ validate[v].pc = "code"
    /\ \/ validate' = [validate EXCEPT ![v].pc = "issue"]
       \/ validate' = [validate EXCEPT ![v] = IdleValidate]
    /\ UNCHANGED <<now, users, sessions, login, revoke, wrong, exchanged>>

\* Steps 4 to 6: the plan or the code may be refused; the session stays pending.
ValidateCode(v) ==
    /\ validate[v].pc = "code"
    /\ \/ validate' = [validate EXCEPT ![v].pc = "save"]
       \/ validate' = [validate EXCEPT ![v] = IdleValidate]
    /\ UNCHANGED <<now, users, sessions, login, revoke, wrong, exchanged>>

\* Step 7: the temporary session is revoked, by a request that read it pending.
ValidateSave(v) ==
    /\ validate[v].pc = "save"
    /\ StoreRevoked(validate[v].session)
    /\ validate' = [validate EXCEPT ![v].pc = "issue"]
    /\ UNCHANGED <<now, users, login, revoke, wrong, exchanged>>

\* Step 8: GenerateJWT creates the final session.
ValidateIssue(v, s) ==
    /\ validate[v].pc = "issue"
    /\ InsertSession(s, validate[v].user, "active")
    /\ exchanged' = exchanged \cup {validate[v].session}
    /\ validate' = [validate EXCEPT ![v] = IdleValidate]
    /\ UNCHANGED <<now, users, login, revoke, wrong>>

ValidateDies(v) ==
    /\ Faults
    /\ validate[v].pc # "idle"
    /\ validate' = [validate EXCEPT ![v] = IdleValidate]
    /\ UNCHANGED <<now, users, sessions, login, revoke, wrong, exchanged>>
--------------------------------------------------------------------------------
(* RevokeJWT, and the cascade of DeleteWorkspace *)

RevokeLoad(r, s) ==
    /\ revoke[r].pc = "idle"
    /\ sessions[s].status \in {"active", "pending_2fa"}
    /\ revoke' = [revoke EXCEPT ![r] = [pc |-> "save", session |-> s]]
    /\ UNCHANGED <<now, users, sessions, login, validate, wrong, exchanged>>

RevokeSave(r) ==
    /\ revoke[r].pc = "save"
    /\ StoreRevoked(revoke[r].session) \/ (Faults /\ UNCHANGED sessions)
    /\ revoke' = [revoke EXCEPT ![r] = IdleRevoke]
    /\ UNCHANGED <<now, users, login, validate, wrong, exchanged>>

WorkspaceDeleted(u) ==
    /\ RevokeAll(u)
    /\ UNCHANGED <<now, users, requests, wrong, exchanged>>
--------------------------------------------------------------------------------
LoginNext(l) ==
    \/ \E u \in Users, outcome \in {"right", "wrong"} : LoginLoad(l, u, outcome)
    \/ LoginWrong(l)
    \/ LoginCount(l)
    \/ LoginLock(l)
    \/ LoginCascade(l)
    \/ LoginRight(l)
    \/ \E s \in Sessions : LoginIssue(l, s)
    \/ LoginDies(l)

ValidateNext(v) ==
    \/ \E s \in Sessions, pc \in {"timeout", "code"} : ValidateLoad(v, s, pc)
    \/ ValidateTimeout(v)
    \/ ValidateCode(v)
    \/ ValidateSave(v)
    \/ \E s \in Sessions : ValidateIssue(v, s)
    \/ ValidateDies(v)

RevokeNext(r) == (\E s \in Sessions : RevokeLoad(r, s)) \/ RevokeSave(r)

Next ==
    \/ Tick
    \/ \E u \in Users : WorkspaceDeleted(u)
    \/ \E l \in Logins : LoginNext(l)
    \/ \E v \in Validators : ValidateNext(v)
    \/ \E r \in Revokers : RevokeNext(r)

Spec == Init /\ [][Next]_vars
--------------------------------------------------------------------------------
\* SM-17: although sessions are updated without looking at the stored status,
\* the stored status moves along the arrows of user.go only; a revoked session
\* is never used again.
SM == INSTANCE SessionLifecycle
          WITH status <- [s \in Sessions |-> sessions[s].status]
Lifecycle == SM!Spec

\* auth.go, step 7 of Validate2FA: a final session is issued against a temporary
\* one only once that one is stored as revoked, wherever the request stops.
ExchangedIsRevoked == \A s \in exchanged : sessions[s].status = "revoked"
--------------------------------------------------------------------------------
\* user.go, U-2: when the threshold of wrong passwords is reached, the account
\* is locked.
ThresholdLocks ==
    \A u \in Users :
        wrong[u] >= Threshold =>
            \/ IsLocked(users[u])
            \/ \E l \in Logins : login[l].pc = "lock" /\ login[l].user = u

\* auth.go, step 2 of Validate2FA: a session is exchanged while it is pending.
ExchangeFindsPending ==
    [][\A v \in Validators :
          validate[v].pc = "save" /\ validate'[v].pc = "issue" =>
             sessions[validate[v].session].status = "pending_2fa"]_vars

\* auth.go, step 5 of ValidateCredentials: with the second factor enabled, the
\* right password gives a temporary session.
RightPasswordGivesSession ==
    [][\A l \in Logins :
          login[l].pc = "issue" /\ login'[l].pc = "idle" => sessions' # sessions]_vars
================================================================================
