--------------------------- MODULE AuthSessionsProofs ---------------------------
(***************************************************************************)
(* Proofs about AuthSessions, and at the end about SessionGate: the use    *)
(* cases behind the gate are those of AuthSessions, whose theorems         *)
(* therefore hold there, and what the gate adds.                           *)
(***************************************************************************)
EXTENDS SessionGate, FiniteSetTheorems, TLAPS

LEMMA IdleTypes ==
    /\ NewUser \in UserRow
    /\ NoSession \in SessionRow
    /\ IdleLogin \in LoginState
    /\ IdleValidate \in ValidateState
    /\ IdleRevoke \in RevokeState
  <1>1. NewUser \in UserRow
    BY AuthAssumption DEF NewUser, UserRow
  <1> QED
    BY <1>1 DEF NoSession, SessionRow, SessionStatuses, IdleLogin, LoginState,
       IdleValidate, ValidateState, IdleRevoke, RevokeState

LEMMA UpToType ==
    ASSUME NEW n \in 0..Threshold
    PROVE  UpTo(n) \in 0..Threshold
  BY AuthAssumption DEF UpTo

LEMMA UserMethodTypes ==
    ASSUME NEW row \in UserRow, now \in 0..MaxTime
    PROVE  /\ RecordFailedLogin(row) \in UserRow
           /\ Lock(row) \in UserRow
           /\ RecordSuccessfulLogin(row) \in UserRow
  <1>1. row.status \in {"active", "locked"} /\ row.attempts \in 0..Threshold
        /\ row.until \in 0..(MaxTime + 1)
    BY DEF UserRow
  <1>2. UpTo(row.attempts) \in 0..Threshold
    BY <1>1, UpToType
  <1>3. now + 1 \in 0..(MaxTime + 1) /\ 0 \in 0..(MaxTime + 1) /\ 0 \in 0..Threshold
    BY AuthAssumption
  <1> QED
    BY <1>1, <1>2, <1>3 DEF UserRow, RecordFailedLogin, Lock, RecordSuccessfulLogin

\* What a request in progress holds.
LEMMA Holds ==
    ASSUME TypeOK
    PROVE  /\ \A l \in Logins : login[l] \in LoginState /\ login[l].row \in UserRow
           /\ \A l \in Logins : login[l].pc # "idle" => login[l].user \in Users
           /\ \A v \in Validators : validate[v] \in ValidateState
           /\ \A v \in Validators : validate[v].pc # "idle" =>
                 validate[v].session \in Sessions /\ validate[v].user \in Users
           /\ \A r \in Revokers : revoke[r] \in RevokeState
           /\ \A r \in Revokers : revoke[r].pc # "idle" => revoke[r].session \in Sessions
  BY DEF TypeOK, LoginState, ValidateState, RevokeState

--------------------------------------------------------------------------------
(***************************************************************************)
(* A step leaves the table of sessions alone, inserts a row, stores a      *)
(* revocation in a session some request has read, or revokes all sessions  *)
(* of a user.                                                              *)
(***************************************************************************)
Inserts(s, u, status) ==
    /\ status \in {"active", "pending_2fa"}
    /\ InsertSession(s, u, status)

Held(s) == \/ \E v \in Validators : validate[v].pc # "idle" /\ validate[v].session = s
           \/ \E r \in Revokers : revoke[r].pc # "idle" /\ revoke[r].session = s

LEMMA SessionSteps ==
    ASSUME TypeOK, [Next]_vars
    PROVE  \/ UNCHANGED sessions
           \/ \E s \in Sessions, u \in Users, status \in SessionStatuses :
                 Inserts(s, u, status)
           \/ \E s \in Sessions : Held(s) /\ StoreRevoked(s)
           \/ \E u \in Users : RevokeAll(u)
  <1> DEFINE Goal == \/ UNCHANGED sessions
                     \/ \E s \in Sessions, u \in Users, status \in SessionStatuses :
                           Inserts(s, u, status)
                     \/ \E s \in Sessions : Held(s) /\ StoreRevoked(s)
                     \/ \E u \in Users : RevokeAll(u)
  <1>1. ASSUME NEW l \in Logins, LoginNext(l) PROVE Goal
    <2>1. ASSUME NEW s \in Sessions, LoginIssue(l, s) PROVE Goal
      <3>1. login[l].user \in Users
        BY <2>1, Holds DEF LoginIssue
      <3>2. \A status \in {"active", "pending_2fa"} : status \in SessionStatuses
        BY DEF SessionStatuses
      <3> QED
        BY <2>1, <3>1, <3>2 DEF LoginIssue, Inserts
    <2>2. CASE LoginCascade(l)
      <3>1. login[l].user \in Users
        BY <2>2, Holds DEF LoginCascade
      <3> QED
        BY <2>2, <3>1 DEF LoginCascade
    <2> QED
      BY <1>1, <2>1, <2>2 DEF LoginNext, LoginLoad, LoginWrong, LoginCount,
         LoginLock, LoginRight, LoginDies
  <1>2. ASSUME NEW v \in Validators, ValidateNext(v) PROVE Goal
    <2>1. ASSUME NEW s \in Sessions, ValidateIssue(v, s) PROVE Goal
      <3>1. validate[v].user \in Users
        BY <2>1, Holds DEF ValidateIssue
      <3> QED
        BY <2>1, <3>1 DEF ValidateIssue, Inserts, SessionStatuses
    <2>2. CASE ValidateSave(v) \/ ValidateTimeout(v)
      <3>1. validate[v].pc # "idle"
        BY <2>2 DEF ValidateSave, ValidateTimeout
      <3> QED
        BY <2>2, <3>1, Holds DEF ValidateSave, ValidateTimeout, Held
    <2> QED
      BY <1>2, <2>1, <2>2 DEF ValidateNext, ValidateLoad, ValidateCode, ValidateDies
  <1>3. ASSUME NEW r \in Revokers, RevokeNext(r) PROVE Goal
    <2>1. CASE RevokeSave(r)
      <3>1. revoke[r].pc # "idle"
        BY <2>1 DEF RevokeSave
      <3> QED
        BY <2>1, <3>1, Holds DEF RevokeSave, Held
    <2> QED
      BY <1>3, <2>1 DEF RevokeNext, RevokeLoad
  <1>4. ASSUME NEW u \in Users, WorkspaceDeleted(u) PROVE Goal
    BY <1>4 DEF WorkspaceDeleted
  <1>5. CASE Tick \/ UNCHANGED vars
    BY <1>5 DEF Tick, vars
  <1> QED
    BY <1>1, <1>2, <1>3, <1>4, <1>5 DEF Next

(***************************************************************************)
(* TypeOK is not inductive alone: that a revocation never gives a status   *)
(* to an absent row comes from the requests having read the row they       *)
(* write, and rows are never deleted.                                      *)
(***************************************************************************)
HeldIsStored == \A s \in Sessions : Held(s) => sessions[s].status # "none"

LEMMA StoredStays ==
    ASSUME TypeOK, [Next]_vars, NEW s \in Sessions, sessions[s].status # "none"
    PROVE  sessions'[s].status # "none"
  BY SessionSteps DEF Inserts, InsertSession, StoreRevoked, RevokeAll, TypeOK, SessionRow

LEMMA RevokedStays ==
    ASSUME TypeOK, [Next]_vars, NEW s \in Sessions, sessions[s].status = "revoked"
    PROVE  sessions'[s].status = "revoked"
  BY SessionSteps DEF Inserts, InsertSession, StoreRevoked, RevokeAll, TypeOK, SessionRow

LEMMA SessionsType ==
    ASSUME TypeOK, HeldIsStored, [Next]_vars
    PROVE  /\ sessions' \in [Sessions -> SessionRow]
           /\ \A s \in Sessions : sessions'[s].status = "none" <=> sessions'[s].user = None
  <1> DEFINE Goal == /\ sessions' \in [Sessions -> SessionRow]
                     /\ \A s \in Sessions : sessions'[s].status = "none"
                                              <=> sessions'[s].user = None
  <1>1. CASE UNCHANGED sessions
    BY <1>1 DEF TypeOK
  <1>2. ASSUME NEW s \in Sessions, NEW u \in Users, NEW status \in SessionStatuses,
               Inserts(s, u, status)
        PROVE  Goal
    <2>1. [user |-> u, status |-> status] \in SessionRow
      BY DEF SessionRow
    <2>2. u # None /\ status # "none"
      BY <1>2, AuthAssumption DEF Inserts
    <2> QED
      BY <1>2, <2>1, <2>2 DEF Inserts, InsertSession, TypeOK
  <1>3. ASSUME NEW s \in Sessions, Held(s), StoreRevoked(s)
        PROVE  Goal
    <2>1. [sessions[s] EXCEPT !.status = "revoked"] \in SessionRow
      BY DEF TypeOK, SessionRow, SessionStatuses
    <2>2. sessions[s].status # "none" /\ sessions[s].user # None
      BY <1>3 DEF HeldIsStored, TypeOK
    <2>3. [sessions[s] EXCEPT !.status = "revoked"].user = sessions[s].user
          /\ [sessions[s] EXCEPT !.status = "revoked"].status = "revoked"
      BY DEF TypeOK, SessionRow
    <2>4. sessions' = [sessions EXCEPT ![s] = [sessions[s] EXCEPT !.status = "revoked"]]
      BY <1>3 DEF StoreRevoked
    <2> QED
      BY <2>1, <2>2, <2>3, <2>4 DEF TypeOK
  <1>4. ASSUME NEW u \in Users, RevokeAll(u) PROVE Goal
    <2>1. \A s \in Sessions :
             /\ [sessions[s] EXCEPT !.status = "revoked"] \in SessionRow
             /\ [sessions[s] EXCEPT !.status = "revoked"].user = sessions[s].user
             /\ [sessions[s] EXCEPT !.status = "revoked"].status = "revoked"
      BY DEF TypeOK, SessionRow, SessionStatuses
    <2> QED
      BY <1>4, <2>1 DEF RevokeAll, TypeOK
  <1> QED
    BY <1>1, <1>2, <1>3, <1>4, SessionSteps

\* A request that holds a session keeps it, or has just read it in the table.
LEMMA HeldFrom ==
    ASSUME TypeOK, [Next]_vars, NEW s \in Sessions, Held(s)'
    PROVE  Held(s) \/ sessions[s].status # "none"
  <1>1. ASSUME NEW v \in Validators, validate'[v].pc # "idle", validate'[v].session = s
        PROVE  Held(s) \/ sessions[s].status # "none"
    <2>1. CASE validate'[v] = validate[v]
      BY <1>1, <2>1 DEF Held
    <2>2. CASE ValidateNext(v)
      <3>1. ASSUME NEW t \in Sessions, NEW pc \in {"timeout", "code"},
                   ValidateLoad(v, t, pc)
            PROVE  sessions[s].status # "none"
        BY <1>1, <3>1 DEF ValidateLoad, TypeOK
      <3>2. CASE ValidateCode(v) \/ ValidateSave(v)
        BY <1>1, <3>2 DEF ValidateCode, ValidateSave, TypeOK, ValidateState,
           IdleValidate, Held
      <3>3. ~ValidateTimeout(v) /\ ~ValidateDies(v)
            /\ \A t \in Sessions : ~ValidateIssue(v, t)
        BY <1>1 DEF ValidateTimeout, ValidateDies, ValidateIssue, IdleValidate, TypeOK
      <3> QED
        BY <2>2, <3>1, <3>2, <3>3 DEF ValidateNext
    <2>3. ASSUME NEW x \in Validators, x # v, ValidateNext(x)
          PROVE  validate'[v] = validate[v]
      BY <2>3 DEF ValidateNext, ValidateLoad, ValidateTimeout, ValidateCode,
         ValidateSave, ValidateIssue, ValidateDies, TypeOK
    <2>4. UNCHANGED validate \/ \E x \in Validators : ValidateNext(x)
      BY DEF Next, vars, requests, Tick, WorkspaceDeleted, LoginNext, LoginLoad,
         LoginWrong, LoginCount, LoginLock, LoginCascade, LoginRight, LoginIssue,
         LoginDies, RevokeNext, RevokeLoad, RevokeSave
    <2> QED
      BY <2>1, <2>2, <2>3, <2>4
  <1>2. ASSUME NEW r \in Revokers, revoke'[r].pc # "idle", revoke'[r].session = s
        PROVE  Held(s) \/ sessions[s].status # "none"
    <2>1. CASE revoke'[r] = revoke[r]
      BY <1>2, <2>1 DEF Held
    <2>2. CASE RevokeNext(r)
      <3>1. ASSUME NEW t \in Sessions, RevokeLoad(r, t)
            PROVE  sessions[s].status # "none"
        BY <1>2, <3>1 DEF RevokeLoad, TypeOK
      <3>2. ~RevokeSave(r)
        BY <1>2 DEF RevokeSave, IdleRevoke, TypeOK
      <3> QED
        BY <2>2, <3>1, <3>2 DEF RevokeNext
    <2>3. ASSUME NEW x \in Revokers, x # r, RevokeNext(x)
          PROVE  revoke'[r] = revoke[r]
      BY <2>3 DEF RevokeNext, RevokeLoad, RevokeSave, TypeOK
    <2>4. UNCHANGED revoke \/ \E x \in Revokers : RevokeNext(x)
      BY DEF Next, vars, requests, Tick, WorkspaceDeleted, LoginNext, LoginLoad,
         LoginWrong, LoginCount, LoginLock, LoginCascade, LoginRight, LoginIssue,
         LoginDies, ValidateNext, ValidateLoad, ValidateTimeout, ValidateCode,
         ValidateSave, ValidateIssue, ValidateDies
    <2> QED
      BY <2>1, <2>2, <2>3, <2>4
  <1> QED
    BY <1>1, <1>2 DEF Held

LEMMA HeldStaysStored ==
    ASSUME TypeOK, HeldIsStored, [Next]_vars
    PROVE  HeldIsStored'
  <1> SUFFICES ASSUME NEW s \in Sessions, Held(s)' PROVE sessions'[s].status # "none"
    BY DEF HeldIsStored
  <1> QED
    BY HeldFrom, StoredStays DEF HeldIsStored
--------------------------------------------------------------------------------
\* The other variables keep their kinds.
RestTyped ==
    /\ now \in 0..MaxTime
    /\ users \in [Users -> UserRow]
    /\ login \in [Logins -> LoginState]
    /\ validate \in [Validators -> ValidateState]
    /\ revoke \in [Revokers -> RevokeState]
    /\ wrong \in [Users -> 0..Threshold]
    /\ exchanged \subseteq Sessions

LEMMA LoginTypes ==
    ASSUME TypeOK, NEW l \in Logins, LoginNext(l)
    PROVE  RestTyped'
  <1> USE DEF TypeOK, RestTyped
  <1>1. ASSUME NEW u \in Users, NEW outcome \in {"right", "wrong"},
               LoginLoad(l, u, outcome)
        PROVE  RestTyped'
    <2>1. [pc |-> outcome, user |-> u, row |-> users[u]] \in LoginState
      BY DEF LoginState
    <2> QED
      BY <1>1, <2>1 DEF LoginLoad
  <1>2. CASE LoginWrong(l)
    <2>1. login[l].user \in Users
      BY <1>2, Holds DEF LoginWrong
    <2>2. RecordFailedLogin(users[login[l].user]) \in UserRow
      BY <2>1, UserMethodTypes
    <2>3. [login[l] EXCEPT !.pc = "count",
                           !.row = RecordFailedLogin(users[login[l].user])] \in LoginState
      BY <2>1, <2>2 DEF LoginState
    <2>4. login' = [login EXCEPT ![l] = [login[l] EXCEPT
             !.pc = "count", !.row = RecordFailedLogin(users[login[l].user])]]
      BY <1>2 DEF LoginWrong
    <2> QED
      BY <1>2, <2>3, <2>4 DEF LoginWrong
  <1>3. CASE LoginCount(l)
    <2>1. login[l].user \in Users /\ login[l].row \in UserRow
      BY <1>3, Holds DEF LoginCount
    <2>2. [pc |-> "lock", user |-> login[l].user, row |-> Lock(login[l].row)]
             \in LoginState
      BY <2>1, UserMethodTypes DEF LoginState
    <2>3. UpTo(wrong[login[l].user]) \in 0..Threshold
      BY <2>1, UpToType
    <2>4. users' \in [Users -> UserRow] /\ wrong' \in [Users -> 0..Threshold]
      BY <1>3, <2>1, <2>3 DEF LoginCount
    <2>5. login' \in [Logins -> LoginState]
      BY <1>3, <2>2, IdleTypes DEF LoginCount
    <2> QED
      BY <1>3, <2>4, <2>5 DEF LoginCount
  <1>4. CASE LoginLock(l)
    <2>1. login[l].user \in Users /\ login[l].row \in UserRow
      BY <1>4, Holds DEF LoginLock
    <2>2. [login[l] EXCEPT !.pc = "cascade"] \in LoginState
      BY <2>1 DEF LoginState
    <2>3. 0 \in 0..Threshold
      BY AuthAssumption
    <2> QED
      BY <1>4, <2>1, <2>2, <2>3 DEF LoginLock
  <1>5. CASE LoginCascade(l)
    BY <1>5, IdleTypes DEF LoginCascade
  <1>6. CASE LoginRight(l)
    <2>1. login[l].user \in Users /\ login[l].row \in UserRow
      BY <1>6, Holds DEF LoginRight
    <2>2. [login[l] EXCEPT !.pc = "issue"] \in LoginState
      BY <2>1 DEF LoginState
    <2>3. 0 \in 0..Threshold
      BY AuthAssumption
    <2>4. RecordSuccessfulLogin(login[l].row) \in UserRow
      BY <2>1, UserMethodTypes
    <2> QED
      BY <1>6, <2>1, <2>2, <2>3, <2>4 DEF LoginRight
  <1>7. ASSUME NEW s \in Sessions, LoginIssue(l, s) PROVE RestTyped'
    BY <1>7, IdleTypes DEF LoginIssue
  <1>8. CASE LoginDies(l)
    BY <1>8, IdleTypes DEF LoginDies
  <1> QED
    BY <1>1, <1>2, <1>3, <1>4, <1>5, <1>6, <1>7, <1>8 DEF LoginNext

LEMMA ValidateTypes ==
    ASSUME TypeOK, HeldIsStored, NEW v \in Validators, ValidateNext(v)
    PROVE  RestTyped'
  <1> USE DEF TypeOK, RestTyped
  <1>1. ASSUME NEW s \in Sessions, NEW pc \in {"timeout", "code"}, ValidateLoad(v, s, pc)
        PROVE  RestTyped'
    <2>1. sessions[s].user \in Users
      BY <1>1 DEF ValidateLoad, SessionRow
    <2>2. [pc |-> pc, session |-> s, user |-> sessions[s].user] \in ValidateState
      BY <2>1 DEF ValidateState
    <2> QED
      BY <1>1, <2>2 DEF ValidateLoad
  <1>2. CASE ValidateCode(v)
    <2>1. [validate[v] EXCEPT !.pc = "save"] \in ValidateState
      BY <1>2 DEF ValidateCode, ValidateState
    <2> QED
      BY <1>2, <2>1, IdleTypes DEF ValidateCode
  <1>3. CASE ValidateSave(v)
    <2>1. [validate[v] EXCEPT !.pc = "issue"] \in ValidateState
      BY <1>3 DEF ValidateSave, ValidateState
    <2> QED
      BY <1>3, <2>1 DEF ValidateSave
  <1>4. ASSUME NEW s \in Sessions, ValidateIssue(v, s) PROVE RestTyped'
    <2>1. validate[v].session \in Sessions
      BY <1>4, Holds DEF ValidateIssue
    <2> QED
      BY <1>4, <2>1, IdleTypes DEF ValidateIssue
  <1>5. CASE ValidateTimeout(v) \/ ValidateDies(v)
    BY <1>5, IdleTypes DEF ValidateTimeout, ValidateDies
  <1> QED
    BY <1>1, <1>2, <1>3, <1>4, <1>5 DEF ValidateNext

LEMMA RestTypes ==
    ASSUME TypeOK, HeldIsStored, [Next]_vars
    PROVE  RestTyped'
  <1> USE DEF TypeOK, RestTyped
  <1>1. ASSUME NEW r \in Revokers, RevokeNext(r) PROVE RestTyped'
    <2>1. ASSUME NEW s \in Sessions, RevokeLoad(r, s) PROVE RestTyped'
      <3>1. [pc |-> "save", session |-> s] \in RevokeState
        BY DEF RevokeState
      <3> QED
        BY <2>1, <3>1 DEF RevokeLoad
    <2>2. CASE RevokeSave(r)
      BY <2>2, IdleTypes DEF RevokeSave
    <2> QED
      BY <1>1, <2>1, <2>2 DEF RevokeNext
  <1>2. CASE Tick
    BY <1>2, AuthAssumption DEF Tick, requests
  <1>3. ASSUME NEW u \in Users, WorkspaceDeleted(u) PROVE RestTyped'
    BY <1>3 DEF WorkspaceDeleted, requests
  <1>4. CASE UNCHANGED vars
    BY <1>4 DEF vars
  <1> QED
    BY <1>1, <1>2, <1>3, <1>4, LoginTypes, ValidateTypes DEF Next

LEMMA InvInit ==
    ASSUME Init
    PROVE  TypeOK /\ HeldIsStored
  <1>1. 0 \in 0..Threshold /\ 0 \in 0..MaxTime
    BY AuthAssumption
  <1> QED
    BY <1>1, IdleTypes DEF Init, TypeOK, HeldIsStored, Held, NoSession, IdleValidate,
       IdleRevoke

LEMMA InvStep ==
    ASSUME TypeOK, HeldIsStored, [Next]_vars
    PROVE  TypeOK' /\ HeldIsStored'
  BY RestTypes, SessionsType, HeldStaysStored DEF RestTyped, TypeOK

(***************************************************************************)
(* Every variable of AuthSessions holds a value of its kind, and a session *)
(* has an owner as soon as it has a status: a write to a session always    *)
(* finds the row its request has read.                                     *)
(***************************************************************************)
THEOREM TypeCorrect == Spec => []TypeOK
  <1>1. Init => TypeOK /\ HeldIsStored
    BY InvInit
  <1>2. TypeOK /\ HeldIsStored /\ [Next]_vars => TypeOK' /\ HeldIsStored'
    BY InvStep
  <1> QED
    BY <1>1, <1>2, PTL DEF Spec

(***************************************************************************)
(* SM-17 is implemented, for any number of users, sessions and requests:   *)
(* the use cases only ever revoke a session they have not just created, so *)
(* that a write based on a stale row does no harm to the life cycle.       *)
(***************************************************************************)
THEOREM LifecycleImplemented == Spec => Lifecycle
  <1> DEFINE was == [s \in Sessions |-> sessions[s].status]
             now_ == [s \in Sessions |-> sessions'[s].status]
  <1>1. Init => SM!Init
    BY DEF Init, SM!Init, NoSession
  <1>2. ASSUME TypeOK, HeldIsStored, [Next]_vars
        PROVE  [SM!Next]_was
    <2> DEFINE Moved == {s \in Sessions : was[s] # now_[s]}
               Arrows == SM!Created \cup SM!SM17
    <2>1. \A s \in Sessions : was[s] = now_[s] \/ <<was[s], now_[s]>> \in Arrows
      <3> TAKE s \in Sessions
      <3>1. CASE UNCHANGED sessions
        BY <3>1
      <3>2. ASSUME NEW t \in Sessions, NEW u \in Users, NEW status \in SessionStatuses,
                   Inserts(t, u, status)
            PROVE  was[s] = now_[s] \/ <<was[s], now_[s]>> \in Arrows
        BY <1>2, <3>2 DEF Inserts, InsertSession, TypeOK, SM!Created
      <3>3. ASSUME NEW t \in Sessions, Held(t), StoreRevoked(t)
            PROVE  was[s] = now_[s] \/ <<was[s], now_[s]>> \in Arrows
        <4>1. sessions[t].status \in {"active", "pending_2fa", "revoked"}
          BY <1>2, <3>3 DEF HeldIsStored, TypeOK, SessionRow, SessionStatuses
        <4>2. sessions'[t].status = "revoked"
              /\ \A x \in Sessions \ {t} : sessions'[x] = sessions[x]
          BY <1>2, <3>3 DEF StoreRevoked, TypeOK, SessionRow
        <4> QED
          BY <4>1, <4>2 DEF SM!SM17
      <3>4. ASSUME NEW u \in Users, RevokeAll(u)
            PROVE  was[s] = now_[s] \/ <<was[s], now_[s]>> \in Arrows
        <4>1. \/ sessions'[s] = sessions[s]
              \/ /\ sessions[s].status \in {"active", "pending_2fa"}
                 /\ sessions'[s].status = "revoked"
          BY <1>2, <3>4 DEF RevokeAll, TypeOK, SessionRow
        <4> QED
          BY <4>1 DEF SM!SM17
      <3> QED
        BY <1>2, <3>1, <3>2, <3>3, <3>4, SessionSteps
    <2>2. /\ \A s \in Moved : <<was[s], now_[s]>> \in SM!Created \cup SM!SM17
          /\ \A s \in Sessions \ Moved : now_[s] = was[s]
          /\ now_ = [s \in Sessions |-> now_[s]]
      BY <2>1
    <2>3. Moved \in SUBSET Sessions
      OBVIOUS
    <2> QED
      BY <2>2, <2>3 DEF SM!Next
  <1>3. Init => TypeOK /\ HeldIsStored
    BY InvInit
  <1>4. TypeOK /\ HeldIsStored /\ [Next]_vars => TypeOK' /\ HeldIsStored'
    BY InvStep
  <1> QED
    BY <1>1, <1>2, <1>3, <1>4, PTL DEF Spec, Lifecycle, SM!Spec

(***************************************************************************)
(* A temporary session is stored as revoked before a final session is      *)
(* issued against it, wherever a request stops and whatever else writes to *)
(* the session: the request that issues has stored the revocation itself,  *)
(* and a revoked session stays revoked.                                    *)
(***************************************************************************)
IssuesAfterRevoking ==
    \A v \in Validators : validate[v].pc = "issue" =>
                              sessions[validate[v].session].status = "revoked"

\* auth.go, Validate2FA: a session a final one was issued for is revoked for good.
THEOREM ExchangedIsRevokedHolds == Spec => []ExchangedIsRevoked
  <1> DEFINE IInv == ExchangedIsRevoked /\ IssuesAfterRevoking
  <1>1. Init => IInv
    BY DEF Init, ExchangedIsRevoked, IssuesAfterRevoking, IdleValidate
  <1>2. ASSUME TypeOK, TypeOK', IInv, [Next]_vars
        PROVE  IInv'
    <2>1. ASSUME NEW v \in Validators, validate'[v].pc = "issue"
          PROVE  sessions'[validate'[v].session].status = "revoked"
      <3>1. validate'[v].session \in Sessions
        BY <1>2, <2>1 DEF TypeOK, ValidateState
      <3>2. CASE validate'[v] = validate[v]
        BY <1>2, <2>1, <3>1, <3>2, RevokedStays DEF IssuesAfterRevoking
      <3>3. CASE ValidateNext(v)
        <4>1. CASE ValidateSave(v)
          BY <1>2, <3>1, <4>1 DEF ValidateSave, StoreRevoked, TypeOK, SessionRow,
             ValidateState
        <4>2. CASE ~ValidateSave(v)
          BY <1>2, <2>1, <3>3, <4>2 DEF ValidateNext, ValidateLoad, ValidateTimeout,
             ValidateCode, ValidateIssue, ValidateDies, IdleValidate, TypeOK,
             ValidateState
        <4> QED
          BY <4>1, <4>2
      <3>4. ASSUME NEW x \in Validators, x # v, ValidateNext(x)
            PROVE  validate'[v] = validate[v]
        BY <1>2, <3>4 DEF ValidateNext, ValidateLoad, ValidateTimeout, ValidateCode,
           ValidateSave, ValidateIssue, ValidateDies, TypeOK
      <3>5. UNCHANGED validate \/ \E x \in Validators : ValidateNext(x)
        BY <1>2 DEF Next, vars, requests, Tick, WorkspaceDeleted, LoginNext,
           LoginLoad, LoginWrong, LoginCount, LoginLock, LoginCascade, LoginRight,
           LoginIssue, LoginDies, RevokeNext, RevokeLoad, RevokeSave
      <3> QED
        BY <3>2, <3>3, <3>4, <3>5
    <2>2. ExchangedIsRevoked'
      <3>1. UNCHANGED exchanged
            \/ \E v \in Validators : /\ validate[v].pc = "issue"
                                      /\ validate[v].session \in Sessions
                                      /\ exchanged' = exchanged \cup {validate[v].session}
        BY <1>2, Holds DEF Next, vars, requests, Tick, WorkspaceDeleted, LoginNext,
           LoginLoad, LoginWrong, LoginCount, LoginLock, LoginCascade, LoginRight,
           LoginIssue, LoginDies, RevokeNext, RevokeLoad, RevokeSave, ValidateNext,
           ValidateLoad, ValidateTimeout, ValidateCode, ValidateSave, ValidateIssue,
           ValidateDies
      <3>2. \A s \in exchanged' : s \in Sessions /\ sessions[s].status = "revoked"
        BY <1>2, <3>1 DEF ExchangedIsRevoked, IssuesAfterRevoking, TypeOK
      <3> QED
        BY <1>2, <3>2, RevokedStays DEF ExchangedIsRevoked
    <2> QED
      BY <2>1, <2>2 DEF IssuesAfterRevoking
  <1> QED
    BY <1>1, <1>2, TypeCorrect, PTL DEF Spec
--------------------------------------------------------------------------------
\* A step of the composition is a step of AuthSessions, or one of the gate alone.
LEMMA GateStep ==
    ASSUME [GateNext]_allVars
    PROVE  [Next]_vars
  <1>1. ASSUME NEW r \in Revokers, RevokeAnswered(r) \/ RevokeFailed(r)
        PROVE  Next
    BY <1>1 DEF RevokeAnswered, RevokeFailed, RevokeSave, RevokeNext, Next
  <1>2. ASSUME NEW q \in Requests,
               (\E s \in Sessions : Serve(q, s)) \/ GateDone(q)
        PROVE  UNCHANGED vars
    BY <1>2 DEF Serve, GateDone
  <1>3. CASE /\ \/ Tick
                \/ \E u \in Users : WorkspaceDeleted(u)
                \/ \E l \in Logins : LoginNext(l)
                \/ \E v \in Validators : ValidateNext(v)
                \/ \E r \in Revokers, s \in Sessions : RevokeLoad(r, s)
             /\ UNCHANGED gateVars
    BY <1>3 DEF Next, RevokeNext
  <1>4. CASE UNCHANGED allVars
    BY <1>4 DEF allVars
  <1> QED
    BY <1>1, <1>2, <1>3, <1>4 DEF GateNext

(***************************************************************************)
(* SessionGate implements AuthSessions, so that what is proved of the use  *)
(* cases holds of them behind the gate.                                    *)
(***************************************************************************)
THEOREM GateImplements == GateSpec => Spec
  <1>1. GateInit => Init
    BY DEF GateInit
  <1>2. [GateNext]_allVars => [Next]_vars
    BY GateStep
  <1> QED
    BY <1>1, <1>2, PTL DEF GateSpec, Spec

--------------------------------------------------------------------------------
\* The gate moves when it serves or has served, and history grows when a
\* revocation is answered.
LEMMA GateMoves ==
    ASSUME [GateNext]_allVars
    PROVE  \/ UNCHANGED gateVars
           \/ /\ UNCHANGED gateVars
              /\ UNCHANGED sessions
           \/ \E r \in Revokers : RevokeAnswered(r)
           \/ \E q \in Requests, s \in Sessions : Serve(q, s)
           \/ \E q \in Requests : GateDone(q)
  BY DEF GateNext, RevokeFailed, allVars

LEMMA GateTypes ==
    ASSUME GateTypeOK, TypeOK', [GateNext]_allVars
    PROVE  GateTypeOK'
  <1> USE DEF GateTypeOK
  <1>1. CASE UNCHANGED gateVars
    BY <1>1 DEF gateVars
  <1>2. ASSUME NEW r \in Revokers, RevokeAnswered(r) PROVE GateTypeOK'
    BY <1>2, Holds DEF RevokeAnswered, RevokeSave
  <1>3. ASSUME NEW q \in Requests, NEW s \in Sessions, Serve(q, s) PROVE GateTypeOK'
    <2>1. Served(s, "yes") \in GateState /\ Served(s, "no") \in GateState
      BY DEF Served, GateState
    <2> QED
      BY <1>3, <2>1 DEF Serve
  <1>4. ASSUME NEW q \in Requests, GateDone(q) PROVE GateTypeOK'
    <2>1. IdleGate \in GateState
      BY DEF GateState
    <2> QED
      BY <1>4, <2>1 DEF GateDone
  <1> QED
    BY <1>1, <1>2, <1>3, <1>4, GateMoves

(***************************************************************************)
(* What the middleware and the history hold is always of its kind.         *)
(***************************************************************************)
THEOREM GateTypeCorrect == GateSpec => []GateTypeOK
  <1>1. GateInit /\ TypeOK => GateTypeOK
    BY DEF GateInit, GateTypeOK, GateState
  <1>2. GateTypeOK /\ TypeOK' /\ [GateNext]_allVars => GateTypeOK'
    BY GateTypes
  <1> QED
    BY <1>1, <1>2, GateImplements, TypeCorrect, PTL DEF GateSpec

--------------------------------------------------------------------------------
(***************************************************************************)
(* Once a revocation is answered the row is revoked, and no statement      *)
(* takes it back; the gate, which opens to active rows only, serves        *)
(* nothing more from it.                                                   *)
(***************************************************************************)
AnsweredIsRevoked == \A s \in answered : sessions[s].status = "revoked"

LEMMA AnsweredStays ==
    ASSUME GateTypeOK, AnsweredIsRevoked, [GateNext]_allVars
    PROVE  AnsweredIsRevoked'
  <1>1. \A s \in Sessions :
            sessions[s].status = "revoked" => sessions'[s].status = "revoked"
    BY GateStep, RevokedStays DEF GateTypeOK
  <1>2. CASE UNCHANGED answered
    BY <1>1, <1>2 DEF AnsweredIsRevoked, GateTypeOK
  <1>3. ASSUME NEW r \in Revokers, RevokeAnswered(r) PROVE AnsweredIsRevoked'
    <2>1. revoke[r].session \in Sessions
      BY <1>3, Holds DEF RevokeAnswered, RevokeSave, GateTypeOK
    <2>2. sessions'[revoke[r].session].status = "revoked"
      BY <1>3, <2>1 DEF RevokeAnswered, StoreRevoked, GateTypeOK, TypeOK, SessionRow
    <2> QED
      BY <1>1, <1>3, <2>2 DEF RevokeAnswered, AnsweredIsRevoked, GateTypeOK
  <1> QED
    BY <1>2, <1>3, GateMoves DEF gateVars, Serve, GateDone

\* auth_jwt.go: no request that reads a session after the answer to its
\* revocation is served, whatever stale copy is written back.
THEOREM RevokedServesNothingHolds == GateSpec => []RevokedServesNothing
  <1> DEFINE IInv == AnsweredIsRevoked /\ RevokedServesNothing
  <1>1. GateInit => IInv
    BY DEF GateInit, AnsweredIsRevoked, RevokedServesNothing, IdleGate
  <1>2. ASSUME GateTypeOK, IInv, [GateNext]_allVars PROVE IInv'
    <2>1. AnsweredIsRevoked'
      BY <1>2, AnsweredStays
    <2>2. RevokedServesNothing'
      <3>1. CASE UNCHANGED gate
        BY <1>2, <3>1 DEF RevokedServesNothing
      <3>2. ASSUME NEW q \in Requests, NEW s \in Sessions, Serve(q, s)
            PROVE  RevokedServesNothing'
        <4>1. s \notin answered
          BY <1>2, <3>2 DEF Serve, Opens, AnsweredIsRevoked
        <4> QED
          BY <1>2, <3>2, <4>1 DEF Serve, Served, RevokedServesNothing, GateTypeOK
      <3>3. ASSUME NEW q \in Requests, GateDone(q) PROVE RevokedServesNothing'
        BY <1>2, <3>3 DEF GateDone, IdleGate, RevokedServesNothing, GateTypeOK
      <3> QED
        BY <1>2, <3>1, <3>2, <3>3, GateMoves DEF gateVars, RevokeAnswered
    <2> QED
      BY <2>1, <2>2
  <1> QED
    BY <1>1, <1>2, GateTypeCorrect, PTL DEF GateSpec
--------------------------------------------------------------------------------
(***************************************************************************)
(* The second factor.  An active session of a user who has it was issued   *)
(* against another of his sessions: only an exchange issues one, a request *)
(* that exchanges knows the owner of the session it holds, and owners do   *)
(* not change.                                                             *)
(***************************************************************************)
KnowsOwner ==
    \A v \in Validators :
        validate[v].pc # "idle" => sessions[validate[v].session].user = validate[v].user

Vouched(s) ==
    sessions[s].user \in TwoFactor =>
        \E e \in exchanged : e # s /\ sessions[e].user = sessions[s].user

ActiveIsVouched == \A s \in Sessions : sessions[s].status = "active" => Vouched(s)

LEMMA OwnerStays ==
    ASSUME TypeOK, [Next]_vars, NEW s \in Sessions, sessions[s].status # "none"
    PROVE  sessions'[s].user = sessions[s].user
  BY SessionSteps DEF Inserts, InsertSession, StoreRevoked, RevokeAll, TypeOK, SessionRow

\* What a validator does between two steps of the state.
LEMMA ValidateMoves ==
    ASSUME TypeOK, [Next]_vars, NEW v \in Validators
    PROVE  \/ validate'[v] = validate[v]
           \/ validate'[v].pc = "idle"
           \/ /\ validate[v].pc # "idle"
              /\ validate'[v].session = validate[v].session
              /\ validate'[v].user = validate[v].user
           \/ \E s \in Sessions : /\ sessions[s].status = "pending_2fa"
                                  /\ UNCHANGED sessions
                                  /\ validate'[v].session = s
                                  /\ validate'[v].user = sessions[s].user
  <1> DEFINE Goal == \/ validate'[v] = validate[v]
                     \/ validate'[v].pc = "idle"
                     \/ /\ validate[v].pc # "idle"
                        /\ validate'[v].session = validate[v].session
                        /\ validate'[v].user = validate[v].user
                     \/ \E s \in Sessions : /\ sessions[s].status = "pending_2fa"
                                            /\ UNCHANGED sessions
                                            /\ validate'[v].session = s
                                            /\ validate'[v].user = sessions[s].user
  <1>1. CASE ValidateNext(v)
    <2>1. ASSUME NEW s \in Sessions, NEW pc \in {"timeout", "code"}, ValidateLoad(v, s, pc)
          PROVE  Goal
      <3>1. validate'[v] = [pc |-> pc, session |-> s, user |-> sessions[s].user]
        BY <2>1 DEF ValidateLoad, TypeOK
      <3> QED
        BY <2>1, <3>1 DEF ValidateLoad
    <2>2. CASE ValidateCode(v) \/ ValidateSave(v)
      BY <2>2 DEF ValidateCode, ValidateSave, TypeOK, ValidateState, IdleValidate
    <2>3. ASSUME ValidateTimeout(v) \/ ValidateDies(v)
                 \/ \E s \in Sessions : ValidateIssue(v, s)
          PROVE  Goal
      BY <2>3 DEF ValidateTimeout, ValidateDies, ValidateIssue, IdleValidate, TypeOK
    <2> QED
      BY <1>1, <2>1, <2>2, <2>3 DEF ValidateNext
  <1>2. ASSUME NEW x \in Validators, x # v, ValidateNext(x)
        PROVE  validate'[v] = validate[v]
    BY <1>2 DEF ValidateNext, ValidateLoad, ValidateTimeout, ValidateCode,
       ValidateSave, ValidateIssue, ValidateDies, TypeOK
  <1>3. UNCHANGED validate \/ \E x \in Validators : ValidateNext(x)
    BY DEF Next, vars, requests, Tick, WorkspaceDeleted, LoginNext, LoginLoad,
       LoginWrong, LoginCount, LoginLock, LoginCascade, LoginRight, LoginIssue,
       LoginDies, RevokeNext, RevokeLoad, RevokeSave
  <1> QED
    BY <1>1, <1>2, <1>3

LEMMA OwnerStaysKnown ==
    ASSUME TypeOK, HeldIsStored, KnowsOwner, [Next]_vars
    PROVE  KnowsOwner'
  <1> SUFFICES ASSUME NEW v \in Validators, validate'[v].pc # "idle"
               PROVE  sessions'[validate'[v].session].user = validate'[v].user
    BY DEF KnowsOwner
  <1>1. ASSUME validate[v].pc # "idle"
        PROVE  /\ validate[v].session \in Sessions
               /\ sessions'[validate[v].session].user = validate[v].user
    <2>1. validate[v].session \in Sessions /\ Held(validate[v].session)
      BY <1>1, Holds DEF Held
    <2> QED
      BY <1>1, <2>1, OwnerStays DEF HeldIsStored, KnowsOwner
  <1> QED
    BY <1>1, ValidateMoves

\* How a session becomes active.
LEMMA ActiveFrom ==
    ASSUME TypeOK, HeldIsStored, KnowsOwner, [Next]_vars, NEW s \in Sessions,
           sessions'[s].status = "active"
    PROVE  \/ sessions[s].status = "active"
           \/ sessions'[s].user \notin TwoFactor
           \/ \E e \in Sessions : /\ e # s /\ sessions[e].status # "none"
                                  /\ sessions[e].user = sessions'[s].user
                                  /\ e \in exchanged'
  <1> DEFINE Goal == \/ sessions[s].status = "active"
                     \/ sessions'[s].user \notin TwoFactor
                     \/ \E e \in Sessions : /\ e # s /\ sessions[e].status # "none"
                                            /\ sessions[e].user = sessions'[s].user
                                            /\ e \in exchanged'
  <1>1. ASSUME NEW l \in Logins, NEW t \in Sessions, LoginIssue(l, t) PROVE Goal
    BY <1>1 DEF LoginIssue, InsertSession, TypeOK, SessionRow
  <1>2. ASSUME NEW v \in Validators, NEW t \in Sessions, ValidateIssue(v, t) PROVE Goal
    <2>1. /\ sessions[t].status = "none"
          /\ sessions' = [sessions EXCEPT ![t] =
                             [user |-> validate[v].user, status |-> "active"]]
          /\ exchanged' = exchanged \cup {validate[v].session}
          /\ validate[v].pc # "idle"
      BY <1>2 DEF ValidateIssue, InsertSession
    <2>2. /\ validate[v].session \in Sessions
          /\ sessions[validate[v].session].user = validate[v].user
          /\ sessions[validate[v].session].status # "none"
      BY <2>1, Holds DEF Held, HeldIsStored, KnowsOwner
    <2>3. CASE t = s
      BY <2>1, <2>2, <2>3 DEF TypeOK
    <2>4. CASE t # s
      BY <2>1, <2>4 DEF TypeOK
    <2> QED
      BY <2>3, <2>4
  <1>3. ASSUME NEW t \in Sessions, StoreRevoked(t) PROVE Goal
    BY <1>3 DEF StoreRevoked, TypeOK, SessionRow
  <1>4. ASSUME NEW u \in Users, RevokeAll(u) PROVE Goal
    BY <1>4 DEF RevokeAll, TypeOK, SessionRow
  <1>5. CASE UNCHANGED sessions
    BY <1>5
  <1>6. ASSUME NEW l \in Logins, LoginNext(l), ~(\E t \in Sessions : LoginIssue(l, t))
        PROVE  UNCHANGED sessions \/ \E u \in Users : RevokeAll(u)
    <2>1. LoginCascade(l) => login[l].user \in Users
      BY Holds DEF LoginCascade
    <2> QED
      BY <1>6, <2>1 DEF LoginNext, LoginLoad, LoginWrong, LoginCount, LoginLock,
         LoginCascade, LoginRight, LoginDies
  <1>7. ASSUME NEW v \in Validators, ValidateNext(v),
               ~(\E t \in Sessions : ValidateIssue(v, t))
        PROVE  UNCHANGED sessions \/ \E t \in Sessions : StoreRevoked(t)
    <2>1. ValidateSave(v) \/ ValidateTimeout(v) => validate[v].session \in Sessions
      BY Holds DEF ValidateSave, ValidateTimeout
    <2> QED
      BY <1>7, <2>1 DEF ValidateNext, ValidateLoad, ValidateTimeout, ValidateCode,
         ValidateSave, ValidateDies
  <1>8. ASSUME NEW r \in Revokers, RevokeNext(r)
        PROVE  UNCHANGED sessions \/ \E t \in Sessions : StoreRevoked(t)
    <2>1. RevokeSave(r) => revoke[r].session \in Sessions
      BY Holds DEF RevokeSave
    <2> QED
      BY <1>8, <2>1 DEF RevokeNext, RevokeLoad, RevokeSave
  <1> QED
    BY <1>1, <1>2, <1>3, <1>4, <1>5, <1>6, <1>7, <1>8
    DEF Next, vars, Tick, WorkspaceDeleted

LEMMA VouchedStays ==
    ASSUME TypeOK, ExchangedIsRevoked, [Next]_vars, NEW s \in Sessions,
           sessions[s].status # "none", Vouched(s)
    PROVE  Vouched(s)'
  <1>1. exchanged \subseteq exchanged'
    BY DEF Next, vars, requests, Tick, WorkspaceDeleted, LoginNext, LoginLoad,
       LoginWrong, LoginCount, LoginLock, LoginCascade, LoginRight, LoginIssue,
       LoginDies, RevokeNext, RevokeLoad, RevokeSave, ValidateNext, ValidateLoad,
       ValidateTimeout, ValidateCode, ValidateSave, ValidateIssue, ValidateDies
  <1>2. \A e \in exchanged : e \in Sessions /\ sessions[e].status # "none"
    BY DEF ExchangedIsRevoked, TypeOK
  <1> QED
    BY <1>1, <1>2, OwnerStays DEF Vouched

LEMMA ActiveStaysVouched ==
    ASSUME TypeOK, HeldIsStored, ExchangedIsRevoked, KnowsOwner, ActiveIsVouched,
           [Next]_vars
    PROVE  ActiveIsVouched'
  <1> SUFFICES ASSUME NEW s \in Sessions, sessions'[s].status = "active"
               PROVE  Vouched(s)'
    BY DEF ActiveIsVouched
  <1>1. CASE sessions[s].status = "active"
    BY <1>1, VouchedStays DEF ActiveIsVouched
  <1>2. CASE sessions'[s].user \notin TwoFactor
    BY <1>2 DEF Vouched
  <1>3. ASSUME NEW e \in Sessions, e # s, sessions[e].status # "none",
               sessions[e].user = sessions'[s].user, e \in exchanged'
        PROVE  Vouched(s)'
    BY <1>3, OwnerStays DEF Vouched
  <1> QED
    BY <1>1, <1>2, <1>3, ActiveFrom

(***************************************************************************)
(* Nobody with the second factor is served without it: the gate opens to   *)
(* active sessions only, and an active session is vouched for by another   *)
(* of the user's, which has been exchanged and revoked.                    *)
(***************************************************************************)
THEOREM SecondFactorBeforeServiceHolds == GateSpec => []SecondFactorBeforeService
  <1> DEFINE ServedIsVouched ==
                 \A q \in Requests : gate[q].pc = "served" =>
                     /\ gate[q].session \in Sessions
                     /\ sessions[gate[q].session].status # "none"
                     /\ Vouched(gate[q].session)
             IInv == HeldIsStored /\ KnowsOwner /\ ActiveIsVouched /\ ServedIsVouched
  <1>1. GateInit => IInv
    BY InvInit DEF GateInit, Init, HeldIsStored, KnowsOwner, ActiveIsVouched,
       NoSession, IdleValidate, IdleGate
  <1>2. ASSUME GateTypeOK, ExchangedIsRevoked, IInv, [GateNext]_allVars
        PROVE  IInv'
    <2>1. TypeOK /\ [Next]_vars
      BY <1>2, GateStep DEF GateTypeOK
    <2>2. HeldIsStored' /\ KnowsOwner' /\ ActiveIsVouched'
      BY <1>2, <2>1, InvStep, OwnerStaysKnown, ActiveStaysVouched
    <2>3. ServedIsVouched'
      <3>1. CASE UNCHANGED gate
        BY <1>2, <2>1, <3>1, StoredStays, VouchedStays
      <3>2. ASSUME NEW q \in Requests, NEW s \in Sessions, Serve(q, s)
            PROVE  ServedIsVouched'
        <4>1. sessions[s].status = "active" /\ Vouched(s) /\ UNCHANGED vars
          BY <1>2, <3>2 DEF Serve, Opens, ActiveIsVouched
        <4>2. sessions' = sessions /\ exchanged' = exchanged
          BY <4>1 DEF vars
        <4> QED
          BY <1>2, <3>2, <4>1, <4>2 DEF Serve, Served, Vouched, GateTypeOK
      <3>3. ASSUME NEW q \in Requests, GateDone(q) PROVE ServedIsVouched'
        <4>1. sessions' = sessions /\ exchanged' = exchanged
          BY <3>3 DEF GateDone, vars
        <4> QED
          BY <1>2, <3>3, <4>1 DEF GateDone, IdleGate, Vouched, GateTypeOK
      <3> QED
        BY <1>2, <3>1, <3>2, <3>3, GateMoves DEF gateVars, RevokeAnswered
    <2> QED
      BY <2>2, <2>3
  <1>3. ASSUME ExchangedIsRevoked, IInv PROVE SecondFactorBeforeService
    <2> SUFFICES ASSUME NEW q \in Requests, gate[q].pc = "served",
                        sessions[gate[q].session].user \in TwoFactor
                 PROVE  \E e \in exchanged :
                            /\ e # gate[q].session
                            /\ sessions[e].user = sessions[gate[q].session].user
                            /\ sessions[e].status = "revoked"
      BY DEF SecondFactorBeforeService
    <2>1. Vouched(gate[q].session)
      BY <1>3
    <2> QED
      BY <1>3, <2>1 DEF Vouched, ExchangedIsRevoked
  <1> QED
    BY <1>1, <1>2, <1>3, GateTypeCorrect, GateImplements, ExchangedIsRevokedHolds,
       PTL DEF GateSpec
--------------------------------------------------------------------------------
(***************************************************************************)
(* One session per exchange, in every behaviour in which no two requests   *)
(* exchange one temporary session at the same time.  A session in the      *)
(* hands of a request that will issue is then not yet exchanged, so each   *)
(* active session comes with an exchange of its own.                       *)
(***************************************************************************)
Exchanging(v) == validate[v].pc \in {"code", "save", "issue"}

HoldsUnspent == \A v \in Validators : Exchanging(v) => validate[v].session \notin exchanged

Active(u) == {s \in Sessions : sessions[s] = [user |-> u, status |-> "active"]}
Exchanged(u) == {e \in exchanged : sessions[e].user = u}

Balanced == \A u \in TwoFactor : Cardinality(Active(u)) <= Cardinality(Exchanged(u))

\* A validator that may issue keeps the session it exchanges, or has just read
\* it as pending.
LEMMA ExchangingFrom ==
    ASSUME TypeOK, [Next]_vars, NEW v \in Validators, Exchanging(v)'
    PROVE  \/ Exchanging(v) /\ validate'[v].session = validate[v].session
           \/ /\ validate'[v].session \in Sessions
              /\ sessions[validate'[v].session].status = "pending_2fa"
              /\ UNCHANGED exchanged
  <1> DEFINE Goal == \/ Exchanging(v) /\ validate'[v].session = validate[v].session
                     \/ /\ validate'[v].session \in Sessions
                        /\ sessions[validate'[v].session].status = "pending_2fa"
                        /\ UNCHANGED exchanged
  <1>0. validate \in [Validators -> ValidateState]
    BY DEF TypeOK
  <1>1. CASE validate'[v] = validate[v]
    BY <1>1 DEF Exchanging
  <1>2. CASE ValidateNext(v)
    <2>1. ASSUME NEW s \in Sessions, NEW pc \in {"timeout", "code"}, ValidateLoad(v, s, pc)
          PROVE  Goal
      <3>1. validate'[v].session = s
        BY <1>0, <2>1 DEF ValidateLoad
      <3> QED
        BY <2>1, <3>1 DEF ValidateLoad
    <2>2. CASE ValidateCode(v) \/ ValidateSave(v)
      <3>1. ASSUME NEW pc \in {"save", "issue"},
                   validate' = [validate EXCEPT ![v].pc = pc]
            PROVE  validate'[v].session = validate[v].session
        BY <1>0, <3>1 DEF ValidateState
      <3>2. ASSUME validate' = [validate EXCEPT ![v] = IdleValidate] PROVE FALSE
        BY <1>0, <3>2 DEF IdleValidate, Exchanging
      <3> QED
        BY <2>2, <3>1, <3>2 DEF ValidateCode, ValidateSave, Exchanging
    <2>3. ASSUME ValidateTimeout(v) \/ ValidateDies(v)
                 \/ \E s \in Sessions : ValidateIssue(v, s)
          PROVE  FALSE
      BY <1>0, <2>3 DEF ValidateTimeout, ValidateDies, ValidateIssue, IdleValidate,
         Exchanging
    <2> QED
      BY <1>2, <2>1, <2>2, <2>3 DEF ValidateNext
  <1>3. ASSUME NEW x \in Validators, x # v, ValidateNext(x)
        PROVE  validate'[v] = validate[v]
    BY <1>0, <1>3 DEF ValidateNext, ValidateLoad, ValidateTimeout, ValidateCode,
       ValidateSave, ValidateIssue, ValidateDies
  <1>4. UNCHANGED validate \/ \E x \in Validators : ValidateNext(x)
    BY DEF Next, vars, requests, Tick, WorkspaceDeleted, LoginNext, LoginLoad,
       LoginWrong, LoginCount, LoginLock, LoginCascade, LoginRight, LoginIssue,
       LoginDies, RevokeNext, RevokeLoad, RevokeSave
  <1> QED
    BY <1>1, <1>2, <1>3, <1>4

\* The active sessions of a user with the second factor grow with an exchange.
LEMMA ActiveSteps ==
    ASSUME TypeOK, HeldIsStored, KnowsOwner, [Next]_vars
    PROVE  \/ /\ UNCHANGED exchanged
              /\ \A u \in TwoFactor : Active(u)' \in SUBSET Active(u)
           \/ \E v \in Validators, s \in Sessions :
                 /\ Exchanging(v)
                 /\ validate'[v] = IdleValidate
                 /\ validate[v].session \in Sessions /\ validate[v].session # s
                 /\ sessions[validate[v].session].user = validate[v].user
                 /\ sessions[s].status = "none"
                 /\ exchanged' = exchanged \cup {validate[v].session}
                 /\ sessions' = [sessions EXCEPT ![s] =
                                    [user |-> validate[v].user, status |-> "active"]]
  <1> DEFINE Goal == /\ UNCHANGED exchanged
                     /\ \A u \in TwoFactor : Active(u)' \in SUBSET Active(u)
  <1>1. ASSUME UNCHANGED sessions, UNCHANGED exchanged PROVE Goal
    BY <1>1 DEF Active
  <1>2. ASSUME NEW t \in Sessions, StoreRevoked(t), UNCHANGED exchanged PROVE Goal
    BY <1>2 DEF StoreRevoked, TypeOK, SessionRow, Active
  <1>3. ASSUME NEW u \in Users, RevokeAll(u), UNCHANGED exchanged PROVE Goal
    BY <1>3 DEF RevokeAll, TypeOK, SessionRow, Active
  <1>4. ASSUME NEW l \in Logins, NEW t \in Sessions, LoginIssue(l, t) PROVE Goal
    <2>1. CASE UNCHANGED sessions
      BY <1>1, <1>4, <2>1 DEF LoginIssue
    <2>2. ASSUME NEW status,
                 status = (IF login[l].user \in TwoFactor THEN "pending_2fa" ELSE "active"),
                 InsertSession(t, login[l].user, status)
          PROVE  Goal
      BY <1>4, <2>2 DEF LoginIssue, InsertSession, TypeOK, Active
    <2> QED
      BY <1>4, <2>1, <2>2 DEF LoginIssue
  <1>5. ASSUME NEW l \in Logins, LoginNext(l), ~(\E t \in Sessions : LoginIssue(l, t))
        PROVE  UNCHANGED exchanged
               /\ (UNCHANGED sessions \/ \E u \in Users : RevokeAll(u))
    <2>1. LoginCascade(l) => login[l].user \in Users
      BY Holds DEF LoginCascade
    <2> QED
      BY <1>5, <2>1 DEF LoginNext, LoginLoad, LoginWrong, LoginCount, LoginLock,
         LoginCascade, LoginRight, LoginDies
  <1>6. ASSUME NEW v \in Validators, NEW s \in Sessions, ValidateIssue(v, s)
        PROVE  /\ Exchanging(v)
               /\ validate'[v] = IdleValidate
               /\ validate[v].session \in Sessions /\ validate[v].session # s
               /\ sessions[validate[v].session].user = validate[v].user
               /\ sessions[s].status = "none"
               /\ exchanged' = exchanged \cup {validate[v].session}
               /\ sessions' = [sessions EXCEPT ![s] =
                                  [user |-> validate[v].user, status |-> "active"]]
    <2>1. validate[v].pc = "issue"
      BY <1>6 DEF ValidateIssue
    <2>2. /\ validate[v].session \in Sessions
          /\ sessions[validate[v].session].user = validate[v].user
          /\ sessions[validate[v].session].status # "none"
      BY <2>1, Holds DEF Held, HeldIsStored, KnowsOwner
    <2> QED
      BY <1>6, <2>1, <2>2 DEF ValidateIssue, InsertSession, Exchanging, TypeOK
  <1>7. ASSUME NEW v \in Validators, ValidateNext(v),
               ~(\E t \in Sessions : ValidateIssue(v, t))
        PROVE  UNCHANGED exchanged
               /\ (UNCHANGED sessions \/ \E t \in Sessions : StoreRevoked(t))
    <2>1. ValidateSave(v) \/ ValidateTimeout(v) => validate[v].session \in Sessions
      BY Holds DEF ValidateSave, ValidateTimeout
    <2> QED
      BY <1>7, <2>1 DEF ValidateNext, ValidateLoad, ValidateTimeout, ValidateCode,
         ValidateSave, ValidateDies
  <1>8. ASSUME NEW r \in Revokers, RevokeNext(r)
        PROVE  UNCHANGED exchanged
               /\ (UNCHANGED sessions \/ \E t \in Sessions : StoreRevoked(t))
    <2>1. RevokeSave(r) => revoke[r].session \in Sessions
      BY Holds DEF RevokeSave
    <2> QED
      BY <1>8, <2>1 DEF RevokeNext, RevokeLoad, RevokeSave
  <1>9. CASE Tick \/ UNCHANGED vars \/ \E u \in Users : WorkspaceDeleted(u)
    BY <1>1, <1>3, <1>9 DEF Tick, WorkspaceDeleted, vars
  <1> QED
    BY <1>1, <1>2, <1>3, <1>4, <1>5, <1>6, <1>7, <1>8, <1>9 DEF Next

\* auth.go, Validate2FA: a user with the second factor has no more active
\* sessions than exchanges when no temporary session is exchanged twice at once.
THEOREM OneSessionUnlessRaced ==
    ASSUME IsFiniteSet(Sessions)
    PROVE  Spec /\ []ExchangedApart => []OneSessionPerExchange
  <1> DEFINE Inv == HeldIsStored /\ KnowsOwner /\ HoldsUnspent /\ Balanced
  <1>0. ASSUME NEW S \in SUBSET Sessions
        PROVE  IsFiniteSet(S) /\ Cardinality(S) \in Nat
    BY <1>0, FS_Subset, FS_CardinalityType
  <1>1. ASSUME Init PROVE Inv
    <2>1. \A u \in TwoFactor : Active(u) = {} /\ Exchanged(u) = {}
      BY <1>1 DEF Init, NoSession, Active, Exchanged
    <2>2. Balanced
      BY <2>1, FS_EmptySet DEF Balanced
    <2> QED
      BY <1>1, <2>2, InvInit DEF Init, KnowsOwner, HoldsUnspent, Exchanging, IdleValidate
  <1>2. ASSUME TypeOK, ExchangedIsRevoked, Inv, ExchangedApart, [Next]_vars PROVE Inv'
    <2>1. HeldIsStored' /\ KnowsOwner'
      BY <1>2, InvStep, OwnerStaysKnown
    <2>2. HoldsUnspent'
      <3> SUFFICES ASSUME NEW v \in Validators, Exchanging(v)'
                   PROVE  validate'[v].session \notin exchanged'
        BY DEF HoldsUnspent
      <3>1. validate'[v].session \notin exchanged
        BY <1>2, ExchangingFrom DEF HoldsUnspent, ExchangedIsRevoked
      <3>2. ASSUME NEW w \in Validators, Exchanging(w), validate'[w] = IdleValidate,
                   exchanged' = exchanged \cup {validate[w].session}
            PROVE  validate'[v].session # validate[w].session
        <4>1. v # w
          BY <3>2 DEF Exchanging, IdleValidate
        <4>2. CASE Exchanging(v) /\ validate'[v].session = validate[v].session
          BY <1>2, <3>2, <4>1, <4>2 DEF ExchangedApart, Exchanging
        <4>3. CASE UNCHANGED exchanged
          BY <3>1, <3>2, <4>3
        <4> QED
          BY <1>2, <4>2, <4>3, ExchangingFrom
      <3> QED
        BY <1>2, <3>1, <3>2, ActiveSteps
    <2>3. Balanced'
      <3> SUFFICES ASSUME NEW u \in TwoFactor
                   PROVE  Cardinality(Active(u)') <= Cardinality(Exchanged(u)')
        BY DEF Balanced
      <3>1. /\ Active(u) \in SUBSET Sessions
            /\ Exchanged(u) \in SUBSET Sessions
            /\ exchanged \in SUBSET Sessions
        BY <1>2 DEF Active, Exchanged, TypeOK
      <3>2. /\ IsFiniteSet(Active(u)) /\ Cardinality(Active(u)) \in Nat
            /\ IsFiniteSet(Exchanged(u)) /\ Cardinality(Exchanged(u)) \in Nat
            /\ Cardinality(Active(u)) <= Cardinality(Exchanged(u))
        BY <1>0, <1>2, <3>1 DEF Balanced
      <3>3. \A e \in exchanged : e \in Sessions /\ sessions'[e].user = sessions[e].user
        BY <1>2, <3>1, OwnerStays DEF ExchangedIsRevoked
      <3>4. ASSUME UNCHANGED exchanged, Active(u)' \in SUBSET Active(u)
            PROVE  Cardinality(Active(u)') <= Cardinality(Exchanged(u)')
        <4>1. Exchanged(u)' = Exchanged(u)
          BY <3>3, <3>4 DEF Exchanged
        <4>2. Cardinality(Active(u)') \in Nat
              /\ Cardinality(Active(u)') <= Cardinality(Active(u))
          BY <3>2, <3>4, FS_Subset, FS_CardinalityType
        <4> QED
          BY <3>2, <4>1, <4>2
      <3>5. ASSUME NEW v \in Validators, NEW s \in Sessions,
                   Exchanging(v),
                   validate[v].session \in Sessions, validate[v].session # s,
                   sessions[validate[v].session].user = validate[v].user,
                   sessions[s].status = "none",
                   exchanged' = exchanged \cup {validate[v].session},
                   sessions' = [sessions EXCEPT ![s] =
                                   [user |-> validate[v].user, status |-> "active"]]
            PROVE  Cardinality(Active(u)') <= Cardinality(Exchanged(u)')
        <4> DEFINE e == validate[v].session
        <4>1. e \notin exchanged /\ s \notin Active(u)
          BY <1>2, <3>5 DEF HoldsUnspent, Active
        <4>2. sessions'[e].user = validate[v].user
          BY <1>2, <3>5 DEF TypeOK
        <4>3. CASE validate[v].user = u
          <5>1. Active(u)' = Active(u) \cup {s}
            BY <1>2, <3>5, <4>3 DEF Active, TypeOK
          <5>2. Exchanged(u)' = Exchanged(u) \cup {e} /\ e \notin Exchanged(u)
            BY <3>3, <3>5, <4>1, <4>2, <4>3 DEF Exchanged
          <5>3. Cardinality(Active(u)') = Cardinality(Active(u)) + 1
            BY <3>2, <4>1, <5>1, FS_AddElement
          <5>4. Cardinality(Exchanged(u)') = Cardinality(Exchanged(u)) + 1
            BY <3>2, <5>2, FS_AddElement
          <5> QED
            BY <3>2, <5>3, <5>4
        <4>4. CASE validate[v].user # u
          <5>1. Active(u)' = Active(u)
            BY <1>2, <3>5, <4>4 DEF Active, TypeOK
          <5>2. Exchanged(u)' = Exchanged(u)
            BY <3>3, <3>5, <4>2, <4>4 DEF Exchanged
          <5> QED
            BY <3>2, <5>1, <5>2
        <4> QED
          BY <4>3, <4>4
      <3> QED
        BY <1>2, <3>4, <3>5, ActiveSteps
    <2> QED
      BY <2>1, <2>2, <2>3
  <1>3. Inv => OneSessionPerExchange
    BY DEF Balanced, OneSessionPerExchange, Active, Exchanged
  <1> QED
    BY <1>1, <1>2, <1>3, TypeCorrect, ExchangedIsRevokedHolds, PTL DEF Spec
================================================================================
