------------------------------- MODULE SessionGate -------------------------------
(***************************************************************************)
(* AuthJWTMiddleware in front of the use cases of AuthSessions.  A request *)
(* that bears a token names a session; the middleware reads the row of     *)
(* that session once, and serves the request when the row is active.  What *)
(* comes before that reading touches no state, so it is one step with it;  *)
(* the use cases go on while the request is served.                        *)
(*                                                                         *)
(* A token is issued with its session, signed, and expires with it: only   *)
(* requests whose token Parse accepts are here.                            *)
(***************************************************************************)
EXTENDS AuthSessions, FiniteSets

CONSTANT Requests         \* goroutines serving requests that bear a token

VARIABLES
    gate,        \* requests on their way through the middleware
    answered     \* history: sessions whose revocation has been answered

gateVars == <<gate, answered>>
allVars == <<vars, gateVars>>

\* late: the row was read once the revocation of its session had been answered.
Served(s, late) == [pc |-> "served", session |-> s, late |-> late]
IdleGate == [pc |-> "idle", session |-> None, late |-> "no"]

GateState ==
    {IdleGate} \cup
    [pc : {"served"}, session : Sessions, late : {"no", "yes"}]

GateTypeOK ==
    /\ TypeOK
    /\ gate \in [Requests -> GateState]
    /\ answered \subseteq Sessions

GateInit ==
    /\ Init
    /\ gate = [q \in Requests |-> IdleGate]
    /\ answered = {}
--------------------------------------------------------------------------------
(* AuthJWTMiddleware *)

\* Mutant: the test names the statuses to refuse, and forgets the temporary one.
MutantOpens(status) == status \notin {"none", "revoked"}

Opens(status) == status = "active"

\* Steps 1 to 5: the claims name a session, whose row decides; a request that
\* is refused changes nothing.
Serve(q, s) ==
    /\ gate[q].pc = "idle"
    /\ Opens(sessions[s].status)
    /\ gate' = [gate EXCEPT ![q] = Served(s, IF s \in answered THEN "yes" ELSE "no")]
    /\ UNCHANGED <<vars, answered>>

\* c.Next() returns.
GateDone(q) ==
    /\ gate[q].pc = "served"
    /\ gate' = [gate EXCEPT ![q] = IdleGate]
    /\ UNCHANGED <<vars, answered>>
--------------------------------------------------------------------------------
\* RevokeJWT answers once its Update has succeeded.
RevokeAnswered(r) ==
    /\ RevokeSave(r)
    /\ StoreRevoked(revoke[r].session)
    /\ answered' = answered \cup {revoke[r].session}
    /\ UNCHANGED gate

RevokeFailed(r) ==
    /\ Faults
    /\ RevokeSave(r)
    /\ UNCHANGED <<sessions, gateVars>>

GateNext ==
    \/ /\ \/ Tick
          \/ \E u \in Users : WorkspaceDeleted(u)
          \/ \E l \in Logins : LoginNext(l)
          \/ \E v \in Validators : ValidateNext(v)
          \/ \E r \in Revokers, s \in Sessions : RevokeLoad(r, s)
       /\ UNCHANGED gateVars
    \/ \E r \in Revokers : RevokeAnswered(r) \/ RevokeFailed(r)
    \/ \E q \in Requests :
          (\E s \in Sessions : Serve(q, s)) \/ GateDone(q)

GateSpec == GateInit /\ [][GateNext]_allVars
--------------------------------------------------------------------------------
\* auth_jwt.go, SM-17: once a revocation has been answered, no request whose
\* session is read afterwards is served, whatever the requests that hold the
\* session from before write back.
RevokedServesNothing ==
    \A q \in Requests : gate[q].pc = "served" => gate[q].late = "no"

\* auth_jwt.go, step 4: a user with the second factor is served only once one of
\* his temporary sessions has been exchanged, and that one opens nothing any more.
SecondFactorBeforeService ==
    \A q \in Requests :
        LET u == sessions[gate[q].session].user IN
        gate[q].pc = "served" /\ u \in TwoFactor =>
            \E e \in exchanged :
                /\ e # gate[q].session
                /\ sessions[e].user = u
                /\ sessions[e].status = "revoked"
--------------------------------------------------------------------------------
\* auth.go, step 7 of Validate2FA: the temporary session is spent, one exchange
\* gives one session.
OneSessionPerExchange ==
    \A u \in TwoFactor :
        Cardinality({s \in Sessions : sessions[s] = [user |-> u, status |-> "active"]})
            <= Cardinality({e \in exchanged : sessions[e].user = u})

\* No two requests exchange one temporary session at the same time.
ExchangedApart ==
    \A v, w \in Validators :
        /\ validate[v].pc \in {"code", "save", "issue"}
        /\ validate[w].pc \in {"code", "save", "issue"}
        /\ validate[v].session = validate[w].session
        => v = w
==================================================================================
