---------------------------- MODULE SessionLifecycle ----------------------------
(***************************************************************************)
(* SM-17, what the table of sessions promises: a session is created active *)
(* or pending a second factor, moves along the arrows of                   *)
(* sessionStatusTransitions, and never leaves revoked or expired.          *)
(***************************************************************************)
CONSTANT Sessions

VARIABLE status

\* NewUserSession creates a session in one of two statuses.
Created == {<<"none", "active">>, <<"none", "pending_2fa">>}

\* sessionStatusTransitions.
SM17 == {<<"active", "expired">>, <<"active", "revoked">>,
         <<"pending_2fa", "active">>, <<"pending_2fa", "revoked">>}

Init == status = [s \in Sessions |-> "none"]

\* Revoking all the sessions of a user moves several of them at once.
Next ==
    \E moved \in SUBSET Sessions :
        /\ \A s \in moved : <<status[s], status'[s]>> \in Created \cup SM17
        /\ \A s \in Sessions \ moved : status'[s] = status[s]
        /\ status' = [s \in Sessions |-> status'[s]]

Spec == Init /\ [][Next]_status
===============================================================================
