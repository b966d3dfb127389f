----------------------------- MODULE SlidingWindow -----------------------------
(***************************************************************************)
(* What a rate limiter promises a client of one address: a call is refused *)
(* only when the calls admitted during the window of its route reach the   *)
(* limit of the route, and admitted only when those admitted during the    *)
(* shortest of the windows do not.                                         *)
(***************************************************************************)
EXTENDS Naturals, FiniteSets

CONSTANTS
    Keys,       \* hashed addresses
    Routes,     \* routes under the limiter
    Limit,      \* maxReqs of a route
    Window      \* window of a route

VARIABLES
    now,        \* the clock
    admitted,   \* the calls admitted so far
    verdict     \* the answer to the last call

vars == <<now, admitted, verdict>>

NoCall == [key |-> "none", route |-> "none", at |-> 0, answer |-> "none"]
Verdict(k, r, answer) == [key |-> k, route |-> r, at |-> now, answer |-> answer]

\* Calls are numbered, for several may be admitted at one instant.
Call(k, r) == [n |-> Cardinality(admitted) + 1, key |-> k, route |-> r, at |-> now]

\* The calls of an address, on any route, within a window that ends now.
Recent(k, w) == {e \in admitted : e.key = k /\ e.at + w > now}

Shortest == {r \in Routes : \A q \in Routes : Window[r] <= Window[q]}

Init == now = 0 /\ admitted = {} /\ verdict = NoCall

Tick == now' = now + 1 /\ UNCHANGED <<admitted, verdict>>

Admit(k, r) ==
    /\ \A q \in Shortest : Cardinality(Recent(k, Window[q])) < Limit[r]
    /\ admitted' = admitted \cup {Call(k, r)}
    /\ verdict' = Verdict(k, r, "admitted")
    /\ UNCHANGED now

Refuse(k, r) ==
    /\ Cardinality(Recent(k, Window[r])) >= Limit[r]
    /\ verdict' = Verdict(k, r, "refused")
    /\ UNCHANGED <<now, admitted>>

Next == Tick \/ \E k \in Keys, r \in Routes : Admit(k, r) \/ Refuse(k, r)

Spec == Init /\ [][Next]_vars
================================================================================
