------------------------------ MODULE RateLimiter ------------------------------
(***************************************************************************)
(* InMemoryRateLimiter: one bucket of instants per hashed address, shared  *)
(* by all the routes RegisterRoutes puts under the limiter, each with its  *)
(* own limit and window.  A call holds the mutex from end to end, hence    *)
(* one step, and reads the monotonic clock under it.                       *)
(***************************************************************************)
EXTENDS Naturals, FiniteSets

CONSTANTS
    Keys,        \* hashed addresses
    Routes,      \* routes under the limiter
    Limit,       \* maxReqs of a route
    Window,      \* window of a route, in units of the clock
    MaxTime,     \* bound on the clock
    MaxCalls     \* bound on the calls that are admitted

ASSUME LimiterAssumption ==
    /\ Limit \in [Routes -> Nat \ {0}]
    /\ Window \in [Routes -> Nat \ {0}]
    /\ MaxTime \in Nat
    /\ MaxCalls \in Nat

VARIABLES
    now,         \* the clock
    buckets,     \* rl.buckets
    verdict      \* the answer of RateLimitMiddleware to the last call

\* History: the calls admitted so far, with their route; no guard but the
\* bound reads it.
VARIABLE admitted

vars == <<now, buckets, verdict, admitted>>

\* An instant of a bucket; the number tells equal instants of the list apart.
Entry == [n : 1..MaxCalls, at : 0..MaxTime]
EntryOf(e) == [n |-> e.n, at |-> e.at]

NoCall == [key |-> "none", route |-> "none", at |-> 0, answer |-> "none"]
Verdict(k, r, answer) == [key |-> k, route |-> r, at |-> now, answer |-> answer]

\* Every variable holds a value of its kind; a bucket holds admitted calls.
TypeOK ==
    /\ now \in 0..MaxTime
    /\ admitted \subseteq [n : 1..MaxCalls, key : Keys, route : Routes, at : 0..now]
    /\ buckets \in [Keys -> SUBSET Entry]
    /\ \A k \in Keys : buckets[k] \subseteq {EntryOf(e) : e \in {f \in admitted : f.key = k}}
    /\ verdict \in {NoCall} \cup [key : Keys, route : Routes, at : 0..now,
                                  answer : {"admitted", "refused"}]

Init ==
    /\ now = 0
    /\ buckets = [k \in Keys |-> {}]
    /\ verdict = NoCall
    /\ admitted = {}

Tick ==
    /\ now < MaxTime
    /\ now' = now + 1
    /\ UNCHANGED <<buckets, verdict, admitted>>

\* Mutant: the instants that have expired are the ones kept.
MutantUnexpired(k, w) == {e \in buckets[k] : e.at + w <= now}

\* t.After(now - window).
Unexpired(k, w) == {e \in buckets[k] : e.at + w > now}

\* Mutant: the limit may be exceeded by one.
MutantFull(valid, r) == Cardinality(valid) > Limit[r]

Full(valid, r) == Cardinality(valid) >= Limit[r]

Call(k, r) == [n |-> Cardinality(admitted) + 1, key |-> k, route |-> r, at |-> now]

\* Mutant: the call is recorded before the limit is looked at, refused or not.
MutantRefuse(k, r) ==
    LET valid == Unexpired(k, Window[r]) IN
    /\ Full(valid, r)
    /\ Cardinality(admitted) < MaxCalls
    /\ buckets' = [buckets EXCEPT ![k] = valid \cup {EntryOf(Call(k, r))}]
    /\ verdict' = Verdict(k, r, "refused")
    /\ UNCHANGED <<now, admitted>>

\* Allow on a full bucket, and the answer 429.
Refuse(k, r) ==
    LET valid == Unexpired(k, Window[r]) IN
    /\ Full(valid, r)
    /\ buckets' = [buckets EXCEPT ![k] = valid]
    /\ verdict' = Verdict(k, r, "refused")
    /\ UNCHANGED <<now, admitted>>

\* Mutant: the expired instants stay in the bucket.
MutantAdmit(k, r) ==
    LET valid == Unexpired(k, Window[r]) IN
    /\ ~Full(valid, r)
    /\ Cardinality(admitted) < MaxCalls
    /\ buckets' = [buckets EXCEPT ![k] = @ \cup {EntryOf(Call(k, r))}]
    /\ verdict' = Verdict(k, r, "admitted")
    /\ admitted' = admitted \cup {Call(k, r)}
    /\ UNCHANGED now

\* Allow on a bucket with room, and the call of the handler.
Admit(k, r) ==
    LET valid == Unexpired(k, Window[r]) IN
    /\ ~Full(valid, r)
    /\ Cardinality(admitted) < MaxCalls
    /\ buckets' = [buckets EXCEPT ![k] = valid \cup {EntryOf(Call(k, r))}]
    /\ verdict' = Verdict(k, r, "admitted")
    /\ admitted' = admitted \cup {Call(k, r)}
    /\ UNCHANGED now

Next == Tick \/ \E k \in Keys, r \in Routes : Refuse(k, r) \/ Admit(k, r)

Spec == Init /\ [][Next]_vars
--------------------------------------------------------------------------------
Shortest == {r \in Routes : \A q \in Routes : Window[r] <= Window[q]}

\* The calls of the same address, on whatever route, in the window of route q
\* that ends with the admitted call e.
CallsWithin(e, q) ==
    {f \in admitted : f.key = e.key /\ f.n <= e.n /\ f.at + Window[q] > e.at}
WindowOf(e) == CallsWithin(e, e.route)

\* rate_limit.go, Allow: whatever its window, no route admits a call beyond its
\* limit within the shortest window, calls of all routes counted.
EveryRouteBounded ==
    \A e \in admitted, q \in Shortest : Cardinality(CallsWithin(e, q)) <= Limit[e.route]

\* rate_limit.go, "sliding window": no call of a route with the shortest window
\* is admitted beyond the limit of its route, calls of all routes counted.
ShortestWindowKept ==
    \A e \in admitted : e.route \in Shortest => Cardinality(WindowOf(e)) <= Limit[e.route]

\* rate_limit.go, Allow: although every call appends, a bucket never holds more
\* than the largest limit, for no route admits into more than it allows itself.
BucketBounded ==
    \A k \in Keys :
        buckets[k] # {} => \E r \in Routes : Cardinality(buckets[k]) <= Limit[r]

\* The bucket stands for the whole log: no call is refused that the log of its
\* own window would let pass, and none passes that the log of the shortest window
\* would refuse.
SW == INSTANCE SlidingWindow
ImplementsWindow == SW!Spec
--------------------------------------------------------------------------------
\* handlers/auth.go, "RateLimit 3/5min": every route keeps its limit over its own
\* window, calls of that route alone counted.
EveryWindowKept ==
    \A e \in admitted :
        Cardinality({f \in WindowOf(e) : f.route = e.route}) <= Limit[e.route]
================================================================================
