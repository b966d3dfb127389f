--------------------------- MODULE RateLimiterProofs ---------------------------
(***************************************************************************)
(* Proofs about RateLimiter.  The bucket of an address is compared with    *)
(* the log of the calls admitted, through the numbers of the calls.        *)
(***************************************************************************)
EXTENDS RateLimiter, FiniteSetTheorems, TLAPS

Admitted == [n : 1..MaxCalls, key : Keys, route : Routes, at : 0..MaxTime]

\* What TypeOK says of one call and of one instant of a bucket.
LEMMA Typed ==
    ASSUME TypeOK
    PROVE  /\ now \in Nat
           /\ \A e \in admitted : /\ e \in Admitted
                                  /\ e.n \in Nat /\ e.at \in Nat /\ e.at <= now
                                  /\ e.route \in Routes /\ e.key \in Keys
           /\ \A k \in Keys : \A b \in buckets[k] :
                 /\ b.at \in Nat /\ b.n \in Nat
                 /\ \E e \in admitted : e.key = k /\ EntryOf(e) = b
  BY LimiterAssumption DEF TypeOK, Admitted, Entry

LEMMA OneMore ==
    ASSUME NEW S, NEW x, IsFiniteSet(S)
    PROVE  /\ Cardinality(S \cup {x}) \in Nat
           /\ Cardinality(S \cup {x}) <= Cardinality(S) + 1
  <1>1. Cardinality(S) \in Nat
    BY FS_CardinalityType
  <1>2. IsFiniteSet(S \cup {x})
        /\ Cardinality(S \cup {x}) = IF x \in S THEN Cardinality(S) ELSE Cardinality(S) + 1
    BY FS_AddElement
  <1> QED
    BY <1>1, <1>2

LEMMA Parameters ==
    ASSUME NEW r \in Routes
    PROVE  Limit[r] \in Nat \ {0} /\ Window[r] \in Nat \ {0}
  BY LimiterAssumption

(***************************************************************************)
(* The log and the buckets are finite, and the calls of the log numbered.  *)
(***************************************************************************)
Counted ==
    /\ IsFiniteSet(admitted)
    /\ \A k \in Keys : IsFiniteSet(buckets[k])
    /\ \A e \in admitted : e.n <= Cardinality(admitted)
    /\ \A e, f \in admitted : e.n = f.n => e = f

(***************************************************************************)
(* What no route may drop: the calls within the shortest window.  A route  *)
(* with a longer window keeps them too, one with a shorter there is none.  *)
(***************************************************************************)
RecentAreKept ==
    \A r \in Shortest, e \in admitted :
        e.at + Window[r] > now => EntryOf(e) \in buckets[e.key]

IInv == TypeOK /\ Counted /\ RecentAreKept

LEMMA InitHolds == Init => IInv
  BY FS_EmptySet, LimiterAssumption DEF Init, IInv, TypeOK, Counted, RecentAreKept,
     NoCall

\* The new call is new, and of its kind.
LEMMA CallIsNew ==
    ASSUME IInv, NEW k \in Keys, NEW r \in Routes, Cardinality(admitted) < MaxCalls
    PROVE  /\ Call(k, r) \in [n : 1..MaxCalls, key : Keys, route : Routes, at : 0..now]
           /\ Cardinality(admitted) \in Nat
           /\ Call(k, r) \notin admitted
           /\ Call(k, r).n = Cardinality(admitted) + 1
           /\ Call(k, r).key = k /\ Call(k, r).route = r /\ Call(k, r).at = now
           /\ \A e \in admitted : e.n < Call(k, r).n
           /\ EntryOf(Call(k, r)) \in Entry
  <1>1. Cardinality(admitted) \in Nat
    BY FS_CardinalityType DEF IInv, Counted
  <1>2. now \in 0..now /\ now \in 0..MaxTime
    BY LimiterAssumption DEF IInv, TypeOK
  <1>3. \A e \in admitted : e.n \in Nat /\ e.n <= Cardinality(admitted)
    BY Typed DEF IInv, Counted
  <1>4. Cardinality(admitted) + 1 \in 1..MaxCalls
    BY <1>1, LimiterAssumption
  <1>5. Call(k, r).n = Cardinality(admitted) + 1
        /\ Call(k, r).key = k /\ Call(k, r).route = r /\ Call(k, r).at = now
    BY DEF Call
  <1>6. \A e \in admitted : e.n < Call(k, r).n
    BY <1>1, <1>3, <1>5
  <1>7. Call(k, r) \notin admitted
    BY <1>1, <1>5, <1>3
  <1>8. EntryOf(Call(k, r)) \in Entry
    BY <1>2, <1>4, <1>5 DEF EntryOf, Entry
  <1>9. Call(k, r) \in [n : 1..MaxCalls, key : Keys, route : Routes, at : 0..now]
    BY <1>2, <1>4 DEF Call
  <1> QED
    BY <1>1, <1>5, <1>6, <1>7, <1>8, <1>9

LEMMA VerdictType ==
    ASSUME IInv, NEW k \in Keys, NEW r \in Routes, NEW answer \in {"admitted", "refused"}
    PROVE  Verdict(k, r, answer) \in [key : Keys, route : Routes, at : 0..now,
                                      answer : {"admitted", "refused"}]
  <1>1. now \in 0..now
    BY LimiterAssumption DEF IInv, TypeOK
  <1> QED
    BY <1>1 DEF Verdict

\* The windows of all the routes contain the shortest.
LEMMA ShortestIsKept ==
    ASSUME IInv, NEW r \in Routes, NEW s \in Shortest, NEW e \in admitted,
           e.at + Window[s] > now
    PROVE  EntryOf(e) \in Unexpired(e.key, Window[r])
  <1>1. EntryOf(e) \in buckets[e.key] /\ EntryOf(e).at = e.at
    BY DEF IInv, RecentAreKept, EntryOf
  <1>2. s \in Routes /\ Window[s] <= Window[r]
    BY DEF Shortest
  <1>3. Window[s] \in Nat /\ Window[r] \in Nat /\ e.at \in Nat /\ now \in Nat
    BY <1>2, Parameters, Typed DEF IInv
  <1> QED
    BY <1>1, <1>2, <1>3 DEF Unexpired

LEMMA TickStep ==
    ASSUME IInv, Tick
    PROVE  IInv'
  <1> USE DEF Tick
  <1>1. now \in Nat /\ now' = now + 1 /\ now' \in 0..MaxTime
    BY LimiterAssumption DEF IInv, TypeOK
  <1>2. \A x : x \in 0..now => x \in 0..now'
    BY <1>1
  <1>3. TypeOK'
    <2>1. \A e \in admitted : e \in [n : 1..MaxCalls, key : Keys, route : Routes,
                                     at : 0..now']
      BY <1>2 DEF IInv, TypeOK
    <2>2. verdict \in {NoCall} \cup [key : Keys, route : Routes, at : 0..now',
                                     answer : {"admitted", "refused"}]
      BY <1>2 DEF IInv, TypeOK
    <2> QED
      BY <1>1, <2>1, <2>2 DEF IInv, TypeOK
  <1>4. RecentAreKept'
    <2> SUFFICES ASSUME NEW r \in Shortest, NEW e \in admitted, e.at + Window[r] > now'
                 PROVE  EntryOf(e) \in buckets[e.key]
      BY DEF RecentAreKept, Shortest
    <2>1. Window[r] \in Nat /\ e.at \in Nat
      BY Parameters, Typed DEF IInv, Shortest
    <2> QED
      BY <1>1, <2>1 DEF IInv, RecentAreKept
  <1>5. Counted'
    BY DEF IInv, Counted
  <1> QED
    BY <1>3, <1>4, <1>5 DEF IInv

LEMMA RefuseStep ==
    ASSUME IInv, NEW k \in Keys, NEW r \in Routes, Refuse(k, r)
    PROVE  IInv'
  <1> DEFINE valid == Unexpired(k, Window[r])
  <1>1. /\ buckets' = [buckets EXCEPT ![k] = valid]
        /\ verdict' = Verdict(k, r, "refused")
        /\ UNCHANGED <<now, admitted>>
    BY DEF Refuse
  <1>2. valid \subseteq buckets[k]
    BY DEF Unexpired
  <1>3. TypeOK'
    BY <1>1, <1>2, VerdictType DEF IInv, TypeOK
  <1>4. Counted'
    BY <1>1, <1>2, FS_Subset DEF IInv, Counted, TypeOK
  <1>5. RecentAreKept'
    BY <1>1, ShortestIsKept, Typed DEF IInv, RecentAreKept, TypeOK, Shortest
  <1> QED
    BY <1>3, <1>4, <1>5 DEF IInv

LEMMA AdmitStep ==
    ASSUME IInv, NEW k \in Keys, NEW r \in Routes, Admit(k, r)
    PROVE  IInv'
  <1> DEFINE valid == Unexpired(k, Window[r])
             new == Call(k, r)
  <1>1. /\ buckets' = [buckets EXCEPT ![k] = valid \cup {EntryOf(new)}]
        /\ verdict' = Verdict(k, r, "admitted")
        /\ admitted' = admitted \cup {new}
        /\ now' = now
        /\ Cardinality(admitted) < MaxCalls
    BY DEF Admit
  <1>2. valid \subseteq buckets[k]
    BY DEF Unexpired
  <1>3. /\ new \in [n : 1..MaxCalls, key : Keys, route : Routes, at : 0..now]
        /\ Cardinality(admitted) \in Nat
        /\ new \notin admitted
        /\ new.n = Cardinality(admitted) + 1
        /\ new.key = k /\ new.route = r /\ new.at = now
        /\ \A e \in admitted : e.n < new.n
        /\ EntryOf(new) \in Entry
    BY <1>1, CallIsNew
  <1> HIDE DEF new, valid
  <1>4. TypeOK'
    <2>1. buckets' \in [Keys -> SUBSET Entry]
      BY <1>1, <1>2, <1>3 DEF IInv, TypeOK
    <2>2. \A x \in Keys :
             buckets'[x] \subseteq {EntryOf(e) : e \in {f \in admitted' : f.key = x}}
      BY <1>1, <1>2, <1>3 DEF IInv, TypeOK
    <2>3. now' \in 0..MaxTime
          /\ admitted' \subseteq [n : 1..MaxCalls, key : Keys, route : Routes, at : 0..now']
      BY <1>1, <1>3 DEF IInv, TypeOK
    <2>4. verdict' \in {NoCall} \cup [key : Keys, route : Routes, at : 0..now',
                                      answer : {"admitted", "refused"}]
      BY <1>1, VerdictType
    <2> QED
      BY <2>1, <2>2, <2>3, <2>4 DEF TypeOK
  <1>5. Counted'
    <2>1. IsFiniteSet(admitted') /\ Cardinality(admitted') = Cardinality(admitted) + 1
      BY <1>1, <1>3, FS_AddElement DEF IInv, Counted
    <2>2. \A x \in Keys : IsFiniteSet(buckets'[x])
      <3>1. IsFiniteSet(valid)
        BY <1>2, FS_Subset DEF IInv, Counted
      <3>2. IsFiniteSet(valid \cup {EntryOf(new)})
        BY <3>1, FS_AddElement
      <3> QED
        BY <1>1, <3>2 DEF IInv, Counted, TypeOK
    <2>3. \A e \in admitted : e.n \in Nat
      BY Typed DEF IInv
    <2>4. \A e \in admitted' : e.n <= Cardinality(admitted')
      BY <1>1, <1>3, <2>1, <2>3 DEF IInv, Counted
    <2>5. \A e, f \in admitted' : e.n = f.n => e = f
      BY <1>1, <1>3, <2>3 DEF IInv, Counted
    <2> QED
      BY <2>1, <2>2, <2>4, <2>5 DEF Counted
  <1>6. RecentAreKept'
    <2> SUFFICES ASSUME NEW s \in Shortest, NEW e \in admitted', e.at + Window[s] > now
                 PROVE  EntryOf(e) \in buckets'[e.key]
      BY <1>1 DEF RecentAreKept, Shortest
    <2>1. CASE e = new
      BY <1>1, <1>3, <2>1 DEF IInv, TypeOK
    <2>2. CASE e \in admitted
      <3>1. EntryOf(e) \in Unexpired(e.key, Window[r]) /\ EntryOf(e) \in buckets[e.key]
        BY <2>2, ShortestIsKept DEF IInv, RecentAreKept
      <3>2. e.key \in Keys
        BY <2>2, Typed DEF IInv
      <3> QED
        BY <1>1, <3>1, <3>2 DEF IInv, TypeOK, valid
    <2> QED
      BY <1>1, <2>1, <2>2
  <1> QED
    BY <1>4, <1>5, <1>6 DEF IInv

LEMMA InvStep ==
    ASSUME IInv, [Next]_vars
    PROVE  IInv'
  <1>1. CASE UNCHANGED vars
    BY <1>1 DEF vars, IInv, TypeOK, Counted, RecentAreKept, Shortest
  <1> QED
    BY <1>1, TickStep, RefuseStep, AdmitStep DEF Next

(***************************************************************************)
(* Every variable holds a value of its kind; a bucket holds nothing but    *)
(* calls of its address that were admitted.                                *)
(***************************************************************************)
THEOREM TypeCorrect == Spec => []TypeOK
  <1>1. IInv => TypeOK
    BY DEF IInv
  <1>2. IInv /\ [Next]_vars => IInv'
    BY InvStep
  <1> QED
    BY <1>1, <1>2, InitHolds, PTL DEF Spec
--------------------------------------------------------------------------------
\* The log of an address over the window of a route, which the bucket stands for.
Log(k, w) == {e \in admitted : e.key = k /\ e.at + w > now}

\* Every instant of the bucket is a call of the log.
LEMMA BucketWithinLog ==
    ASSUME IInv, NEW k \in Keys, NEW r \in Routes
    PROVE  /\ IsFiniteSet(Log(k, Window[r]))
           /\ Cardinality(Log(k, Window[r])) \in Nat
           /\ IsFiniteSet(Unexpired(k, Window[r]))
           /\ Cardinality(Unexpired(k, Window[r])) \in Nat
           /\ Cardinality(Unexpired(k, Window[r])) <= Cardinality(Log(k, Window[r]))
  <1> DEFINE valid == Unexpired(k, Window[r])
             log == Log(k, Window[r])
             f == [b \in valid |-> CHOOSE e \in log : EntryOf(e) = b]
  <1>1. log \in SUBSET admitted /\ valid \in SUBSET buckets[k]
    BY DEF Log, Unexpired
  <1>2. IsFiniteSet(log) /\ IsFiniteSet(valid)
    BY <1>1, FS_Subset DEF IInv, Counted
  <1>3. \A b \in valid : \E e \in log : EntryOf(e) = b
    <2> TAKE b \in valid
    <2>1. PICK e \in admitted : e.key = k /\ EntryOf(e) = b
      BY Typed DEF Unexpired, IInv
    <2>2. e.at = b.at /\ b.at + Window[r] > now
      BY <2>1 DEF EntryOf, Unexpired
    <2> QED
      BY <2>1, <2>2 DEF Log
  <1>4. \A b \in valid : f[b] \in log /\ EntryOf(f[b]) = b
    BY <1>3
  <1> HIDE DEF valid, log
  <1>5. f \in Injection(valid, log)
    <2>1. f \in [valid -> log]
      BY <1>4
    <2> HIDE DEF f
    <2>2. \A b, c \in DOMAIN f : f[b] = f[c] => b = c
      BY <1>4, <2>1
    <2> QED
      BY <2>1, <2>2 DEF Injection, IsInjective
  <1>6. Cardinality(valid) <= Cardinality(log)
    BY <1>2, <1>5, FS_Injection
  <1> QED
    BY <1>2, <1>6, FS_CardinalityType DEF valid, log

\* Every call of the log over the shortest window is in the bucket, however far
\* the route that prunes it looks back.
LEMMA LogWithinBucket ==
    ASSUME IInv, NEW k \in Keys, NEW s \in Shortest, NEW r \in Routes
    PROVE  Cardinality(Log(k, Window[s])) <= Cardinality(Unexpired(k, Window[r]))
  <1> DEFINE valid == Unexpired(k, Window[r])
             log == Log(k, Window[s])
             f == [e \in log |-> EntryOf(e)]
  <1>1. IsFiniteSet(valid)
    BY BucketWithinLog
  <1>2. \A e \in log : EntryOf(e) \in valid
    BY ShortestIsKept DEF Log
  <1>3. \A e, g \in log : EntryOf(e) = EntryOf(g) => e = g
    <2> SUFFICES ASSUME NEW e \in log, NEW g \in log, EntryOf(e) = EntryOf(g)
                 PROVE  e = g
      OBVIOUS
    <2>1. e.n = g.n
      BY DEF EntryOf
    <2> QED
      BY <2>1 DEF IInv, Counted, Log
  <1> HIDE DEF valid, log
  <1>4. f \in Injection(log, valid)
    BY <1>2, <1>3 DEF Injection, IsInjective
  <1> QED
    BY <1>1, <1>4, FS_Injection DEF valid, log

LEMMA Reachable == Spec => []IInv
  <1>1. IInv /\ [Next]_vars => IInv'
    BY InvStep
  <1> QED
    BY <1>1, InitHolds, PTL DEF Spec

(***************************************************************************)
(* No route admits a call beyond its limit within the shortest window: the *)
(* bucket, which every route prunes by its own window, never lacks a call  *)
(* of that window, so the limit is compared with at least what it counts.  *)
(***************************************************************************)
THEOREM EveryRouteBoundedHolds == Spec => []EveryRouteBounded
  <1>1. Init => EveryRouteBounded
    BY DEF Init, EveryRouteBounded
  <1>2. ASSUME IInv, EveryRouteBounded, [Next]_vars PROVE EveryRouteBounded'
    <2>1. CASE UNCHANGED admitted
      BY <1>2, <2>1 DEF EveryRouteBounded, CallsWithin, Shortest
    <2>2. ASSUME NEW k \in Keys, NEW r \in Routes, Admit(k, r)
          PROVE  EveryRouteBounded'
      <3> DEFINE new == Call(k, r)
      <3>1. /\ admitted' = admitted \cup {new} /\ now' = now
            /\ ~Full(Unexpired(k, Window[r]), r)
            /\ Cardinality(admitted) < MaxCalls
        BY <2>2 DEF Admit
      <3>2. /\ new.n \in Nat /\ new.key = k /\ new.route = r /\ new.at = now
            /\ new \notin admitted
            /\ \A e \in admitted : e.n < new.n /\ e.n \in Nat
        BY <1>2, <3>1, CallIsNew, Typed DEF IInv
      <3> HIDE DEF new
      <3> SUFFICES ASSUME NEW e \in admitted', NEW s \in Shortest
                   PROVE  Cardinality(CallsWithin(e, s)') <= Limit[e.route]
        BY DEF EveryRouteBounded, Shortest
      <3>3. CASE e \in admitted
        <4>1. CallsWithin(e, s)' = CallsWithin(e, s)
          BY <3>1, <3>2, <3>3 DEF CallsWithin, Shortest
        <4> QED
          BY <1>2, <3>3, <4>1 DEF EveryRouteBounded
      <3>4. CASE e = new
        <4> DEFINE log == Log(k, Window[s])
        <4>1. s \in Routes
          BY DEF Shortest
        <4>2. Window[s] \in Nat /\ Window[s] > 0 /\ now \in Nat
          BY <1>2, <4>1, Parameters, Typed DEF IInv
        <4>3. CallsWithin(e, s)' = log \cup {new}
          <5>1. \A f \in admitted : f.n <= new.n
            BY <3>2
          <5>2. CallsWithin(e, s)' =
                  {f \in admitted' : f.key = k /\ f.n <= new.n /\ f.at + Window[s] > now}
            BY <3>2, <3>4 DEF CallsWithin
          <5> QED
            BY <3>1, <3>2, <4>2, <5>1, <5>2 DEF Log
        <4>4. /\ Cardinality(log) <= Cardinality(Unexpired(k, Window[r]))
              /\ IsFiniteSet(log) /\ Cardinality(log) \in Nat
              /\ Cardinality(Unexpired(k, Window[r])) \in Nat
          BY <1>2, <4>1, LogWithinBucket, BucketWithinLog
        <4>5. Cardinality(log \cup {new}) <= Cardinality(log) + 1
              /\ Cardinality(log \cup {new}) \in Nat
          BY <4>4, OneMore
        <4>6. Cardinality(Unexpired(k, Window[r])) < Limit[r] /\ Limit[r] \in Nat
          BY <3>1, <4>4, Parameters DEF Full
        <4> HIDE DEF log
        <4> QED
          BY <3>2, <3>4, <4>3, <4>4, <4>5, <4>6
      <3> QED
        BY <3>1, <3>3, <3>4
    <2> QED
      BY <1>2, <2>1, <2>2 DEF Next, Tick, Refuse, vars
  <1> QED
    BY <1>1, <1>2, Reachable, PTL DEF Spec

(***************************************************************************)
(* On a route with the shortest window, what is admitted is what the limit *)
(* of the route lets through over its own window, which is the shortest.   *)
(* With a longer window it may not be (EveryWindowKept).                   *)
(***************************************************************************)
THEOREM ShortestWindowKeptHolds == Spec => []ShortestWindowKept
  <1>1. ASSUME EveryRouteBounded PROVE ShortestWindowKept
    <2> SUFFICES ASSUME NEW e \in admitted, e.route \in Shortest
                 PROVE  Cardinality(WindowOf(e)) <= Limit[e.route]
      BY DEF ShortestWindowKept
    <2> QED
      BY <1>1 DEF EveryRouteBounded, WindowOf
  <1> QED
    BY <1>1, EveryRouteBoundedHolds, PTL

(***************************************************************************)
(* Where all the routes have the same window each keeps its limit over it: *)
(* what the pruning of one route costs another is all that can break the   *)
(* window of a route.                                                      *)
(***************************************************************************)
THEOREM EveryWindowKeptAlike ==
    ASSUME \A q, r \in Routes : Window[q] = Window[r]
    PROVE  Spec => []EveryWindowKept
  <1>1. Shortest = Routes
    BY Parameters DEF Shortest
  <1>2. ASSUME IInv, ShortestWindowKept PROVE EveryWindowKept
    <2> SUFFICES ASSUME NEW e \in admitted
                 PROVE  Cardinality({f \in WindowOf(e) : f.route = e.route})
                           <= Limit[e.route]
      BY DEF EveryWindowKept
    <2> DEFINE own == {f \in WindowOf(e) : f.route = e.route}
    <2>1. e.route \in Routes
      BY <1>2, Typed DEF IInv
    <2>2. own \in SUBSET WindowOf(e) /\ IsFiniteSet(WindowOf(e))
      <3>1. WindowOf(e) \in SUBSET admitted
        BY DEF WindowOf, CallsWithin
      <3> QED
        BY <1>2, <3>1, FS_Subset DEF IInv, Counted
    <2>3. /\ Cardinality(own) <= Cardinality(WindowOf(e))
          /\ Cardinality(own) \in Nat /\ Cardinality(WindowOf(e)) \in Nat
      BY <2>2, FS_Subset, FS_CardinalityType
    <2>4. Cardinality(WindowOf(e)) <= Limit[e.route] /\ Limit[e.route] \in Nat
      BY <1>1, <1>2, <2>1, Parameters DEF ShortestWindowKept
    <2> HIDE DEF own
    <2>5. Cardinality(own) <= Limit[e.route]
      BY <2>3, <2>4
    <2> QED
      BY <2>5 DEF own
  <1> QED
    BY <1>2, Reachable, ShortestWindowKeptHolds, PTL

(***************************************************************************)
(* The buckets are bounded by the limits, although the key is never        *)
(* removed and every route appends to the same bucket.                     *)
(***************************************************************************)
THEOREM BucketBoundedHolds == Spec => []BucketBounded
  <1>1. Init => BucketBounded
    BY DEF Init, BucketBounded
  <1>2. ASSUME IInv, BucketBounded, [Next]_vars PROVE BucketBounded'
    <2>1. ASSUME NEW k \in Keys, NEW r \in Routes, Admit(k, r) \/ Refuse(k, r)
          PROVE  BucketBounded'
      <3> DEFINE valid == Unexpired(k, Window[r])
      <3>1. /\ valid \in SUBSET buckets[k]
            /\ IsFiniteSet(buckets[k]) /\ IsFiniteSet(valid)
            /\ Cardinality(valid) \in Nat /\ Cardinality(buckets[k]) \in Nat
            /\ Cardinality(valid) <= Cardinality(buckets[k])
        <4>1. valid \in SUBSET buckets[k] /\ IsFiniteSet(buckets[k])
          BY <1>2 DEF Unexpired, IInv, Counted
        <4> QED
          BY <4>1, FS_Subset, FS_CardinalityType
      <3>2. Limit[r] \in Nat
        BY Parameters
      <3>3. CASE Refuse(k, r)
        <4>1. buckets' = [buckets EXCEPT ![k] = valid]
          BY <3>3 DEF Refuse
        <4>2. \A q \in Routes : Limit[q] \in Nat
          BY Parameters
        <4>3. valid # {} => \E q \in Routes : Cardinality(valid) <= Limit[q]
          BY <1>2, <3>1, <4>2 DEF BucketBounded
        <4> QED
          BY <1>2, <4>1, <4>3 DEF BucketBounded, IInv, TypeOK
      <3>4. CASE Admit(k, r)
        <4> DEFINE b == EntryOf(Call(k, r))
        <4>1. buckets' = [buckets EXCEPT ![k] = valid \cup {b}] /\ ~Full(valid, r)
          BY <3>4 DEF Admit
        <4>2. Cardinality(valid) < Limit[r]
          BY <3>1, <3>2, <4>1 DEF Full
        <4>3. Cardinality(valid \cup {b}) <= Cardinality(valid) + 1
              /\ Cardinality(valid \cup {b}) \in Nat
          BY <3>1, OneMore
        <4> HIDE DEF b, valid
        <4>4. Cardinality(valid \cup {b}) <= Limit[r]
          BY <3>1, <3>2, <4>2, <4>3
        <4> QED
          BY <1>2, <4>1, <4>4 DEF BucketBounded, IInv, TypeOK
      <3> QED
        BY <2>1, <3>3, <3>4
    <2>2. CASE UNCHANGED buckets
      BY <1>2, <2>2 DEF BucketBounded
    <2> QED
      BY <1>2, <2>1, <2>2 DEF Next, Tick, vars
  <1>3. IInv /\ [Next]_vars => IInv'
    BY InvStep
  <1> QED
    BY <1>1, <1>2, <1>3, InitHolds, PTL DEF Spec

\* The abstract module counts as this one does.
LEMMA CountedAlike ==
    ASSUME NEW S
    PROVE  SW!Cardinality(S) = Cardinality(S)
  BY DEF SW!Cardinality, Cardinality

(***************************************************************************)
(* The limiter implements the sliding window over the whole log: it        *)
(* refuses nothing the log of the route's window would let pass, and lets  *)
(* nothing pass that the log of the shortest window would refuse.          *)
(***************************************************************************)
THEOREM WindowImplemented == Spec => ImplementsWindow
  <1>1. Init => SW!Init
    BY DEF Init, SW!Init, NoCall, SW!NoCall
  <1>2. ASSUME IInv, [Next]_vars PROVE [SW!Next]_(SW!vars)
    <2> USE <1>2
    <2>1. CASE Tick
      BY <2>1 DEF Tick, SW!Next, SW!Tick
    <2>2. CASE UNCHANGED vars
      BY <2>2 DEF vars, SW!vars
    <2>3. ASSUME NEW k \in Keys, NEW r \in Routes
          PROVE  /\ \A q \in Routes : SW!Recent(k, Window[q]) = Log(k, Window[q])
                 /\ SW!Shortest = Shortest
                 /\ SW!Call(k, r) = Call(k, r)
                 /\ SW!Verdict(k, r, "refused") = Verdict(k, r, "refused")
                 /\ SW!Verdict(k, r, "admitted") = Verdict(k, r, "admitted")
      <3>1. \A q \in Routes : SW!Recent(k, Window[q]) = Log(k, Window[q])
        BY DEF SW!Recent, Log
      <3>2. SW!Shortest = Shortest
        BY DEF SW!Shortest, Shortest
      <3>3. SW!Call(k, r) = Call(k, r)
        BY CountedAlike DEF SW!Call, Call
      <3>4. SW!Verdict(k, r, "refused") = Verdict(k, r, "refused")
            /\ SW!Verdict(k, r, "admitted") = Verdict(k, r, "admitted")
        BY DEF SW!Verdict, Verdict
      <3> QED
        BY <3>1, <3>2, <3>3, <3>4
    <2>4. ASSUME NEW k \in Keys, NEW r \in Routes, Refuse(k, r)
          PROVE  SW!Refuse(k, r)
      <3>1. Cardinality(Unexpired(k, Window[r])) >= Limit[r]
            /\ verdict' = Verdict(k, r, "refused") /\ UNCHANGED <<now, admitted>>
        BY <2>4 DEF Refuse, Full
      <3>2. Cardinality(Log(k, Window[r])) >= Limit[r]
        BY <3>1, BucketWithinLog, Parameters
      <3> QED
        BY <2>3, <3>1, <3>2, CountedAlike DEF SW!Refuse
    <2>5. ASSUME NEW k \in Keys, NEW r \in Routes, Admit(k, r)
          PROVE  SW!Admit(k, r)
      <3>1. /\ ~(Cardinality(Unexpired(k, Window[r])) >= Limit[r])
            /\ admitted' = admitted \cup {Call(k, r)}
            /\ verdict' = Verdict(k, r, "admitted")
            /\ UNCHANGED now
        BY <2>5 DEF Admit, Full
      <3>2. \A q \in Shortest : Cardinality(Log(k, Window[q])) < Limit[r]
        <4> TAKE q \in Shortest
        <4>1. q \in Routes
          BY DEF Shortest
        <4> QED
          BY <3>1, <4>1, BucketWithinLog, LogWithinBucket, Parameters
      <3>3. \A q \in Shortest : q \in Routes
        BY DEF Shortest
      <3> QED
        BY <2>3, <3>1, <3>2, <3>3, CountedAlike DEF SW!Admit
    <2> QED
      BY <2>1, <2>2, <2>4, <2>5 DEF Next, SW!Next
  <1>3. IInv /\ [Next]_vars => IInv'
    BY InvStep
  <1> QED
    BY <1>1, <1>2, <1>3, InitHolds, PTL DEF Spec, ImplementsWindow, SW!Spec
================================================================================
