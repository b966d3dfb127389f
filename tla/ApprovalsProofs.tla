---------------------------- MODULE ApprovalsProofs ----------------------------
(***************************************************************************)
(* Proofs about Approvals.                                                 *)
(***************************************************************************)
EXTENDS Approvals, TLAPS

LEMMA NewRowType ==
    ASSUME NEW p \in Posts
    PROVE  NewRow(p) \in ApprovalRow
  BY ApprovalsAssumption DEF NewRow, ApprovalRow, Verdicts

LEMMA IdleTypes == /\ IdleAsk \in AskState
                   /\ IdleReview \in ReviewState /\ IdleReview.pc = "idle"
                   /\ RefusedReview \in ReviewState /\ RefusedReview.pc = "refused"
                   /\ NoRow \in ApprovalRow
  BY ApprovalsAssumption DEF IdleAsk, AskState, IdleReview, RefusedReview, ReviewState,
     NoRow, ApprovalRow, Verdicts

\* A reviewer whose row is stored goes on to the answer.
LEMMA AnswersNext ==
    ASSUME TypeOK, NEW v \in Reviewers, review[v].pc = "save"
    PROVE  /\ [review[v] EXCEPT !.pc = "answer"] \in ReviewState
           /\ [review[v] EXCEPT !.pc = "answer"].pc = "answer"
           /\ [review[v] EXCEPT !.pc = "answer"].id = review[v].id
           /\ [review[v] EXCEPT !.pc = "answer"].verdict = review[v].verdict
  BY DEF TypeOK, ReviewState

\* What a reviewer about to write holds, and the row it writes.
LEMMA DecidedRow ==
    ASSUME TypeOK, NEW v \in Reviewers, review[v].pc = "save"
    PROVE  /\ review[v].id \in Requests
           /\ review[v].verdict \in Verdicts
           /\ review[v].read \in ApprovalRow
           /\ review[v].read.status = "pending"
           /\ Decided(v) \in ApprovalRow
           /\ Decided(v).status = review[v].verdict
           /\ Decided(v).post = review[v].read.post
           /\ Decided(v).reason = IF review[v].verdict = "rejected"
                                  THEN "set" ELSE review[v].read.reason
  <1>1. /\ review[v].id \in Requests
        /\ review[v].verdict \in Verdicts
        /\ review[v].read \in ApprovalRow
        /\ review[v].read.status = "pending"
    BY DEF TypeOK, ReviewState
  <1>3. review[v].read.post \in Posts
    BY <1>1 DEF ApprovalRow
  <1>4. v # None
    BY ApprovalsAssumption
  <1>5. Decided(v) \in ApprovalRow
    BY <1>1, <1>3, <1>4, ApprovalsAssumption DEF Decided, ApprovalRow, Verdicts
  <1>6. /\ Decided(v).status = review[v].verdict
        /\ Decided(v).post = review[v].read.post
    BY DEF Decided
  <1>7. Decided(v).reason = IF review[v].verdict = "rejected"
                            THEN "set" ELSE review[v].read.reason
    BY DEF Decided
  <1> QED
    BY <1>1, <1>5, <1>6, <1>7

(***************************************************************************)
(* Every variable of Approvals holds a value of its kind: a row stored for *)
(* a request belongs to a post and a decided one names its approver.       *)
(***************************************************************************)
THEOREM TypeCorrect == Spec => []TypeOK
  <1>1. Init => TypeOK
    BY IdleTypes DEF Init, TypeOK
  <1>2. ASSUME TypeOK, [Next]_vars PROVE TypeOK'
    <2>1. ASSUME NEW p \in Posts, PostMoves(p) PROVE TypeOK'
      BY <1>2, <2>1 DEF PostMoves, history, TypeOK
    <2>2. ASSUME NEW q \in Requesters, RequestNext(q) PROVE TypeOK'
      <3>1. ASSUME NEW p \in Posts, RequestLoad(q, p) PROVE TypeOK'
        <4>1. [pc |-> "list", post |-> p] \in AskState
          BY DEF AskState
        <4> QED
          BY <1>2, <3>1, <4>1 DEF RequestLoad, history, TypeOK
      <3>2. CASE RequestList(q)
        <4>1. asking[q] \in AskState
          BY <1>2 DEF TypeOK
        <4>2. asking[q].pc = "list" => [asking[q] EXCEPT !.pc = "create"] \in AskState
          BY <4>1 DEF AskState
        <4> QED
          BY <1>2, <3>2, <4>2, IdleTypes DEF RequestList, history, TypeOK
      <3>3. ASSUME NEW id \in Requests, RequestCreate(q, id) PROVE TypeOK'
        <4>1. asking[q].post \in Posts
          BY <1>2, <3>3 DEF RequestCreate, TypeOK, AskState
        <4> QED
          BY <1>2, <3>3, <4>1, NewRowType, IdleTypes DEF RequestCreate, history, TypeOK
      <3>4. CASE RequestDies(q)
        BY <1>2, <3>4, IdleTypes DEF RequestDies, history, TypeOK
      <3> QED
        BY <2>2, <3>1, <3>2, <3>3, <3>4 DEF RequestNext
    <2>3. ASSUME NEW v \in Reviewers, DecideNext(v) PROVE TypeOK'
      <3>1. ASSUME NEW id \in Requests, NEW verdict \in Verdicts,
                   DecideLoad(v, id, verdict)
            PROVE  TypeOK'
        <4>1. approvals[id] \in ApprovalRow /\ approvals[id].status = "pending"
          BY <1>2, <3>1 DEF DecideLoad, TypeOK
        <4>2. [pc |-> "save", id |-> id, verdict |-> verdict, read |-> approvals[id]]
                 \in ReviewState
          BY <4>1 DEF ReviewState
        <4> QED
          BY <1>2, <3>1, <4>2 DEF DecideLoad, TypeOK
      <3>2. ASSUME NEW id \in Requests, NEW verdict \in Verdicts,
                   DecideAgain(v, id, verdict)
            PROVE  TypeOK'
        BY <1>2, <3>2, IdleTypes DEF DecideAgain, TypeOK
      <3>3. CASE DecideSave(v)
        <4>1. review[v].pc = "save"
          BY <3>3 DEF DecideSave
        <4> QED
          BY <1>2, <3>3, <4>1, AnswersNext, DecidedRow, IdleTypes
             DEF DecideSave, history, TypeOK
      <3>4. CASE DecideDies(v)
        BY <1>2, <3>4, IdleTypes DEF DecideDies, history, TypeOK
      <3>5. CASE DecideAnswer(v)
        <4>1. <<review[v].id, review[v].verdict>> \in Requests \X Verdicts
          BY <1>2, <3>5 DEF DecideAnswer, TypeOK, ReviewState
        <4> QED
          BY <1>2, <3>5, <4>1, IdleTypes DEF DecideAnswer, TypeOK
      <3> QED
        BY <2>3, <3>1, <3>2, <3>3, <3>4, <3>5 DEF DecideNext
    <2>4. CASE UNCHANGED vars
      BY <1>2, <2>4 DEF vars, TypeOK
    <2> QED
      BY <1>2, <2>1, <2>2, <2>3, <2>4 DEF Next
  <1> QED
    BY <1>1, <1>2, PTL DEF Spec

(***************************************************************************)
(* Every step leaves the table alone, inserts a pending row where Unique   *)
(* lets it, or overwrites a row with a decision.  The properties of the    *)
(* table follow from this alone.                                           *)
(***************************************************************************)
Inserts(id, p) == /\ approvals[id].status = "none"
                  /\ Unique(id, p, "pending")
                  /\ approvals' = [approvals EXCEPT ![id] = NewRow(p)]

Decides(v) == /\ review[v].pc = "save"
              /\ approvals' = [approvals EXCEPT ![review[v].id] = Decided(v)]
              /\ \/ review' = [review EXCEPT ![v].pc = "answer"]
                 \/ review' = [review EXCEPT ![v] = RefusedReview]
              /\ UNCHANGED history

LEMMA TableSteps ==
    ASSUME TypeOK, [Next]_vars
    PROVE  \/ UNCHANGED approvals
           \/ \E id \in Requests, p \in Posts : Inserts(id, p)
           \/ \E v \in Reviewers : Decides(v)
  <1> DEFINE Goal == \/ UNCHANGED approvals
                     \/ \E id \in Requests, p \in Posts : Inserts(id, p)
                     \/ \E v \in Reviewers : Decides(v)
  <1>1. ASSUME NEW q \in Requesters, RequestNext(q) PROVE Goal
    <2>1. ASSUME NEW id \in Requests, RequestCreate(q, id) PROVE Goal
      <3>1. asking[q].post \in Posts
        BY <2>1 DEF RequestCreate, TypeOK, AskState
      <3> QED
        BY <2>1, <3>1 DEF RequestCreate, Inserts
    <2> QED
      BY <1>1, <2>1 DEF RequestNext, RequestLoad, RequestList, RequestDies
  <1>2. ASSUME NEW v \in Reviewers, DecideNext(v) PROVE Goal
    BY <1>2 DEF DecideNext, DecideLoad, DecideAgain, DecideSave, DecideAnswer,
       DecideDies, Decides
  <1> QED
    BY <1>1, <1>2 DEF Next, PostMoves, vars

(***************************************************************************)
(* D-03 holds for any number of posts, requests and goroutines: no post    *)
(* ever has two pending requests, the constraint of the table refusing the *)
(* second of two that passed the check of step 7 together.                 *)
(***************************************************************************)
THEOREM OnePendingRequestHolds == Spec => []OnePendingRequest
  <1>1. Init => OnePendingRequest
    BY DEF Init, OnePendingRequest, NoRow
  <1>2. ASSUME TypeOK, OnePendingRequest, [Next]_vars
        PROVE  OnePendingRequest'
    <2>1. CASE UNCHANGED approvals
      BY <1>2, <2>1 DEF OnePendingRequest
    <2>2. ASSUME NEW id \in Requests, NEW p \in Posts, Inserts(id, p)
          PROVE  OnePendingRequest'
      <3>1. approvals'[id].post = p
        BY <1>2, <2>2 DEF Inserts, NewRow, TypeOK
      <3>2. \A r \in Requests \ {id} :
              /\ approvals'[r] = approvals[r]
              /\ ~(approvals[r].post = p /\ approvals[r].status = "pending")
        BY <1>2, <2>2 DEF Inserts, Unique, TypeOK
      <3> QED
        BY <1>2, <3>1, <3>2 DEF OnePendingRequest
    <2>3. ASSUME NEW v \in Reviewers, Decides(v)
          PROVE  OnePendingRequest'
      <3>1. /\ approvals'[review[v].id].status # "pending"
            /\ \A r \in Requests \ {review[v].id} : approvals'[r] = approvals[r]
        BY <1>2, <2>3, DecidedRow DEF Decides, TypeOK, Verdicts
      <3> QED
        BY <1>2, <3>1 DEF OnePendingRequest
    <2> QED
      BY <1>2, <2>1, <2>2, <2>3, TableSteps
  <1> QED
    BY <1>1, <1>2, TypeCorrect, PTL DEF Spec

\* After its write a reviewer no longer holds the request.
LEMMA SaveEnds ==
    ASSUME TypeOK, NEW v \in Reviewers, DecideSave(v)
    PROVE  review'[v].pc \in {"answer", "refused"}
  <1> DEFINE r == [review[v] EXCEPT !.pc = "answer"]
  <1>1. r.pc = "answer" /\ RefusedReview.pc = "refused"
    BY AnswersNext, IdleTypes DEF DecideSave
  <1>2. \/ review' = [review EXCEPT ![v] = r]
        \/ review' = [review EXCEPT ![v] = RefusedReview]
    BY DEF DecideSave
  <1> HIDE DEF r
  <1> QED
    BY <1>1, <1>2 DEF TypeOK

(***************************************************************************)
(* A rejection reason is stored exactly with a rejection.  The row a       *)
(* reviewer holds was read pending, hence without a reason: overwriting a  *)
(* rejection with it clears the reason, overwriting an approval sets it.   *)
(***************************************************************************)
ReadsHaveNoReason ==
    \A v \in Reviewers : review[v].pc = "save" => review[v].read.reason = "nil"

\* approve.go, reject: a stored row has a reason exactly when it is rejected.
THEOREM ReasonMeansRejectedHolds == Spec => []ReasonMeansRejected
  <1> DEFINE IInv == ReasonMeansRejected /\ ReadsHaveNoReason
  <1>1. Init => IInv
    BY DEF Init, ReasonMeansRejected, ReadsHaveNoReason, NoRow, IdleReview
  <1>2. ASSUME TypeOK, IInv, [Next]_vars
        PROVE  IInv'
    <2>1. ReasonMeansRejected'
      <3>1. CASE UNCHANGED approvals
        BY <1>2, <3>1 DEF ReasonMeansRejected
      <3>2. ASSUME NEW id \in Requests, NEW p \in Posts, Inserts(id, p)
            PROVE  ReasonMeansRejected'
        BY <1>2, <3>2 DEF Inserts, NewRow, ReasonMeansRejected, TypeOK
      <3>3. ASSUME NEW v \in Reviewers, Decides(v)
            PROVE  ReasonMeansRejected'
        <4>1. Decided(v).reason = "set" <=> Decided(v).status = "rejected"
          BY <1>2, <3>3, DecidedRow DEF Decides, ReadsHaveNoReason, Verdicts
        <4> QED
          BY <1>2, <3>3, <4>1 DEF Decides, ReasonMeansRejected, TypeOK
      <3> QED
        BY <1>2, <3>1, <3>2, <3>3, TableSteps
    <2>2. ReadsHaveNoReason'
      <3>1. ASSUME NEW v \in Reviewers, review'[v].pc = "save"
            PROVE  \/ review'[v] = review[v]
                   \/ \E id \in Requests : /\ approvals[id].status = "pending"
                                           /\ review'[v].read = approvals[id]
        <4>1. ASSUME NEW x \in Reviewers, DecideNext(x), review'[v] # review[v]
              PROVE  x = v
          BY <1>2, <4>1 DEF DecideNext, DecideLoad, DecideAgain, DecideSave,
             DecideAnswer, DecideDies, TypeOK
        <4>2. ASSUME DecideNext(v), review'[v] # review[v]
              PROVE  \E id \in Requests : /\ approvals[id].status = "pending"
                                          /\ review'[v].read = approvals[id]
          <5>1. ~DecideDies(v) /\ ~DecideAnswer(v)
                /\ \A id \in Requests, verdict \in Verdicts :
                      ~DecideAgain(v, id, verdict)
            BY <1>2, <3>1, IdleTypes DEF DecideDies, DecideAnswer, DecideAgain, TypeOK
          <5>2. ~DecideSave(v)
            BY <1>2, <3>1, SaveEnds
          <5> QED
            BY <1>2, <4>2, <5>1, <5>2 DEF DecideNext, DecideLoad, TypeOK
        <4>3. UNCHANGED review \/ \E x \in Reviewers : DecideNext(x)
          BY <1>2 DEF Next, vars, PostMoves, RequestNext, RequestLoad, RequestList,
             RequestCreate, RequestDies
        <4> QED
          BY <4>1, <4>2, <4>3
      <3> QED
        BY <1>2, <3>1 DEF ReasonMeansRejected, ReadsHaveNoReason, TypeOK, ApprovalRow
    <2> QED
      BY <2>1, <2>2
  <1> QED
    BY <1>1, <1>2, TypeCorrect, PTL DEF Spec

(***************************************************************************)
(* An answer is the stored verdict as long as the request was never in two *)
(* hands.  What one reviewer alone has read as pending is still pending    *)
(* when it writes; what it has written stays while it answers; and a       *)
(* request that is decided, its answer lost or not, lets nobody read it as *)
(* pending again.                                                          *)
(***************************************************************************)
Holding(v) == review[v].pc = "save"

HeldIsPending ==
    \A v \in Reviewers :
        Holding(v) /\ review[v].id \notin contested =>
            /\ approvals[review[v].id].status = "pending"
            /\ \A w \in Reviewers : Holding(w) /\ review[w].id = review[v].id => w = v

AnsweringIsStored ==
    \A v \in Reviewers :
        review[v].pc = "answer" /\ review[v].id \notin contested =>
            approvals[review[v].id].status = review[v].verdict

AnswerInv == HeldIsPending /\ AnsweringIsStored /\ UncontestedAnswerIsStored

\* Only the steps of a reviewer move it on or put a request in two hands.
LEMMA OneReviews ==
    ASSUME [Next]_vars
    PROVE  \/ UNCHANGED <<review, history>>
           \/ \E v \in Reviewers : DecideNext(v)
  BY DEF Next, PostMoves, vars, RequestNext, RequestLoad, RequestList, RequestCreate,
     RequestDies, history

LEMMA OthersKeep ==
    ASSUME TypeOK, NEW v \in Reviewers, DecideNext(v)
    PROVE  \A w \in Reviewers \ {v} : review'[w] = review[w]
  BY DEF DecideNext, DecideLoad, DecideAgain, DecideSave, DecideAnswer, DecideDies, TypeOK

\* A table that keeps every decided and every pending row of the uncontested keeps
\* what the reviewers that stay where they are rely on.
LEMMA AnswerInvInserts ==
    ASSUME TypeOK, AnswerInv, NEW id \in Requests, NEW p \in Posts, Inserts(id, p),
           UNCHANGED <<review, history>>
    PROVE  AnswerInv'
  <1>1. /\ approvals[id].status = "none"
        /\ \A r \in Requests \ {id} : approvals'[r] = approvals[r]
    BY DEF Inserts, TypeOK
  <1>2. \A v \in Reviewers : review[v].pc \in {"save", "answer"} =>
                                review[v].id \in Requests /\ review[v].verdict \in Verdicts
    BY DEF TypeOK, ReviewState
  <1>3. "none" \notin Verdicts /\ "none" # "pending"
    BY DEF Verdicts
  <1>4. UNCHANGED <<answered, contested>>
    BY DEF history
  <1> QED
    BY <1>1, <1>2, <1>3, <1>4
    DEF AnswerInv, HeldIsPending, Holding, AnsweringIsStored, UncontestedAnswerIsStored

\* The step in which a request may come into two hands.
LEMMA AnswerInvLoad ==
    ASSUME TypeOK, AnswerInv, NEW v \in Reviewers, NEW id \in Requests,
           NEW verdict \in Verdicts, DecideLoad(v, id, verdict)
    PROVE  AnswerInv'
  <1>1. /\ review'[v].pc = "save" /\ review'[v].id = id
        /\ \A w \in Reviewers \ {v} : review'[w] = review[w]
        /\ approvals[id].status = "pending"
        /\ ~Holding(v)
        /\ UNCHANGED <<approvals, answered>>
    BY DEF DecideLoad, TypeOK, Holding
  <1>2. contested \subseteq contested'
    BY DEF DecideLoad
  <1>3. id \notin contested' =>
           \A w \in Reviewers \ {v} : ~(review[w].pc = "save" /\ review[w].id = id)
    BY DEF DecideLoad
  <1>4. HeldIsPending'
    BY <1>1, <1>2, <1>3 DEF AnswerInv, HeldIsPending, Holding
  <1>5. AnsweringIsStored'
    BY <1>1, <1>2 DEF AnswerInv, AnsweringIsStored
  <1>6. UncontestedAnswerIsStored'
    BY <1>1, <1>2 DEF AnswerInv, UncontestedAnswerIsStored
  <1> QED
    BY <1>4, <1>5, <1>6 DEF AnswerInv

\* The write, with its result or without.
LEMMA AnswerInvSave ==
    ASSUME TypeOK, AnswerInv, NEW v \in Reviewers, DecideSave(v)
    PROVE  AnswerInv'
  <1> DEFINE id == review[v].id
  <1>1. /\ Holding(v) /\ id \in Requests /\ review[v].verdict \in Verdicts
        /\ Decided(v).status = review[v].verdict
    BY DecidedRow DEF DecideSave, Holding
  <1>2. /\ \A w \in Reviewers \ {v} : review'[w] = review[w]
        /\ UNCHANGED <<answered, contested>>
    BY OthersKeep DEF DecideNext, DecideSave, history
  <1>3. ~Holding(v)'
    BY SaveEnds DEF Holding
  <1>4. \/ UNCHANGED approvals
        \/ /\ approvals'[id].status = review[v].verdict
           /\ \A r \in Requests \ {id} : approvals'[r] = approvals[r]
    BY <1>1 DEF DecideSave, TypeOK
  <1>5. review'[v].pc = "answer" =>
           /\ review'[v].id = id /\ review'[v].verdict = review[v].verdict
           /\ approvals'[id].status = review[v].verdict
    <2> DEFINE r == [review[v] EXCEPT !.pc = "answer"]
    <2>1. r.id = id /\ r.verdict = review[v].verdict /\ RefusedReview.pc = "refused"
      BY <1>1, AnswersNext, IdleTypes DEF Holding
    <2>2. \/ /\ review' = [review EXCEPT ![v] = r]
             /\ approvals' = [approvals EXCEPT ![id] = Decided(v)]
          \/ review' = [review EXCEPT ![v] = RefusedReview]
      BY DEF DecideSave
    <2> HIDE DEF r
    <2> QED
      BY <1>1, <2>1, <2>2 DEF TypeOK
  <1>6. id \notin contested =>
           /\ approvals[id].status = "pending"
           /\ \A w \in Reviewers \ {v} : ~(Holding(w) /\ review[w].id = id)
    BY <1>1 DEF AnswerInv, HeldIsPending
  <1>7. \A w \in Reviewers : review[w].pc \in {"save", "answer"} => review[w].id \in Requests
    BY DEF TypeOK, ReviewState
  <1>8. "pending" \notin Verdicts
    BY DEF Verdicts
  <1> HIDE DEF id
  <1>9. HeldIsPending'
    BY <1>2, <1>3, <1>4, <1>6, <1>7 DEF AnswerInv, HeldIsPending, Holding
  <1>10. AnsweringIsStored'
    <2> SUFFICES ASSUME NEW w \in Reviewers, review'[w].pc = "answer",
                        review'[w].id \notin contested
                 PROVE  approvals'[review'[w].id].status = review'[w].verdict
      BY <1>2 DEF AnsweringIsStored
    <2>1. CASE w = v
      BY <1>5, <2>1
    <2>2. CASE w # v
      <3>1. /\ review'[w] = review[w] /\ review[w].id \in Requests
            /\ review[w].verdict \in Verdicts
            /\ approvals[review[w].id].status = review[w].verdict
        BY <1>2, <2>2 DEF AnswerInv, AnsweringIsStored, TypeOK, ReviewState
      <3>2. review[w].id # id
        BY <1>6, <1>8, <3>1
      <3> QED
        BY <1>4, <3>1, <3>2
    <2> QED
      BY <2>1, <2>2
  <1>11. UncontestedAnswerIsStored'
    BY <1>2, <1>4, <1>6, <1>8 DEF AnswerInv, UncontestedAnswerIsStored
  <1> QED
    BY <1>9, <1>10, <1>11 DEF AnswerInv

\* The steps of a reviewer that leave the table alone and end the request.
LEMMA AnswerInvEnds ==
    ASSUME TypeOK, AnswerInv, NEW v \in Reviewers,
           review' = [review EXCEPT ![v] = IdleReview],
           UNCHANGED <<approvals, contested>>,
           \/ UNCHANGED answered
           \/ DecideAnswer(v)
           \/ \E id \in Requests, verdict \in Verdicts : DecideAgain(v, id, verdict)
    PROVE  AnswerInv'
  <1>1. review'[v].pc = "idle" /\ \A w \in Reviewers \ {v} : review'[w] = review[w]
    BY IdleTypes DEF TypeOK
  <1>2. HeldIsPending' /\ AnsweringIsStored'
    BY <1>1 DEF AnswerInv, HeldIsPending, Holding, AnsweringIsStored
  <1>3. CASE UNCHANGED answered
    BY <1>2, <1>3 DEF AnswerInv, UncontestedAnswerIsStored
  <1>4. CASE DecideAnswer(v)
    <2>1. /\ review[v].pc = "answer"
          /\ answered' = answered \cup {<<review[v].id, review[v].verdict>>}
      BY <1>4 DEF DecideAnswer
    <2>2. review[v].id \notin contested =>
             approvals[review[v].id].status = review[v].verdict
      BY <2>1 DEF AnswerInv, AnsweringIsStored
    <2> QED
      BY <1>2, <2>1, <2>2 DEF AnswerInv, UncontestedAnswerIsStored
  <1>5. ASSUME NEW id \in Requests, NEW verdict \in Verdicts, DecideAgain(v, id, verdict)
        PROVE  AnswerInv'
    <2>1. approvals[id].status = verdict /\ answered' = answered \cup {<<id, verdict>>}
      BY <1>5 DEF DecideAgain
    <2> QED
      BY <1>2, <2>1 DEF AnswerInv, UncontestedAnswerIsStored
  <1> QED
    BY <1>3, <1>4, <1>5

LEMMA AnswerInvHolds == Spec => []AnswerInv
  <1>1. Init => AnswerInv
    BY IdleTypes DEF Init, AnswerInv, HeldIsPending, Holding, AnsweringIsStored,
       UncontestedAnswerIsStored
  <1>2. ASSUME TypeOK, AnswerInv, [Next]_vars PROVE AnswerInv'
    <2>1. ASSUME NEW v \in Reviewers, DecideNext(v) PROVE AnswerInv'
      <3>1. ASSUME NEW id \in Requests, NEW verdict \in Verdicts, DecideLoad(v, id, verdict)
            PROVE  AnswerInv'
        BY <1>2, <3>1, AnswerInvLoad
      <3>2. ASSUME NEW id \in Requests, NEW verdict \in Verdicts, DecideAgain(v, id, verdict)
            PROVE  AnswerInv'
        <4>1. /\ review' = [review EXCEPT ![v] = IdleReview]
              /\ UNCHANGED <<approvals, contested>>
          BY <3>2 DEF DecideAgain
        <4> QED
          BY <1>2, <3>2, <4>1, AnswerInvEnds
      <3>3. CASE DecideSave(v)
        BY <1>2, <3>3, AnswerInvSave
      <3>4. CASE DecideAnswer(v)
        <4>1. /\ review' = [review EXCEPT ![v] = IdleReview]
              /\ UNCHANGED <<approvals, contested>>
          BY <3>4 DEF DecideAnswer
        <4> QED
          BY <1>2, <3>4, <4>1, AnswerInvEnds
      <3>5. CASE DecideDies(v)
        <4>1. /\ review' = [review EXCEPT ![v] = IdleReview]
              /\ UNCHANGED <<approvals, contested, answered>>
          BY <3>5 DEF DecideDies, history
        <4> QED
          BY <1>2, <4>1, AnswerInvEnds
      <3> QED
        BY <2>1, <3>1, <3>2, <3>3, <3>4, <3>5 DEF DecideNext
    <2>2. ASSUME UNCHANGED <<review, history>> PROVE AnswerInv'
      <3>1. CASE UNCHANGED approvals
        BY <1>2, <2>2, <3>1 DEF AnswerInv, HeldIsPending, Holding, AnsweringIsStored,
           UncontestedAnswerIsStored, history
      <3>2. ASSUME NEW id \in Requests, NEW p \in Posts, Inserts(id, p) PROVE AnswerInv'
        BY <1>2, <2>2, <3>2, AnswerInvInserts
      <3>3. ASSUME NEW v \in Reviewers, Decides(v) PROVE FALSE
        <4>1. review'[v] = review[v] /\ review[v].pc = "save"
          BY <2>2, <3>3 DEF Decides
        <4>2. review'[v].pc # "save"
          <5> DEFINE r == [review[v] EXCEPT !.pc = "answer"]
          <5>1. r.pc = "answer" /\ RefusedReview.pc = "refused"
            BY <1>2, <4>1, AnswersNext, IdleTypes
          <5>2. \/ review' = [review EXCEPT ![v] = r]
                \/ review' = [review EXCEPT ![v] = RefusedReview]
            BY <3>3 DEF Decides
          <5> HIDE DEF r
          <5> QED
            BY <1>2, <5>1, <5>2 DEF TypeOK
        <4> QED
          BY <4>1, <4>2
      <3> QED
        BY <1>2, <3>1, <3>2, <3>3, TableSteps
    <2> QED
      BY <1>2, <2>1, <2>2, OneReviews
  <1> QED
    BY <1>1, <1>2, TypeCorrect, PTL DEF Spec

\* approve.go, step 8: an answered verdict is the stored one, failures and deaths
\* included, unless two reviewers have held the request at the same time.
THEOREM UncontestedAnswerIsStoredHolds == Spec => []UncontestedAnswerIsStored
  <1>1. AnswerInv => UncontestedAnswerIsStored
    BY DEF AnswerInv
  <1> QED
    BY <1>1, AnswerInvHolds, PTL

(***************************************************************************)
(* One verdict per request in every behaviour in which no two reviewers    *)
(* hold one request at the same time: no request is then contested, and    *)
(* two answers would both be the stored one.                               *)
(***************************************************************************)
THEOREM OneVerdictUnlessRaced == Spec /\ []DecidedApart => []OneVerdict
  <1>1. Init => contested = {}
    BY DEF Init
  <1>2. ASSUME TypeOK, contested = {}, DecidedApart', [Next]_vars PROVE (contested = {})'
    <2>1. ASSUME NEW v \in Reviewers, NEW id \in Requests, NEW verdict \in Verdicts,
                 DecideLoad(v, id, verdict), contested' # {}
          PROVE  FALSE
      <3>1. PICK w \in Reviewers \ {v} : review[w].pc = "save" /\ review[w].id = id
        BY <1>2, <2>1 DEF DecideLoad
      <3>2. /\ review'[w] = review[w]
            /\ review'[v].pc = "save" /\ review'[v].id = id
        BY <1>2, <2>1, <3>1 DEF DecideLoad, TypeOK
      <3> QED
        BY <1>2, <3>1, <3>2 DEF DecidedApart
    <2>2. ASSUME NEW v \in Reviewers, DecideNext(v), contested' # {} PROVE FALSE
      BY <1>2, <2>1, <2>2 DEF DecideNext, DecideAgain, DecideSave, DecideAnswer,
         DecideDies, history
    <2> QED
      BY <1>2, <2>2, OneReviews DEF history
  <1>3. contested = {} /\ UncontestedAnswerIsStored => OneVerdict
    <2> SUFFICES ASSUME contested = {}, UncontestedAnswerIsStored, NEW id \in Requests,
                        <<id, "approved">> \in answered, <<id, "rejected">> \in answered
                 PROVE  FALSE
      BY DEF OneVerdict
    <2> QED
      BY DEF UncontestedAnswerIsStored, Verdicts
  <1> QED
    BY <1>1, <1>2, <1>3, TypeCorrect, UncontestedAnswerIsStoredHolds, PTL DEF Spec
================================================================================
