------------------------------- MODULE Approvals -------------------------------
(***************************************************************************)
(* The approval of posts: RequestApproval, ApprovePost and RejectPost of   *)
(* usecases/post/approve.go, running concurrently over approval_requests.  *)
(* Every request is of type "internal"; nothing writes "cancelled".        *)
(***************************************************************************)
EXTENDS FiniteSets

CONSTANTS
    Posts,        \* posts of the brand
    Requests,     \* identifiers of approval requests, each drawn once
    Requesters,   \* goroutines serving RequestApproval
    Reviewers,    \* goroutines serving ApprovePost or RejectPost
    None,
    Faults        \* may repository calls fail and processes crash?

ASSUME ApprovalsAssumption == None \notin Posts \cup Requests \cup Reviewers
                              /\ Faults \in BOOLEAN

VARIABLES
    approvals,    \* table approval_requests; status "none" is an absent row
    validated,    \* posts stored as validated
    asking,       \* running RequestApproval requests
    review,       \* running ApprovePost and RejectPost requests
    answered,     \* history: <<request, verdict>> returned to a reviewer as done
    contested     \* history: requests two reviewers have held at the same time

history == <<answered, contested>>
vars == <<approvals, validated, asking, review, answered, contested>>

Verdicts == {"approved", "rejected"}
\* A row belongs to a post, and names its approver once it is decided.
ApprovalRow ==
    {r \in [post : Posts \cup {None}, status : {"none", "pending"} \cup Verdicts,
            approver : Reviewers \cup {None}, reason : {"nil", "set"}] :
        /\ r.status = "none" <=> r.post = None
        /\ r.status \in Verdicts <=> r.approver # None}
NoRow == [post |-> None, status |-> "none", approver |-> None, reason |-> "nil"]
NewRow(p) == [post |-> p, status |-> "pending", approver |-> None, reason |-> "nil"]

IdleAsk == [pc |-> "idle", post |-> None]
IdleReview == [pc |-> "idle", id |-> None, verdict |-> "approved", read |-> NoRow]
RefusedReview == [IdleReview EXCEPT !.pc = "refused"]

AskState == {a \in [pc : {"idle", "list", "create"}, post : Posts \cup {None}] :
                a.pc # "idle" => a.post \in Posts}
ReviewState ==
    {r \in [pc : {"idle", "save", "answer", "refused"}, id : Requests \cup {None},
            verdict : Verdicts, read : ApprovalRow] :
        r.pc \in {"save", "answer"} => r.id \in Requests /\ r.read.status = "pending"}

\* Every variable holds a value of its kind.
TypeOK ==
    /\ approvals \in [Requests -> ApprovalRow]
    /\ validated \subseteq Posts
    /\ asking \in [Requesters -> AskState]
    /\ review \in [Reviewers -> ReviewState]
    /\ answered \subseteq Requests \X Verdicts
    /\ contested \subseteq Requests

Init ==
    /\ approvals = [id \in Requests |-> NoRow]
    /\ validated \in SUBSET Posts
    /\ asking = [q \in Requesters |-> IdleAsk]
    /\ review = [v \in Reviewers |-> IdleReview]
    /\ answered = {}
    /\ contested = {}

\* Mutant: the table has no uq_approval_active.
MutantUnique(id, p, status) == TRUE

\* UNIQUE (post_id, type, status).  It is deferred, but to the end of an
\* autocommit statement.
Unique(id, p, status) ==
    ~ \E other \in Requests \ {id} :
        approvals[other].post = p /\ approvals[other].status = status
--------------------------------------------------------------------------------
\* The rest of the system validates, schedules and cancels posts.
PostMoves(p) ==
    /\ validated' = IF p \in validated THEN validated \ {p} ELSE validated \cup {p}
    /\ UNCHANGED <<approvals, asking, review, history>>

\* RequestApproval, steps 2 to 6: the post must be validated.
RequestLoad(q, p) ==
    /\ asking[q].pc = "idle"
    /\ p \in validated
    /\ asking' = [asking EXCEPT ![q] = [pc |-> "list", post |-> p]]
    /\ UNCHANGED <<approvals, validated, review, history>>

\* Step 7: a pending request ends this one; an error of ListByPost does not.
RequestList(q) ==
    LET pending == \E id \in Requests : /\ approvals[id].post = asking[q].post
                                        /\ approvals[id].status = "pending"
    IN
    /\ asking[q].pc = "list"
    /\ \/ /\ pending
          /\ asking' = [asking EXCEPT ![q] = IdleAsk]
       \/ /\ ~pending \/ Faults
          /\ asking' = [asking EXCEPT ![q].pc = "create"]
    /\ UNCHANGED <<approvals, validated, review, history>>

\* Steps 8 and 9: insert the row, if the table accepts it.
RequestCreate(q, id) ==
    /\ asking[q].pc = "create"
    /\ approvals[id].status = "none"
    /\ \/ /\ Unique(id, asking[q].post, "pending")
          /\ approvals' = [approvals EXCEPT ![id] = NewRow(asking[q].post)]
       \/ (~Unique(id, asking[q].post, "pending") \/ Faults) /\ UNCHANGED approvals
    /\ asking' = [asking EXCEPT ![q] = IdleAsk]
    /\ UNCHANGED <<validated, review, history>>

RequestDies(q) ==
    /\ Faults
    /\ asking[q].pc # "idle"
    /\ asking' = [asking EXCEPT ![q] = IdleAsk]
    /\ UNCHANGED <<approvals, validated, review, history>>
--------------------------------------------------------------------------------
\* ApprovePost and RejectPost, steps 2 to 6, for an Admin or Owner.
DecideLoad(v, id, verdict) ==
    LET held == \E w \in Reviewers \ {v} : review[w].pc = "save" /\ review[w].id = id
    IN
    /\ review[v].pc \in {"idle", "refused"}
    /\ approvals[id].status = "pending"
    /\ review' = [review EXCEPT ![v] =
          [pc |-> "save", id |-> id, verdict |-> verdict, read |-> approvals[id]]]
    /\ contested' = IF held THEN contested \cup {id} ELSE contested
    /\ UNCHANGED <<approvals, validated, asking, answered>>

\* Step 3: a request that already has this verdict is answered without a write.
DecideAgain(v, id, verdict) ==
    /\ review[v].pc \in {"idle", "refused"}
    /\ approvals[id].status = verdict
    /\ answered' = answered \cup {<<id, verdict>>}
    /\ review' = [review EXCEPT ![v] = IdleReview]
    /\ UNCHANGED <<approvals, validated, asking, contested>>

\* Mutant: rejection_reason is missing from the SET of the UPDATE.
MutantDecided(v) ==
    [post |-> review[v].read.post, status |-> review[v].verdict, approver |-> v,
     reason |-> IF review[v].verdict = "rejected"
                THEN "set" ELSE approvals[review[v].id].reason]

\* Mutant: the approver is not recorded.
MutantAnonymous(v) ==
    [post |-> review[v].read.post, status |-> review[v].verdict, approver |-> None,
     reason |-> IF review[v].verdict = "rejected" THEN "set" ELSE review[v].read.reason]

\* Step 7: the row as the reviewer writes it, over the row it has read.
Decided(v) ==
    [post |-> review[v].read.post, status |-> review[v].verdict, approver |-> v,
     reason |-> IF review[v].verdict = "rejected" THEN "set" ELSE review[v].read.reason]

\* Mutant: the result of the UPDATE is not looked at.
MutantDecideSave(v) ==
    LET id == review[v].id
        ok == Unique(id, review[v].read.post, review[v].verdict)
    IN
    /\ review[v].pc = "save"
    /\ \/ ok /\ approvals' = [approvals EXCEPT ![id] = Decided(v)]
       \/ (~ok \/ Faults) /\ UNCHANGED approvals
    /\ review' = [review EXCEPT ![v].pc = "answer"]
    /\ UNCHANGED <<validated, asking, history>>

\* Step 8: UPDATE ... WHERE id = $1, whatever the stored status has become.  The
\* result of an UPDATE that is stored may be lost: the request then ends in error.
DecideSave(v) ==
    LET id == review[v].id
        ok == Unique(id, review[v].read.post, review[v].verdict)
    IN
    /\ review[v].pc = "save"
    /\ \/ /\ ok
          /\ approvals' = [approvals EXCEPT ![id] = Decided(v)]
          /\ \/ review' = [review EXCEPT ![v].pc = "answer"]
             \/ Faults /\ review' = [review EXCEPT ![v] = RefusedReview]
       \/ /\ ~ok \/ Faults
          /\ review' = [review EXCEPT ![v] = RefusedReview]
          /\ UNCHANGED approvals
    /\ UNCHANGED <<validated, asking, history>>

\* Step 9: the verdict is answered as stored, which it may no longer be.
DecideAnswer(v) ==
    /\ review[v].pc = "answer"
    /\ answered' = answered \cup {<<review[v].id, review[v].verdict>>}
    /\ review' = [review EXCEPT ![v] = IdleReview]
    /\ UNCHANGED <<approvals, validated, asking, contested>>

DecideDies(v) ==
    /\ Faults
    /\ review[v].pc \in {"save", "answer"}
    /\ review' = [review EXCEPT ![v] = IdleReview]
    /\ UNCHANGED <<approvals, validated, asking, history>>
--------------------------------------------------------------------------------
RequestNext(q) ==
    \/ \E p \in Posts : RequestLoad(q, p)
    \/ RequestList(q)
    \/ \E id \in Requests : RequestCreate(q, id)
    \/ RequestDies(q)

DecideNext(v) ==
    \/ \E id \in Requests, verdict \in Verdicts :
          DecideLoad(v, id, verdict) \/ DecideAgain(v, id, verdict)
    \/ DecideSave(v)
    \/ DecideAnswer(v)
    \/ DecideDies(v)

Next ==
    \/ \E p \in Posts : PostMoves(p)
    \/ \E q \in Requesters : RequestNext(q)
    \/ \E v \in Reviewers : DecideNext(v)

Spec == Init /\ [][Next]_vars
--------------------------------------------------------------------------------
\* D-03: however requests race, a post has at most one pending request.  The
\* check of step 7 does not ensure it, the constraint of the table does.
OnePendingRequest ==
    \A r, s \in Requests :
        /\ approvals[r].status = "pending"
        /\ approvals[s].status = "pending"
        /\ approvals[r].post = approvals[s].post
        => r = s

\* A row has a rejection reason exactly when it is rejected, even when an
\* approval and a rejection of the same request overwrite each other.
ReasonMeansRejected ==
    \A id \in Requests :
        approvals[id].reason = "set" <=> approvals[id].status = "rejected"

\* A verdict returned to a reviewer is the stored one, whatever calls fail and
\* processes die between the write and the answer, unless the request has been in
\* the hands of two reviewers at the same time.
UncontestedAnswerIsStored ==
    \A id \in Requests \ contested, verdict \in Verdicts :
        <<id, verdict>> \in answered => approvals[id].status = verdict
--------------------------------------------------------------------------------
\* approve.go, step 4: only a pending request can be approved or rejected, so
\* none is both.
OneVerdict ==
    \A id \in Requests :
        ~(<<id, "approved">> \in answered /\ <<id, "rejected">> \in answered)

\* 0016_create_approval_requests, D-03: the constraint is there for pending
\* requests, so a decision, which makes none, is never refused.
DecisionIsStored == \A v \in Reviewers : review[v].pc # "refused"

\* approve.go, step 3: only a validated post enters approval.
OnlyValidatedPostsAsked ==
    [][\A id \in Requests :
          approvals[id].status = "none" /\ approvals'[id].status = "pending" =>
             approvals'[id].post \in validated]_vars

\* No two reviewers hold one request at the same time.
DecidedApart ==
    \A v, w \in Reviewers :
        review[v].pc = "save" /\ review[w].pc = "save" /\ review[v].id = review[w].id
        => v = w
================================================================================
