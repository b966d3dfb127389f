------------------------------ MODULE PostDomain ------------------------------
(***************************************************************************)
(* The Post aggregate of internal/domain/post.go: the status machine the   *)
(* code calls SM-01 and the methods that move a post along it.  A post is  *)
(* the part of the aggregate the use cases act upon: its status, whether   *)
(* scheduledAt is set, and the in-memory version, which every transition   *)
(* increments before the repository sees the post.                         *)
(***************************************************************************)
EXTENDS Naturals

PostStatuses == {"draft", "pending_validation", "validated", "rejected",
                 "scheduled", "published", "failed", "cancelled"}

\* postStatusTransitions, as a set of <<from, to>> pairs.
SM01 == {<<"draft", "pending_validation">>,
         <<"pending_validation", "validated">>,
         <<"pending_validation", "rejected">>,
         <<"pending_validation", "draft">>,
         <<"validated", "scheduled">>,
         <<"validated", "published">>,
         <<"validated", "draft">>,
         <<"rejected", "draft">>,
         <<"scheduled", "published">>,
         <<"scheduled", "failed">>,
         <<"scheduled", "draft">>,
         <<"failed", "draft">>}

CanTransitionTo(from, to) == <<from, to>> \in SM01

PostRow == [status : PostStatuses, scheduledAt : {"nil", "set"}, version : Nat]

NewPost == [status |-> "draft", scheduledAt |-> "nil", version |-> 1]

\* What every transition method does: the status moves, the version grows.
MovedTo(post, to) == [status |-> to, scheduledAt |-> post.scheduledAt,
                      version |-> post.version + 1]

CanSubmit(post) == CanTransitionTo(post.status, "pending_validation")
SubmitForValidation(post) == MovedTo(post, "pending_validation")

CanValidate(post) == CanTransitionTo(post.status, "validated")
Validate(post) == MovedTo(post, "validated")

CanReject(post) == CanTransitionTo(post.status, "rejected")
Reject(post) == MovedTo(post, "rejected")

\* The P-2 guard on the date (at least five minutes ahead) depends only on the
\* command; the operations that use Schedule choose whether it holds.
CanSchedule(post) == CanTransitionTo(post.status, "scheduled")
Schedule(post) == [MovedTo(post, "scheduled") EXCEPT !.scheduledAt = "set"]

\* Cancel wants both the transition to draft and the scheduled status.
CanCancel(post) == /\ CanTransitionTo(post.status, "draft")
                   /\ post.status = "scheduled"
Cancel(post) == [MovedTo(post, "draft") EXCEPT !.scheduledAt = "nil"]
===============================================================================
