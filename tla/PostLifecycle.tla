----------------------------- MODULE PostLifecycle -----------------------------
(***************************************************************************)
(* What the post table promises: the stored status of a post moves only    *)
(* along the arrows of SM-01, one post at a time.  PostPublishing is shown *)
(* to implement it when the version column is compared on every write.     *)
(***************************************************************************)
EXTENDS PostDomain

CONSTANT Posts

VARIABLE status

Init == status \in [Posts -> {"draft", "validated", "scheduled"}]

Move(p, to) == /\ CanTransitionTo(status[p], to)
               /\ status' = [status EXCEPT ![p] = to]

Next == \E p \in Posts, to \in PostStatuses : Move(p, to)

Spec == Init /\ [][Next]_status
===============================================================================
