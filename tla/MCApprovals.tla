------------------------------ MODULE MCApprovals ------------------------------
(* Small instances of Approvals. *)
EXTENDS Approvals, TLC

Symmetry == Permutations(Requests) \cup Permutations(Requesters)
            \cup Permutations(Reviewers) \cup Permutations(Posts)
================================================================================
