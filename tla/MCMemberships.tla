----------------------------- MODULE MCMemberships -----------------------------
(* Small instances of Memberships; the founder is a user of its own. *)
EXTENDS Memberships, TLC

Symmetry == Permutations(Users \ {Founder}) \cup Permutations(Invitations)
            \cup Permutations(Inviters) \cup Permutations(Accepters)
================================================================================
