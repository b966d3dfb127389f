---------------------------- MODULE MCAuthSessions ----------------------------
(* Small instances of AuthSessions behind the middleware of SessionGate. *)
EXTENDS SessionGate, TLC

Symmetry == Permutations(Sessions) \cup Permutations(Logins)
            \cup Permutations(Validators) \cup Permutations(Revokers)
            \cup Permutations(Requests)
===============================================================================
