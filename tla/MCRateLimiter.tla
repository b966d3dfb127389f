----------------------------- MODULE MCRateLimiter -----------------------------
(* The routes of handlers/auth.go with their limits and windows scaled down:   *)
(* two windows, and different limits over the shorter one.                     *)
EXTENDS RateLimiter, TLC

CONSTANTS login, twofa, reset

MCLimit == login :> 3 @@ twofa :> 2 @@ reset :> 2
MCWindow == login :> 2 @@ twofa :> 2 @@ reset :> 4
================================================================================
