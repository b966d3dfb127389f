---------------------------- MODULE MCPermissions ----------------------------
(* A small instance of Permissions: o owns the workspace of the brand, u1 the *)
(* other one.                                                                 *)
EXTENDS Permissions, TLC

CONSTANTS o, u1, w1, w2, b1

MCOwnerOf == w1 :> o @@ w2 :> u1
MCWorkspaceOf == b1 :> w1
===============================================================================
