------------------------------- MODULE Delegation -------------------------------
(***************************************************************************)
(* What joining a workspace promises: it begins with its founder, nobody   *)
(* leaves or changes role, and whoever joins does so under a role below    *)
(* owner that some member could hand out at that very moment (WS-06 of     *)
(* usecases/workspace/members.go; W-1, one owner, of workspace.go).        *)
(* Memberships implements it, although the inviter is checked long before  *)
(* the row is inserted.                                                    *)
(***************************************************************************)
EXTENDS Naturals

CONSTANTS
    Users,
    Founder

\* MemberRole.Level.
Level == [owner |-> 5, admin |-> 4, manager |-> 3, editor |-> 2, viewer |-> 1]
Roles == {"owner", "admin", "manager", "editor", "viewer"}
IsAtLeast(role, minimum) == Level[role] >= Level[minimum]

VARIABLE members    \* the role of a user, or "none"

Init == members = [u \in Users |-> IF u = Founder THEN "owner" ELSE "none"]

MayHandOut(held, role) ==
    /\ held # "none"
    /\ IsAtLeast(held, "manager")
    /\ IsAtLeast(held, role)

Join(u, role) ==
    /\ members[u] = "none"
    /\ role # "owner"
    /\ \E m \in Users : MayHandOut(members[m], role)
    /\ members' = [members EXCEPT ![u] = role]

Next == \E u \in Users, role \in Roles : Join(u, role)

Spec == Init /\ [][Next]_members
================================================================================
