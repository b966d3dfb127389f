------------------------------ MODULE Memberships ------------------------------
(***************************************************************************)
(* Joining a workspace: InviteMember and AcceptInvitation of               *)
(* usecases/workspace/members.go, running concurrently over the tables     *)
(* workspace_members and workspace_invitations of one workspace.           *)
(*                                                                         *)
(* A user stands for the account and for its email address.  No use case   *)
(* removes a member, changes a role or cancels an invitation, and nothing  *)
(* calls DeleteExpired.                                                    *)
(***************************************************************************)
EXTENDS Naturals, FiniteSets

CONSTANTS
    Users,
    Founder,        \* the user NewWorkspace makes the owner
    Invitations,    \* identifiers of invitations, each drawn once
    Inviters,       \* goroutines serving InviteMember
    Accepters,      \* goroutines serving AcceptInvitation
    None,
    InvitedRoles,   \* roles the commands name
    MemberLimit,    \* members the plan of the workspace allows
    Absent,         \* what a repository answers for an absent row: see SeenAsMember
    Faults          \* may repository calls fail and processes crash?

\* MemberRole.Level.
Level == [owner |-> 5, admin |-> 4, manager |-> 3, editor |-> 2, viewer |-> 1]
Roles == {"owner", "admin", "manager", "editor", "viewer"}
IsAtLeast(role, minimum) == Level[role] >= Level[minimum]

ASSUME MembershipsAssumption ==
    /\ Founder \in Users
    /\ None \notin Users \cup Invitations
    /\ InvitedRoles \subseteq Roles
    /\ MemberLimit \in Nat
    /\ Absent \in {"ErrNotFound", "nil"}
    /\ Faults \in BOOLEAN

VARIABLES
    accounts,       \* users with an account
    members,        \* table workspace_members: the role of a user, or "none"
    invitations,    \* table workspace_invitations; status "none" is an absent row
    late,           \* invitations whose seven days are over
    invite,         \* running InviteMember requests
    accept          \* running AcceptInvitation requests

vars == <<accounts, members, invitations, late, invite, accept>>

\* A row names its invitee, and the member who invites.
InvitationRow ==
    {r \in [email : Users \cup {None}, role : Roles, inviter : Users \cup {None},
            status : {"none", "pending", "accepted", "expired"}] :
        r.status # "none" => r.email \in Users /\ r.inviter \in Users}
NoInvitation == [email |-> None, role |-> "viewer", inviter |-> None, status |-> "none"]

IdleInvite == [pc |-> "idle", actor |-> Founder, email |-> Founder, role |-> "viewer"]
IdleAccept == [pc |-> "idle", user |-> Founder, id |-> None]

InviteState == [pc : {"idle", "limit", "list", "lookup", "member", "create"},
                actor : Users, email : Users, role : Roles]
AcceptState ==
    {r \in [pc : {"idle", "already", "expire", "member", "limit", "add", "store"},
            user : Users, id : Invitations \cup {None}] :
        r.pc \notin {"idle", "already"} => r.id \in Invitations}

\* Every variable holds a value of its kind.
TypeOK ==
    /\ accounts \subseteq Users
    /\ members \in [Users -> Roles \cup {"none"}]
    /\ invitations \in [Invitations -> InvitationRow]
    /\ late \subseteq Invitations
    /\ invite \in [Inviters -> InviteState]
    /\ accept \in [Accepters -> AcceptState]

\* NewWorkspace and its Create: one member, the founder, as owner.
Init ==
    /\ accounts \in {a \in SUBSET Users : Founder \in a}
    /\ members = [u \in Users |-> IF u = Founder THEN "owner" ELSE "none"]
    /\ invitations = [id \in Invitations |-> NoInvitation]
    /\ late = {}
    /\ invite = [i \in Inviters |-> IdleInvite]
    /\ accept = [a \in Accepters |-> IdleAccept]

(***************************************************************************)
(* The use cases take a GetMember without error for a member.  The port    *)
(* asks an adapter to answer an absent row with ErrNotFound; the Postgres  *)
(* adapter answers it with nil and no error.                               *)
(***************************************************************************)
SeenAsMember(u) == members[u] # "none" \/ Absent = "nil"

\* The plan checker is a port; main.go passes one that always accepts.
CheckMemberLimit == Cardinality({u \in Users : members[u] # "none"}) < MemberLimit

\* Accounts are created outside of the use cases.
Register(u) ==
    /\ u \notin accounts
    /\ accounts' = accounts \cup {u}
    /\ UNCHANGED <<members, invitations, late, invite, accept>>

\* Time passes: the invitation is seven days old.
BecomesLate(id) ==
    /\ invitations[id].status # "none"
    /\ id \notin late
    /\ late' = late \cup {id}
    /\ UNCHANGED <<accounts, members, invitations, invite, accept>>
--------------------------------------------------------------------------------
(* InviteMember.Execute *)

\* Steps 2 and 3: the actor is a manager at least, and invites no higher role.
InviteLoad(i, actor, email, role) ==
    /\ invite[i].pc = "idle"
    /\ members[actor] # "none"
    /\ IsAtLeast(members[actor], "manager")
    /\ IsAtLeast(members[actor], role)
    /\ invite' = [invite EXCEPT ![i] =
          [pc |-> "limit", actor |-> actor, email |-> email, role |-> role]]
    /\ UNCHANGED <<accounts, members, invitations, late, accept>>

\* What a check of InviteMember does: the request goes on to pc, or ends.
InviteGoesOn(i, ok, pc) ==
    invite' = [invite EXCEPT ![i] = IF ok THEN [@ EXCEPT !.pc = pc] ELSE IdleInvite]

InviteCheckLimit(i) ==
    /\ invite[i].pc = "limit"
    /\ InviteGoesOn(i, CheckMemberLimit, "list")
    /\ UNCHANGED <<accounts, members, invitations, late, accept>>

\* A pending invitation for the address ends the request, late or not.
InviteList(i) ==
    /\ invite[i].pc = "list"
    /\ InviteGoesOn(i, ~ \E id \in Invitations :
                            /\ invitations[id].email = invite[i].email
                            /\ invitations[id].status = "pending", "lookup")
    /\ UNCHANGED <<accounts, members, invitations, late, accept>>

\* Only the holder of an account is looked for among the members; an error of
\* GetByEmail counts as no account.
InviteLookup(i) ==
    /\ invite[i].pc = "lookup"
    /\ \/ invite[i].email \in accounts /\ InviteGoesOn(i, TRUE, "member")
       \/ (invite[i].email \notin accounts \/ Faults) /\ InviteGoesOn(i, TRUE, "create")
    /\ UNCHANGED <<accounts, members, invitations, late, accept>>

InviteCheckMember(i) ==
    /\ invite[i].pc = "member"
    /\ \/ InviteGoesOn(i, ~SeenAsMember(invite[i].email), "create")
       \/ Faults /\ InviteGoesOn(i, TRUE, "create")
    /\ UNCHANGED <<accounts, members, invitations, late, accept>>

\* Mutant: the table has no chk_invitations_role.
MutantRoleStorable(role) == TRUE

\* chk_invitations_role of the table.
RoleStorable(role) == role # "owner"

\* Steps 4 and 5.
InviteCreate(i, id) ==
    /\ invite[i].pc = "create"
    /\ invitations[id].status = "none"
    /\ \/ /\ RoleStorable(invite[i].role)
          /\ invitations' = [invitations EXCEPT ![id] =
                [email |-> invite[i].email, role |-> invite[i].role,
                 inviter |-> invite[i].actor, status |-> "pending"]]
       \/ (~RoleStorable(invite[i].role) \/ Faults) /\ UNCHANGED invitations
    /\ invite' = [invite EXCEPT ![i] = IdleInvite]
    /\ UNCHANGED <<accounts, members, late, accept>>

InviteDies(i) ==
    /\ Faults
    /\ invite[i].pc # "idle"
    /\ invite' = [invite EXCEPT ![i] = IdleInvite]
    /\ UNCHANGED <<accounts, members, invitations, late, accept>>
--------------------------------------------------------------------------------
(* AcceptInvitation.Execute *)

AcceptGoesOn(a, pc) == accept' = [accept EXCEPT ![a].pc = pc]
AcceptEnds(a) == accept' = [accept EXCEPT ![a] = IdleAccept]

\* Steps 2 and 3: a late invitation expires whoever presents it; one in time
\* must carry the address of the actor.
AcceptLoad(a, u, id) ==
    /\ accept[a].pc \in {"idle", "already"}
    /\ u \in accounts
    /\ invitations[id].status = "pending"
    /\ id \in late \/ invitations[id].email = u
    /\ accept' = [accept EXCEPT ![a] =
          [pc |-> IF id \in late THEN "expire" ELSE "member", user |-> u, id |-> id]]
    /\ UNCHANGED <<accounts, members, invitations, late, invite>>

\* Mutant: the UPDATE has no WHERE clause.
MutantStoreStatus(a, status) ==
    invitations' = [id \in Invitations |-> [invitations[id] EXCEPT !.status = status]]

\* invitationRepo.Update: WHERE id = $1, over whatever the status has become.
StoreStatus(a, status) ==
    invitations' = [invitations EXCEPT ![accept[a].id].status = status]

AcceptExpire(a) ==
    /\ accept[a].pc = "expire"
    /\ StoreStatus(a, "expired") \/ (Faults /\ UNCHANGED invitations)
    /\ AcceptEnds(a)
    /\ UNCHANGED <<accounts, members, late, invite>>

\* An error of GetMember counts as "not a member".
AcceptCheckMember(a) ==
    /\ accept[a].pc = "member"
    /\ \/ SeenAsMember(accept[a].user) /\ AcceptGoesOn(a, "already")
       \/ (~SeenAsMember(accept[a].user) \/ Faults) /\ AcceptGoesOn(a, "limit")
    /\ UNCHANGED <<accounts, members, invitations, late, invite>>

AcceptCheckLimit(a) ==
    /\ accept[a].pc = "limit"
    /\ IF CheckMemberLimit THEN AcceptGoesOn(a, "add") ELSE AcceptEnds(a)
    /\ UNCHANGED <<accounts, members, invitations, late, invite>>

\* Mutant: the table has no uq_workspace_members, the last row counts.
MutantAcceptAdd(a) ==
    LET u == accept[a].user IN
    /\ accept[a].pc = "add"
    /\ \/ /\ members' = [members EXCEPT ![u] = invitations[accept[a].id].role]
          /\ AcceptGoesOn(a, "store")
       \/ Faults /\ AcceptEnds(a) /\ UNCHANGED members
    /\ UNCHANGED <<accounts, invitations, late, invite>>

\* Mutant: the member is added with the role of the inviter.
MutantAddedRole(a) == members[invitations[accept[a].id].inviter]

\* The role the invitation was read with; nothing changes it.
AddedRole(a) == invitations[accept[a].id].role

\* Steps 4 and 5: INSERT, against the unique index uq_workspace_members.
AcceptAdd(a) ==
    LET u == accept[a].user IN
    /\ accept[a].pc = "add"
    /\ \/ /\ members[u] = "none"
          /\ members' = [members EXCEPT ![u] = AddedRole(a)]
          /\ AcceptGoesOn(a, "store")
       \/ (members[u] # "none" \/ Faults) /\ AcceptEnds(a) /\ UNCHANGED members
    /\ UNCHANGED <<accounts, invitations, late, invite>>

\* The transition to accepted comes after the member, in a write of its own.
AcceptStore(a) ==
    /\ accept[a].pc = "store"
    /\ StoreStatus(a, "accepted") \/ (Faults /\ UNCHANGED invitations)
    /\ AcceptEnds(a)
    /\ UNCHANGED <<accounts, members, late, invite>>

AcceptDies(a) ==
    /\ Faults
    /\ accept[a].pc \notin {"idle", "already"}
    /\ AcceptEnds(a)
    /\ UNCHANGED <<accounts, members, invitations, late, invite>>
--------------------------------------------------------------------------------
InviteNext(i) ==
    \/ \E actor \in Users, email \in Users, role \in InvitedRoles :
          InviteLoad(i, actor, email, role)
    \/ InviteCheckLimit(i)
    \/ InviteList(i)
    \/ InviteLookup(i)
    \/ InviteCheckMember(i)
    \/ \E id \in Invitations : InviteCreate(i, id)
    \/ InviteDies(i)

AcceptNext(a) ==
    \/ \E u \in Users, id \in Invitations : AcceptLoad(a, u, id)
    \/ AcceptExpire(a)
    \/ AcceptCheckMember(a)
    \/ AcceptCheckLimit(a)
    \/ AcceptAdd(a)
    \/ AcceptStore(a)
    \/ AcceptDies(a)

Next ==
    \/ \E u \in Users : Register(u)
    \/ \E id \in Invitations : BecomesLate(id)
    \/ \E i \in Inviters : InviteNext(i)
    \/ \E a \in Accepters : AcceptNext(a)

Spec == Init /\ [][Next]_vars
--------------------------------------------------------------------------------
\* W-1: the workspace keeps exactly one owner.  InviteMember lets an owner
\* invite another; only a constraint of the invitations stops it.
OneOwner == \A u \in Users : members[u] = "owner" <=> u = Founder

\* WS-06, step by step: whoever joins takes a role that some member may hand out
\* at that moment, although the inviter was checked when the invitation was made.
Del == INSTANCE Delegation
ImplementsDelegation == Del!Spec

\* An accepted invitation has made its invitee a member, with the role it
\* names, even when several invitations of one address are accepted at once or
\* a process dies between the two writes of AcceptInvitation.
AcceptedGaveItsRole ==
    \A id \in Invitations :
        invitations[id].status = "accepted" =>
            members[invitations[id].email] = invitations[id].role

\* WS-06: along every chain of invitations, a member holds a role no higher
\* than that of the member who invited them, who is a manager at least.
RoleWithinInviters ==
    \A u \in Users \ {Founder} : members[u] # "none" =>
        \E id \in Invitations :
            /\ invitations[id].email = u
            /\ invitations[id].role = members[u]
            /\ members[invitations[id].inviter] # "none"
            /\ IsAtLeast(members[invitations[id].inviter], members[u])
            /\ IsAtLeast(members[invitations[id].inviter], "manager")
--------------------------------------------------------------------------------
\* members.go, the check that follows M-5 in InviteMember: an address has at
\* most one pending invitation.
OnePendingInvitation ==
    \A r, s \in Invitations :
        /\ invitations[r].status = "pending"
        /\ invitations[s].status = "pending"
        /\ invitations[r].email = invitations[s].email
        => r = s

\* members.go, SM-05: accepted and expired are terminal.
TerminalIsFinal ==
    [][\A id \in Invitations :
          invitations[id].status \in {"accepted", "expired"} =>
             invitations'[id].status = invitations[id].status]_vars

\* members.go, ALREADY_MEMBER: who is told to be a member already is one.
AlreadyMemberMeansMember ==
    \A a \in Accepters : accept[a].pc = "already" => members[accept[a].user] # "none"

\* members.go, M-5: the workspace has no more members than its plan allows.
MemberLimitKept == Cardinality({u \in Users : members[u] # "none"}) <= MemberLimit

\* What the code keeps of M-5: each acceptance that runs may overrun the limit by
\* one, but for the one that fills it.
MemberOverrun ==
    LET count == Cardinality({u \in Users : members[u] # "none"}) IN
    count <= 1 \/ count < MemberLimit + Cardinality(Accepters)

\* No two requests invite one address from the look for a pending invitation on.
InvitedApart ==
    \A i, j \in Inviters :
        /\ invite[i].pc \in {"lookup", "member", "create"}
        /\ invite[j].pc \in {"lookup", "member", "create"}
        /\ invite[i].email = invite[j].email
        => i = j

\* No two requests answer one invitation at the same time.
AcceptedApart ==
    \A a, b \in Accepters :
        /\ accept[a].pc \notin {"idle", "already"}
        /\ accept[b].pc \notin {"idle", "already"}
        /\ accept[a].id = accept[b].id
        => a = b
================================================================================
