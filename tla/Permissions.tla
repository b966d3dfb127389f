------------------------------- MODULE Permissions -------------------------------
(***************************************************************************)
(* The two levels of roles.  A request that changes a workspace is decided *)
(* twice: PermissionMiddleware asks PermissionChecker about the workspace  *)
(* and the brand the request names, then the use case reads the member and *)
(* his assignment to the brand it works on, and decides again.             *)
(*                                                                         *)
(* The two may be about different workspaces.  Where the path of the route *)
(* has no workspace the middleware takes that of the query, whatever the   *)
(* brand, and a use case about a brand works in the workspace of the brand.*)
(*                                                                         *)
(* A member carries an id of his own and the id of his user.  AssignMember *)
(* and RevokeBrandAccess write the table brand_assignments meanwhile; a    *)
(* command of theirs that names another workspace than that of the brand   *)
(* is refused, and is not among the requests.                              *)
(*                                                                         *)
(* Absent rows are errors here, as the interfaces of the repositories say. *)
(* The routes whose use cases are not written yet are left out.            *)
(***************************************************************************)
EXTENDS Naturals

CONSTANTS
    Users,
    Workspaces,
    OwnerOf,        \* the user who owns each workspace
    Brands,         \* brands, none archived
    WorkspaceOf,    \* the workspace of each brand
    Requests,       \* goroutines serving requests
    GrantedRoles,   \* brand roles the commands name
    None

MemberRoles == {"owner", "admin", "manager", "editor", "viewer"}
BrandRoles == {"owner", "manager", "editor", "viewer"}

ASSUME PermissionsAssumption ==
    /\ Workspaces # {}
    /\ OwnerOf \in [Workspaces -> Users]
    /\ WorkspaceOf \in [Brands -> Workspaces]
    /\ None \notin Users \cup Brands
    /\ GrantedRoles \subseteq BrandRoles /\ GrantedRoles # {}

VARIABLES
    workspace,   \* status of each workspace
    members,     \* table workspace_members
    assigned,    \* table brand_assignments; "none" is an absent row
    request      \* running requests

vars == <<workspace, members, assigned, request>>

\* A user has one id, and one more as a member of each workspace.
UserId(u) == <<"user", u>>
MemberId(w, u) == <<"member", w, u>>
Ids == {UserId(u) : u \in Users} \cup {MemberId(w, u) : w \in Workspaces, u \in Users}

\* The permission a route asks for.  An author cancels with the same permission
\* as another member, and the use case tells them apart.
WorkspaceActions == {"workspace.update_settings", "workspace.delete", "member.invite", "brand.create"}
BrandActions == {"brand.update", "brand.assignment.create", "brand.assignment.remove",
                 "channel.connect", "channel.disconnect", "media.upload",
                 "post.request_approval", "post.approve_internal", "post.reject_internal",
                 "post.schedule", "post.cancel_schedule", "post.cancel_schedule (author)"}
Actions == WorkspaceActions \cup BrandActions
Grants == {"brand.assignment.create", "brand.assignment.remove"}

\* The brand is in the path of the route; elsewhere the query may name one.
InPath == Grants \cup {"brand.update", "channel.connect"}

AnyRole == CHOOSE role \in GrantedRoles : TRUE
AnyWorkspace == CHOOSE w \in Workspaces : TRUE

\* A user who is not a member has no role of his own.
Member == {m \in [role : MemberRoles, status : {"active", "suspended", "absent"}] :
              m.status = "absent" => m.role = "viewer"}
IdleRequest == [pc |-> "idle", action |-> "brand.update", actor |-> OwnerOf[AnyWorkspace],
                asked |-> AnyWorkspace, named |-> None, brand |-> None,
                target |-> OwnerOf[AnyWorkspace], role |-> AnyRole]

WorkspaceStatuses == {"active", "suspended", "pending_deletion"}

\* Every variable holds a value of its kind; a running request works on a brand.
TypeOK ==
    /\ workspace \in [Workspaces -> WorkspaceStatuses]
    /\ members \in [Workspaces -> [Users -> Member]]
    /\ assigned \in [Brands -> [Ids -> BrandRoles \cup {"none"}]]
    /\ request \in [Requests ->
          [pc : {"idle", "admitted", "accepted"}, action : Actions, actor : Users,
           asked : Workspaces, named : Brands \cup {None}, brand : Brands \cup {None},
           target : Users, role : BrandRoles]]
    /\ \A q \in Requests : request[q].pc # "idle" => request[q].brand \in Brands

\* A workspace has one owner, and members of any role; nobody is assigned yet.
Init ==
    /\ workspace \in [Workspaces -> WorkspaceStatuses]
    /\ members \in [Workspaces -> [Users -> Member]]
    /\ \A w \in Workspaces, u \in Users :
          IF u = OwnerOf[w] THEN members[w][u] = [role |-> "owner", status |-> "active"]
          ELSE members[w][u].role # "owner"
    /\ assigned = [b \in Brands |-> [i \in Ids |-> "none"]]
    /\ request = [q \in Requests |-> IdleRequest]
--------------------------------------------------------------------------------
(* MemberRole, of internal/domain/workspace.go *)

Level == [owner |-> 5, admin |-> 4, manager |-> 3, editor |-> 2, viewer |-> 1]

\* Mutant: the minimum is taken for the only role that fits.
MutantIsAtLeast(role, minimum) == role = minimum

IsAtLeast(role, minimum) == Level[role] >= Level[minimum]

BypassesBrandAssignment(role) == role = "owner"
--------------------------------------------------------------------------------
(* PermissionChecker.CheckPermission, with the resource buildResource gives it *)

\* Mutant: the status of the member is left to the use cases.
MutantCheckPermission(status, member, action, named, held) ==
    /\ status # "suspended"
    /\ member.status # "absent"
    /\ \/ member.role \in {"owner", "admin"}
       \/ action \in WorkspaceActions \/ named = None
       \/ held \notin {"none", "viewer"}

\* Steps 2 to 7, with the status of the workspace and the member of it.  No route
\* asks for workspace.billing.read or ownership.transfer, the two actions with a
\* rule of their own.
CheckPermission(status, member, action, named, held) ==
    /\ status # "suspended"
    /\ member.status = "active"
    /\ \/ member.role \in {"owner", "admin"}
       \/ action \in WorkspaceActions \/ named = None
       \/ held \notin {"none", "viewer"}

\* The row of step 7, under the id of the member in the workspace asked about.
HeldAsMember(w, u, named) ==
    IF named = None THEN "none" ELSE assigned[named][MemberId(w, u)]
--------------------------------------------------------------------------------
(* What the use cases ask for *)

\* A minimum in the workspace: delete.go:95, members.go:89 and brand.go:98, update.go:94
\* and 195, and approve.go:324 and 503, which ask for an admin or the owner.
MinimumRole == [a \in WorkspaceActions \cup {"post.approve_internal", "post.reject_internal"} |->
    CASE a = "workspace.delete" -> "owner"
      [] a \in {"member.invite", "brand.create"} -> "manager"
      [] OTHER -> "admin"]

\* Or an assignment to the brand: brand/members.go:94 and 229; brand.go:233,
\* connect.go:156 and 370, cancel.go:189; upload.go:114, approve.go:128, publish.go:166.
BrandRolesFor == [a \in BrandActions \ DOMAIN MinimumRole |->
    CASE a \in Grants -> {"owner"}
      [] a \in {"brand.update", "channel.connect", "channel.disconnect", "post.cancel_schedule"} ->
            {"owner", "manager"}
      [] OTHER -> BrandRoles \ {"viewer"}]

\* The row is looked up by one id or by the other.
LookedUp(action, w, u) ==
    IF action \in Grants \cup {"brand.update"} THEN MemberId(w, u) ELSE UserId(u)

UseCase(member, action, held) ==
    \/ action = "post.cancel_schedule (author)"
    \/ /\ member.status # "absent"
       /\ IF action \in DOMAIN MinimumRole
          THEN IsAtLeast(member.role, MinimumRole[action])
          ELSE BypassesBrandAssignment(member.role) \/ held \in BrandRolesFor[action]
--------------------------------------------------------------------------------
(* A request *)

\* The workspace the use case reads the member of: brand.WorkspaceID(), but where
\* the workspace is in the path of the route.
WorksIn(action, asked, brand) ==
    IF action \in WorkspaceActions THEN asked ELSE WorkspaceOf[brand]

\* Mutant: the brand of the query is taken for the brand of the post.
MutantAdmit(q, action, u, asked, named, brand, target, role) ==
    /\ request[q].pc = "idle"
    /\ CheckPermission(workspace[asked], members[asked][u], action, named,
                       HeldAsMember(asked, u, named))
    /\ request' = [request EXCEPT ![q] =
          [pc |-> "admitted", action |-> action, actor |-> u, asked |-> asked,
           named |-> named, brand |-> named, target |-> target, role |-> role]]
    /\ UNCHANGED <<workspace, members, assigned>>

\* The middleware: a request it refuses changes nothing.
Admit(q, action, u, asked, named, brand, target, role) ==
    /\ request[q].pc = "idle"
    /\ CheckPermission(workspace[asked], members[asked][u], action, named,
                       HeldAsMember(asked, u, named))
    /\ request' = [request EXCEPT ![q] =
          [pc |-> "admitted", action |-> action, actor |-> u, asked |-> asked,
           named |-> named, brand |-> brand, target |-> target, role |-> role]]
    /\ UNCHANGED <<workspace, members, assigned>>

\* The use case.  UpdateBrand takes the workspace of the query too, and compares it
\* with the brand's; AssignMember and RevokeBrandAccess look at their target.
Decide(q) ==
    LET r == request[q]
        w == WorksIn(r.action, r.asked, r.brand)
        held == assigned[r.brand][LookedUp(r.action, w, r.actor)]
        present == assigned[r.brand][UserId(r.target)] # "none"
        fits == /\ r.action = "brand.update" => r.asked = w
                /\ r.action = "brand.assignment.create" =>
                      members[w][r.target].status # "absent" /\ ~present
                /\ r.action = "brand.assignment.remove" => present
    IN
    /\ r.pc = "admitted"
    /\ request' = [request EXCEPT ![q] =
          IF UseCase(members[w][r.actor], r.action, held) /\ fits
          THEN [@ EXCEPT !.pc = "accepted"] ELSE IdleRequest]
    /\ UNCHANGED <<workspace, members, assigned>>

\* Mutant: the row is stored where the middleware and the grants look for it.
MutantStoredUnder(r) == MemberId(WorkspaceOf[r.brand], r.target)

\* cmd.MemberID, under which the target has been looked up as a user.
StoredUnder(r) == UserId(r.target)

\* The row is inserted or deleted under the id the command names; what the other
\* use cases write is in their own modules.
Perform(q) ==
    LET r == request[q] IN
    /\ r.pc = "accepted"
    /\ \/ /\ r.action = "brand.assignment.create"
          /\ assigned[r.brand][StoredUnder(r)] = "none"
          /\ assigned' = [assigned EXCEPT ![r.brand][StoredUnder(r)] = r.role]
       \/ /\ r.action = "brand.assignment.remove"
          /\ assigned' = [assigned EXCEPT ![r.brand][StoredUnder(r)] = "none"]
       \/ UNCHANGED assigned
    /\ request' = [request EXCEPT ![q] = IdleRequest]
    /\ UNCHANGED <<workspace, members>>

\* Only the requests that grant name a target and a role.
Next ==
    \E q \in Requests :
        \/ \E action \in Actions, u \in Users, w \in Workspaces, b \in Brands,
              n \in Brands \cup {None}, t \in Users, role \in GrantedRoles :
              /\ action \in InPath => n = b
              /\ action \in WorkspaceActions => n = None
              /\ action \notin Grants => t = u /\ role = AnyRole
              /\ Admit(q, action, u, w, n, b, t, role)
        \/ Decide(q)
        \/ Perform(q)

Spec == Init /\ [][Next]_vars
--------------------------------------------------------------------------------
\* Where the use case works.
Place(r) == WorksIn(r.action, r.asked, r.brand)

\* permission.go, steps 2 and 4: no use case looks at the status of the workspace
\* or of the member it reads.  Where the middleware was asked about the workspace
\* the use case works in, the two levels together still let nobody act in a
\* suspended workspace, nor a member who is not active.
InactiveActsNotWhereAsked ==
    \A q \in Requests :
        LET r == request[q] IN
        r.pc = "accepted" /\ r.asked = Place(r) =>
            /\ workspace[Place(r)] # "suspended"
            /\ members[Place(r)][r.actor].status = "active"

\* permission.go, step 7, and brand/members.go: rows come and go under the ids of
\* users and are looked up under the ids of members.  So a request that names a
\* brand is let through by the middleware for an owner or an admin of the workspace
\* it asks about only; and a brand is updated, assigned and withdrawn by the owner
\* of its workspace only, whatever roles in the brand he or others were given.
BrandNamedNeedsAdmin ==
    \A q \in Requests :
        LET r == request[q] IN
        /\ r.pc # "idle" /\ r.named # None /\ r.action \in BrandActions =>
              members[r.asked][r.actor].role \in {"owner", "admin"}
        /\ r.pc = "accepted" /\ r.action \in Grants \cup {"brand.update"} =>
              members[Place(r)][r.actor].role = "owner"

\* workspace.go, MemberRole.Level: a member who is given a higher role in some
\* workspace can still do, through both levels, all that he could do before,
\* whichever workspace and brand the request names.
Allowed(table, u, action, asked, named, b) ==
    LET w == WorksIn(action, asked, b) IN
    /\ CheckPermission(workspace[asked], table[asked][u], action, named,
                       HeldAsMember(asked, u, named))
    /\ UseCase(table[w][u], action, assigned[b][LookedUp(action, w, u)])

PromotionLosesNothing ==
    \A w \in Workspaces, u \in Users, higher \in MemberRoles :
        Level[higher] > Level[members[w][u].role] =>
            \A action \in Actions, asked \in Workspaces, n \in Brands \cup {None}, b \in Brands :
                Allowed(members, u, action, asked, n, b)
                => Allowed([members EXCEPT ![w][u].role = higher], u, action, asked, n, b)
--------------------------------------------------------------------------------
\* permission.go, steps 2 and 4, for the workspace the use case works in: access to
\* a suspended workspace is refused, and so is a member who is not active.
InactiveActsNot ==
    \A q \in Requests :
        request[q].pc = "accepted" =>
            /\ workspace[Place(request[q])] # "suspended"
            /\ members[Place(request[q])][request[q].actor].status = "active"

\* brand/members.go, B-5: a member assigned as owner of a brand may assign others.
BrandOwnerMayGrant ==
    \A u \in Users, b \in Brands :
        LET w == WorkspaceOf[b] IN
        /\ members[w][u].status = "active" /\ workspace[w] = "active"
        /\ assigned[b][UserId(u)] = "owner"
        => Allowed(members, u, "brand.assignment.create", w, b, b)

\* connect.go, BR-10: a member assigned as manager may connect a channel.
BrandManagerMayConnect ==
    \A u \in Users, b \in Brands :
        LET w == WorkspaceOf[b] IN
        /\ members[w][u].status = "active" /\ workspace[w] = "active"
        /\ assigned[b][UserId(u)] = "manager"
        => Allowed(members, u, "channel.connect", w, b, b)

\* Why the two last do not hold: a row is stored under the id of a user, and the
\* middleware looks it up under the id of his member.
NothingUnderMemberIds ==
    \A b \in Brands, w \in Workspaces, u \in Users : assigned[b][MemberId(w, u)] = "none"
==================================================================================
