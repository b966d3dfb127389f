--------------------------- MODULE PermissionsProofs ---------------------------
(***************************************************************************)
(* Proofs about Permissions, for any users, workspaces, brands and         *)
(* requests and any roles granted.                                         *)
(***************************************************************************)
EXTENDS Permissions, TLAPS

RequestState ==
    [pc : {"idle", "admitted", "accepted"}, action : Actions, actor : Users,
     asked : Workspaces, named : Brands \cup {None}, brand : Brands \cup {None},
     target : Users, role : BrandRoles]

Tables == [Brands -> [Ids -> BrandRoles \cup {"none"}]]

\* The workspace the middleware was asked about is open to the actor.
Open(r) == workspace[r.asked] # "suspended" /\ members[r.asked][r.actor].status = "active"


(***************************************************************************)
(* What the middleware has seen of a running request is still so, for no   *)
(* use case of the code changes the status of a workspace or of a member.  *)
(***************************************************************************)
AdmittedIsActive ==
    \A q \in Requests : request[q].pc # "idle" => Open(request[q])

IInv == TypeOK /\ AdmittedIsActive

LEMMA IdleType == IdleRequest \in RequestState /\ IdleRequest.pc = "idle"
  <1>1. AnyRole \in BrandRoles
    BY PermissionsAssumption DEF AnyRole
  <1>2. AnyWorkspace \in Workspaces /\ OwnerOf[AnyWorkspace] \in Users
    BY PermissionsAssumption DEF AnyWorkspace
  <1> QED
    BY <1>1, <1>2, PermissionsAssumption
       DEF IdleRequest, RequestState, Actions, BrandActions

LEMMA InitHolds ==
    ASSUME Init
    PROVE  IInv
  BY IdleType DEF Init, IInv, TypeOK, AdmittedIsActive, RequestState

\* What the middleware has answered yes to.
Checked(r) == CheckPermission(workspace[r.asked], members[r.asked][r.actor], r.action,
                              r.named, HeldAsMember(r.asked, r.actor, r.named))

\* The member of the workspace the use case works in, and his row.
Accepted(r) ==
    UseCase(members[Place(r)][r.actor], r.action,
            assigned[r.brand][LookedUp(r.action, Place(r), r.actor)])

LEMMA PlaceType ==
    ASSUME NEW r \in RequestState, r.brand \in Brands
    PROVE  Place(r) \in Workspaces
  BY PermissionsAssumption DEF Place, WorksIn, RequestState

LEMMA IdTypes ==
    /\ \A u \in Users : UserId(u) \in Ids
    /\ \A w \in Workspaces, u \in Users : MemberId(w, u) \in Ids
    /\ \A w \in Workspaces, u \in Users, v \in Users : MemberId(w, u) # UserId(v)
  <1>1. /\ \A u \in Users : UserId(u) \in Ids
        /\ \A w \in Workspaces, u \in Users : MemberId(w, u) \in Ids
    BY DEF Ids
  <1>2. \A w \in Workspaces, u \in Users, v \in Users : MemberId(w, u) # UserId(v)
    BY DEF MemberId, UserId
  <1> QED
    BY <1>1, <1>2

LEMMA MemberRows ==
    ASSUME \A b \in Brands, w \in Workspaces, u \in Users :
              assigned'[b][MemberId(w, u)] = assigned[b][MemberId(w, u)]
    PROVE  NothingUnderMemberIds => NothingUnderMemberIds'
  BY DEF NothingUnderMemberIds

\* A request and the table of assignments, after a step of one request.
LEMMA RequestSteps ==
    ASSUME IInv, [Next]_vars
    PROVE  /\ UNCHANGED <<workspace, members>>
           /\ assigned' \in Tables
           /\ NothingUnderMemberIds => NothingUnderMemberIds'
           /\ request' \in [Requests -> RequestState]
           /\ \A q \in Requests :
                 \/ request'[q].pc = "idle"
                 \/ request'[q] = request[q]
                 \/ /\ request[q].pc = "idle" /\ request'[q].pc = "admitted"
                    /\ request'[q].brand \in Brands
                    /\ Open(request'[q]) /\ Checked(request'[q])
                 \/ /\ Decide(q)
                    /\ request'[q] = [request[q] EXCEPT !.pc = "accepted"]
                    /\ Accepted(request[q])
  <1> USE DEF IInv, TypeOK
  <1> DEFINE Moves(q) ==
         \/ request'[q].pc = "idle"
         \/ request'[q] = request[q]
         \/ /\ request[q].pc = "idle" /\ request'[q].pc = "admitted"
            /\ request'[q].brand \in Brands
            /\ Open(request'[q]) /\ Checked(request'[q])
         \/ /\ Decide(q)
            /\ request'[q] = [request[q] EXCEPT !.pc = "accepted"]
            /\ Accepted(request[q])
         Goal == /\ UNCHANGED <<workspace, members>>
                 /\ assigned' \in Tables
                 /\ NothingUnderMemberIds => NothingUnderMemberIds'
                 /\ request' \in [Requests -> RequestState]
                 /\ \A q \in Requests : Moves(q)
  <1>0. request \in [Requests -> RequestState] /\ assigned \in Tables
    BY DEF RequestState, Tables
  <1>1. ASSUME NEW q \in Requests, NEW action \in Actions, NEW u \in Users,
               NEW w \in Workspaces, NEW b \in Brands, NEW n \in Brands \cup {None},
               NEW t \in Users, NEW role \in GrantedRoles,
               Admit(q, action, u, w, n, b, t, role)
        PROVE  Goal
    <2> DEFINE new == [pc |-> "admitted", action |-> action, actor |-> u, asked |-> w,
                       named |-> n, brand |-> b, target |-> t, role |-> role]
    <2>1. new \in RequestState
      BY PermissionsAssumption DEF RequestState
    <2>2. /\ new.pc = "admitted" /\ new.brand = b /\ new.actor = u
          /\ new.action = action /\ new.named = n /\ new.asked = w
      OBVIOUS
    <2> HIDE DEF new
    <2>3. /\ request[q].pc = "idle"
          /\ request' = [request EXCEPT ![q] = new]
          /\ UNCHANGED <<workspace, members, assigned>>
      BY <1>1 DEF Admit, new
    <2>4. Open(new)
      BY <1>1, <2>2 DEF Admit, CheckPermission, Open
    <2>5. \A p \in Requests \ {q} : request'[p] = request[p]
      BY <2>3
    <2>6. request'[q] = new
      BY <2>3
    <2>7. Checked(new)
      BY <1>1, <2>2 DEF Admit, Checked
    <2>8. Moves(q)
      BY <2>2, <2>3, <2>4, <2>6, <2>7
    <2>9. NothingUnderMemberIds => NothingUnderMemberIds'
      BY <2>3 DEF NothingUnderMemberIds
    <2> QED
      BY <1>0, <2>1, <2>3, <2>5, <2>8, <2>9
  <1>2. ASSUME NEW q \in Requests, Decide(q) PROVE Goal
    <2> DEFINE new == [request[q] EXCEPT !.pc = "accepted"]
    <2>1. new \in RequestState
      BY <1>0 DEF RequestState
    <2> HIDE DEF new
    <2>2. /\ UNCHANGED <<workspace, members, assigned>>
          /\ \/ request' = [request EXCEPT ![q] = IdleRequest]
             \/ /\ request' = [request EXCEPT ![q] = new]
                /\ Accepted(request[q])
      BY <1>2 DEF Decide, new, Accepted, Place
    <2>3. request' \in [Requests -> RequestState]
          /\ \A p \in Requests \ {q} : request'[p] = request[p]
      BY <1>0, <2>1, <2>2, IdleType
    <2>4. \/ request'[q] = IdleRequest
          \/ /\ request'[q] = new
             /\ Accepted(request[q])
      BY <2>2
    <2>5. Moves(q)
      BY <1>2, <2>4, IdleType DEF new
    <2>6. NothingUnderMemberIds => NothingUnderMemberIds'
      BY <2>2 DEF NothingUnderMemberIds
    <2> QED
      BY <1>0, <2>2, <2>3, <2>5, <2>6
  <1>3. ASSUME NEW q \in Requests, Perform(q) PROVE Goal
    <2> DEFINE on == request[q].brand
               id == StoredUnder(request[q])
    <2>1. request[q] \in RequestState /\ request[q].pc = "accepted"
      BY <1>0, <1>3 DEF Perform
    <2>2. on \in Brands /\ request[q].target \in Users /\ request[q].role \in BrandRoles
      BY <2>1 DEF RequestState
    <2>3. id \in Ids /\ \A w \in Workspaces, u \in Users : MemberId(w, u) # id
      BY <2>2, IdTypes DEF StoredUnder
    <2>4. /\ UNCHANGED <<workspace, members>>
          /\ request' = [request EXCEPT ![q] = IdleRequest]
          /\ \/ assigned' = [assigned EXCEPT ![on][id] = request[q].role]
             \/ assigned' = [assigned EXCEPT ![on][id] = "none"]
             \/ UNCHANGED assigned
      BY <1>3 DEF Perform
    <2> HIDE DEF on, id
    <2>5. \E role \in BrandRoles \cup {"none"} :
             assigned' = [assigned EXCEPT ![on][id] = role] \/ assigned' = assigned
      BY <2>2, <2>4
    <2>6. CASE assigned' = assigned
      BY <1>0, <2>4, <2>6, IdleType DEF NothingUnderMemberIds
    <2>7. ASSUME NEW role \in BrandRoles \cup {"none"},
                 assigned' = [assigned EXCEPT ![on][id] = role]
          PROVE  Goal
      <3>1. assigned[on] \in [Ids -> BrandRoles \cup {"none"}]
        BY <1>0, <2>2 DEF Tables
      <3> DEFINE row == [assigned[on] EXCEPT ![id] = role]
      <3>2. /\ row \in [Ids -> BrandRoles \cup {"none"}]
            /\ \A x \in Ids \ {id} : row[x] = assigned[on][x]
        BY <2>3, <3>1
      <3>3. assigned' = [assigned EXCEPT ![on] = row]
        BY <2>7
      <3> HIDE DEF row
      <3>4. assigned' \in Tables /\ \A c \in Brands \ {on} : assigned'[c] = assigned[c]
        BY <1>0, <2>2, <3>2, <3>3 DEF Tables
      <3>5. assigned'[on] = row
        BY <1>0, <2>2, <3>3 DEF Tables
      <3>6. \A c \in Brands, w \in Workspaces, u \in Users :
               assigned'[c][MemberId(w, u)] = assigned[c][MemberId(w, u)]
        BY <2>3, <3>2, <3>4, <3>5, IdTypes
      <3>7. NothingUnderMemberIds => NothingUnderMemberIds'
        BY <3>6, MemberRows
      <3> QED
        BY <1>0, <2>4, <3>4, <3>7, IdleType
    <2> QED
      BY <2>5, <2>6, <2>7
  <1>4. CASE UNCHANGED vars
    BY <1>0, <1>4 DEF vars, NothingUnderMemberIds
  <1> QED
    BY <1>1, <1>2, <1>3, <1>4 DEF Next

LEMMA InvStep ==
    ASSUME IInv, [Next]_vars
    PROVE  IInv'
  <1>1. ASSUME NEW q \in Requests, request'[q].pc # "idle"
        PROVE  request'[q].brand \in Brands /\ Open(request'[q])
    <2>1. CASE request'[q] = request[q]
      BY <1>1, <2>1 DEF IInv, TypeOK, AdmittedIsActive
    <2>2. CASE Decide(q) /\ request'[q] = [request[q] EXCEPT !.pc = "accepted"]
      <3>1. /\ request[q].pc # "idle"
            /\ request'[q].brand = request[q].brand
            /\ request'[q].asked = request[q].asked
            /\ request'[q].actor = request[q].actor
        BY <2>2 DEF Decide, IInv, TypeOK
      <3> QED
        BY <3>1 DEF IInv, TypeOK, AdmittedIsActive, Open
    <2> QED
      BY <1>1, <2>1, <2>2, RequestSteps
  <1>2. TypeOK'
    BY <1>1, RequestSteps DEF IInv, TypeOK, RequestState, Tables
  <1> QED
    BY <1>1, <1>2, RequestSteps DEF IInv, AdmittedIsActive, Open

LEMMA Invariance == Spec => []IInv
  BY InitHolds, InvStep, PTL DEF Spec

(***************************************************************************)
(* Type correctness: a running request works on a brand, and an assignment *)
(* is stored under the id of a user or of a member with a role or not.     *)
(***************************************************************************)
THEOREM TypeCorrect == Spec => []TypeOK
  <1>1. IInv => TypeOK
    BY DEF IInv
  <1> QED
    BY <1>1, Invariance, PTL

(***************************************************************************)
(* permission.go, steps 2 and 4: although no use case looks at a status,   *)
(* nobody acts in a suspended workspace, nor a member who is not active,   *)
(* when the middleware was asked about the workspace he acts in.           *)
(***************************************************************************)
THEOREM InactiveActsNotWhereAskedHolds == Spec => []InactiveActsNotWhereAsked
  <1>1. IInv => InactiveActsNotWhereAsked
    BY DEF IInv, AdmittedIsActive, Open, InactiveActsNotWhereAsked
  <1> QED
    BY <1>1, Invariance, PTL

(***************************************************************************)
(* MemberRole.Level: both levels of decision grow with the role, although  *)
(* the middleware lists roles, the use cases compare levels, and brands    *)
(* bypass assignments for the owner alone.                                 *)
(***************************************************************************)
LEMMA HigherRoles ==
    ASSUME NEW role \in MemberRoles, NEW higher \in MemberRoles, Level[higher] >= Level[role]
    PROVE  /\ role \in {"owner", "admin"} => higher \in {"owner", "admin"}
           /\ role = "owner" => higher = "owner"
           /\ \A minimum \in MemberRoles :
                 IsAtLeast(role, minimum) => IsAtLeast(higher, minimum)
  BY DEF MemberRoles, Level, IsAtLeast

LEMMA PromotionIn ==
    ASSUME TypeOK
    PROVE  PromotionLosesNothing
  <1> SUFFICES ASSUME NEW w \in Workspaces, NEW u \in Users, NEW higher \in MemberRoles,
                      NEW action \in Actions, NEW asked \in Workspaces,
                      NEW n \in Brands \cup {None}, NEW b \in Brands,
                      Level[higher] > Level[members[w][u].role],
                      Allowed(members, u, action, asked, n, b)
               PROVE  Allowed([members EXCEPT ![w][u].role = higher], u, action, asked, n, b)
    BY DEF PromotionLosesNothing
  <1> DEFINE promoted == [members EXCEPT ![w][u].role = higher]
             place == WorksIn(action, asked, b)
  <1>1. place \in Workspaces
    BY PermissionsAssumption DEF WorksIn
  <1>2. \A x \in Workspaces :
           /\ members[x][u].role \in MemberRoles /\ promoted[x][u].role \in MemberRoles
           /\ promoted[x][u].status = members[x][u].status
           /\ Level[promoted[x][u].role] >= Level[members[x][u].role]
    <2> SUFFICES ASSUME NEW x \in Workspaces
                 PROVE  /\ members[x][u].role \in MemberRoles
                        /\ promoted[x][u].role \in MemberRoles
                        /\ promoted[x][u].status = members[x][u].status
                        /\ Level[promoted[x][u].role] >= Level[members[x][u].role]
      OBVIOUS
    <2>1. /\ members \in [Workspaces -> [Users -> Member]]
          /\ members[x][u] \in Member
      BY DEF TypeOK
    <2>2. members[x][u].role \in MemberRoles
      BY <2>1 DEF Member
    <2>3. promoted[x][u] = IF x = w THEN [members[w][u] EXCEPT !.role = higher]
                           ELSE members[x][u]
      BY <2>1
    <2>4. CASE x = w
      <3>1. promoted[x][u].role = higher /\ promoted[x][u].status = members[x][u].status
        BY <2>1, <2>3, <2>4 DEF Member
      <3>2. \A r, s \in MemberRoles : Level[r] > Level[s] => Level[r] >= Level[s]
        BY DEF MemberRoles, Level
      <3> QED
        BY <2>2, <2>4, <3>1, <3>2
    <2>5. CASE x # w
      <3>1. \A role \in MemberRoles : Level[role] >= Level[role]
        BY DEF MemberRoles, Level
      <3> QED
        BY <2>2, <2>3, <2>5, <3>1
    <2> QED
      BY <2>4, <2>5
  <1> HIDE DEF promoted, place
  <1>3. CheckPermission(workspace[asked], promoted[asked][u], action, n,
                        HeldAsMember(asked, u, n))
    BY <1>2, HigherRoles DEF Allowed, CheckPermission
  <1>4. \A a \in DOMAIN MinimumRole : MinimumRole[a] \in MemberRoles
    BY DEF MinimumRole, MemberRoles
  <1>5. UseCase(promoted[place][u], action, assigned[b][LookedUp(action, place, u)])
    <2>1. UseCase(members[place][u], action, assigned[b][LookedUp(action, place, u)])
      BY DEF Allowed, place
    <2>2. CASE action \in DOMAIN MinimumRole
      <3>1. \A m \in MemberRoles :
               IsAtLeast(members[place][u].role, m) => IsAtLeast(promoted[place][u].role, m)
        BY <1>1, <1>2, HigherRoles
      <3> QED
        BY <1>1, <1>2, <1>4, <2>1, <2>2, <3>1 DEF UseCase
    <2>3. CASE action \notin DOMAIN MinimumRole
      BY <1>1, <1>2, <2>1, <2>3, HigherRoles DEF UseCase, BypassesBrandAssignment
    <2> QED
      BY <2>2, <2>3
  <1> QED
    BY <1>3, <1>5 DEF Allowed, promoted, place

\* A member who is given a higher role can do all that the member could before.
THEOREM PromotionLosesNothingHolds == Spec => []PromotionLosesNothing
  BY TypeCorrect, PromotionIn, PTL
--------------------------------------------------------------------------------
(***************************************************************************)
(* The row of an assignment is stored under the id of a user.  What the    *)
(* middleware and the use cases of the brands look up under the id of a    *)
(* member is therefore never there, and the role of the member in the      *)
(* workspace alone decides: B-5 gives nobody else anything, nor does BR-10 *)
(* where the request names the brand.                                      *)
(***************************************************************************)
MemberIdInv == NothingUnderMemberIds /\ BrandNamedNeedsAdmin

\* permission.go, step 7, with brand/members.go: no row is stored under the id of a
\* member, so naming a brand takes an owner or an admin of the workspace asked
\* about; to update, assign or withdraw a brand, the owner of its workspace.
THEOREM BrandNamedNeedsAdminHolds ==
    Spec => [](NothingUnderMemberIds /\ BrandNamedNeedsAdmin)
  <1>1. Init => MemberIdInv
    <2> SUFFICES ASSUME Init PROVE MemberIdInv
      OBVIOUS
    <2>1. NothingUnderMemberIds
      BY IdTypes DEF Init, NothingUnderMemberIds
    <2>2. BrandNamedNeedsAdmin
      BY DEF Init, BrandNamedNeedsAdmin, IdleRequest
    <2> QED
      BY <2>1, <2>2 DEF MemberIdInv
  <1>2. ASSUME IInv, MemberIdInv, [Next]_vars PROVE MemberIdInv'
    <2>1. UNCHANGED members /\ NothingUnderMemberIds /\ NothingUnderMemberIds'
      BY <1>2, RequestSteps DEF MemberIdInv
    <2>2. ASSUME NEW q \in Requests
          PROVE  /\ /\ request'[q].pc # "idle" /\ request'[q].named # None
                    /\ request'[q].action \in BrandActions
                    => members[request'[q].asked][request'[q].actor].role
                          \in {"owner", "admin"}
                 /\ /\ request'[q].pc = "accepted"
                    /\ request'[q].action \in Grants \cup {"brand.update"}
                    => members[Place(request'[q])][request'[q].actor].role = "owner"
      <3> DEFINE r == request[q]
                 s == request'[q]
      <3>0. r \in RequestState /\ s \in RequestState
        BY <1>2, RequestSteps DEF IInv, TypeOK, RequestState
      <3>1. CASE s.pc = "idle" \/ s = r
        BY <1>2, <3>1 DEF MemberIdInv, BrandNamedNeedsAdmin
      <3>2. CASE s.pc = "admitted" /\ Checked(s)
        <4>1. s.action \in BrandActions => s.action \notin WorkspaceActions
          BY DEF BrandActions, WorkspaceActions
        <4>2. s.named \in Brands => HeldAsMember(s.asked, s.actor, s.named) = "none"
          BY <2>1, <3>0, PermissionsAssumption
             DEF NothingUnderMemberIds, RequestState, HeldAsMember
        <4>3. s.named # None /\ s.action \in BrandActions =>
                 members[s.asked][s.actor].role \in {"owner", "admin"}
          BY <3>0, <3>2, <4>1, <4>2 DEF Checked, CheckPermission, RequestState
        <4> QED
          BY <3>2, <4>3
      <3>3. CASE /\ Decide(q) /\ s = [r EXCEPT !.pc = "accepted"]
                 /\ Accepted(r)
        <4>1. /\ s.action = r.action /\ s.actor = r.actor /\ s.named = r.named
              /\ s.asked = r.asked /\ Place(s) = Place(r)
          BY <3>0, <3>3 DEF RequestState, Place
        <4>2. r.pc = "admitted" /\ r.brand \in Brands
          BY <1>2, <3>3 DEF Decide, IInv, TypeOK
        <4>3. ASSUME r.action \in Grants \cup {"brand.update"}
              PROVE  members[Place(r)][r.actor].role = "owner"
          <5>1. assigned[r.brand][LookedUp(r.action, Place(r), r.actor)] = "none"
            BY <2>1, <3>0, <4>2, <4>3, PlaceType DEF LookedUp, NothingUnderMemberIds, RequestState
          <5>2. /\ r.action # "post.cancel_schedule (author)"
                /\ r.action \notin DOMAIN MinimumRole
                /\ r.action \in BrandActions
            BY <4>3 DEF Grants, MinimumRole, WorkspaceActions, BrandActions
          <5>3. "none" \notin BrandRolesFor[r.action]
            BY <5>2 DEF BrandRolesFor, BrandRoles
          <5> QED
            BY <3>3, <5>1, <5>2, <5>3 DEF Accepted, UseCase, BypassesBrandAssignment
        <4> QED
          BY <1>2, <4>1, <4>2, <4>3 DEF MemberIdInv, BrandNamedNeedsAdmin
      <3> QED
        BY <1>2, <3>1, <3>2, <3>3, RequestSteps
    <2> QED
      BY <2>1, <2>2 DEF MemberIdInv, BrandNamedNeedsAdmin
  <1> QED
    BY <1>1, <1>2, Invariance, PTL DEF Spec, MemberIdInv
================================================================================
