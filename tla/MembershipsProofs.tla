--------------------------- MODULE MembershipsProofs ---------------------------
(***************************************************************************)
(* Proofs about Memberships.  They rest on what the code never takes back: *)
(* a member keeps his role, and an invitation its address, its role and    *)
(* its inviter, whatever its status becomes.                               *)
(***************************************************************************)
EXTENDS Memberships, FiniteSetTheorems, TLAPS

(***************************************************************************)
(* The inductive invariant, in parts: who invites may, an invitation was   *)
(* made by somebody who may, and an acceptance is of an invitation to its  *)
(* user, who has been added when it comes to the second write.             *)
(***************************************************************************)
MayInvite(held, role) ==
    /\ held # "none"
    /\ IsAtLeast(held, "manager")
    /\ IsAtLeast(held, role)

InvitersMay ==
    \A i \in Inviters : invite[i].pc # "idle" =>
        MayInvite(members[invite[i].actor], invite[i].role)

InvitationsAreAllowed ==
    \A id \in Invitations : invitations[id].status # "none" =>
        /\ invitations[id].role # "owner"
        /\ MayInvite(members[invitations[id].inviter], invitations[id].role)

AcceptsItsOwn ==
    \A a \in Accepters :
        /\ accept[a].pc \notin {"idle", "already"} =>
               invitations[accept[a].id].status # "none"
        /\ accept[a].pc \in {"member", "limit", "add", "store"} =>
               invitations[accept[a].id].email = accept[a].user
        /\ accept[a].pc = "store" =>
               members[accept[a].user] = invitations[accept[a].id].role

Stored(id) == invitations[id].status # "none"

IInv ==
    /\ TypeOK
    /\ InvitersMay
    /\ InvitationsAreAllowed
    /\ AcceptsItsOwn

LEMMA RowFields ==
    ASSUME NEW row \in InvitationRow
    PROVE  /\ row.role \in Roles
           /\ row.email \in Users \cup {None}
           /\ row.inviter \in Users \cup {None}
           /\ row.status \in {"none", "pending", "accepted", "expired"}
           /\ row.status # "none" => row.email \in Users /\ row.inviter \in Users
  BY DEF InvitationRow

LEMMA AcceptFields ==
    ASSUME TypeOK, NEW a \in Accepters
    PROVE  /\ accept[a].user \in Users
           /\ accept[a].pc \in {"idle", "already", "expire", "member", "limit", "add", "store"}
           /\ accept[a].pc \notin {"idle", "already"} => accept[a].id \in Invitations
           /\ accept[a].id \in Invitations \cup {None}
  BY DEF TypeOK, AcceptState

LEMMA InitHolds ==
    ASSUME Init
    PROVE  IInv
  <1>1. NoInvitation \in InvitationRow
    BY DEF NoInvitation, InvitationRow, Roles
  <1>2. IdleInvite \in InviteState /\ IdleAccept \in AcceptState
    BY MembershipsAssumption DEF IdleInvite, IdleAccept, InviteState, AcceptState, Roles
  <1>3. TypeOK
    BY <1>1, <1>2 DEF Init, TypeOK, Roles
  <1> QED
    BY <1>3 DEF Init, IInv, InvitersMay, InvitationsAreAllowed, AcceptsItsOwn,
       NoInvitation, IdleInvite, IdleAccept
--------------------------------------------------------------------------------
(***************************************************************************)
(* The table of invitations grows by one row, or the status of one that is *)
(* there is written over; the table of members grows by one.               *)
(***************************************************************************)
Creates(i, id) ==
    /\ invite[i].pc = "create"
    /\ invitations[id].status = "none"
    /\ RoleStorable(invite[i].role)
    /\ invitations' = [invitations EXCEPT ![id] =
          [email |-> invite[i].email, role |-> invite[i].role,
           inviter |-> invite[i].actor, status |-> "pending"]]
    /\ invite' = [invite EXCEPT ![i] = IdleInvite]

LEMMA StatusKeepsRow ==
    ASSUME NEW row \in InvitationRow, row.status # "none",
           NEW status \in {"accepted", "expired"}
    PROVE  /\ [row EXCEPT !.status = status] \in InvitationRow
           /\ [row EXCEPT !.status = status].email = row.email
           /\ [row EXCEPT !.status = status].role = row.role
           /\ [row EXCEPT !.status = status].inviter = row.inviter
           /\ [row EXCEPT !.status = status].status = status
  BY DEF InvitationRow

LEMMA InvitationSteps ==
    ASSUME IInv, [Next]_vars
    PROVE  \/ UNCHANGED invitations
           \/ \E i \in Inviters, id \in Invitations : Creates(i, id)
           \/ \E a \in Accepters, status \in {"accepted", "expired"} :
                 /\ accept[a].pc = IF status = "accepted" THEN "store" ELSE "expire"
                 /\ StoreStatus(a, status)
                 /\ AcceptEnds(a)
  <1>1. ASSUME NEW i \in Inviters, NEW id \in Invitations, InviteCreate(i, id)
        PROVE  UNCHANGED invitations \/ Creates(i, id)
    BY <1>1 DEF InviteCreate, Creates
  <1>2. ASSUME NEW i \in Inviters, InviteNext(i),
               ~(\E id \in Invitations : InviteCreate(i, id))
        PROVE  UNCHANGED invitations
    BY <1>2 DEF InviteNext, InviteLoad, InviteCheckLimit, InviteList, InviteLookup,
       InviteCheckMember, InviteDies
  <1>3. ASSUME NEW a \in Accepters, AcceptNext(a)
        PROVE  \/ UNCHANGED invitations
               \/ accept[a].pc = "store" /\ StoreStatus(a, "accepted") /\ AcceptEnds(a)
               \/ accept[a].pc = "expire" /\ StoreStatus(a, "expired") /\ AcceptEnds(a)
    BY <1>3 DEF AcceptNext, AcceptLoad, AcceptExpire, AcceptCheckMember,
       AcceptCheckLimit, AcceptAdd, AcceptStore, AcceptDies
  <1> QED
    BY <1>1, <1>2, <1>3 DEF Next, Register, BecomesLate, vars

LEMMA MemberSteps ==
    ASSUME [Next]_vars
    PROVE  \/ UNCHANGED members
           \/ \E a \in Accepters :
                 /\ accept[a].pc = "add"
                 /\ members[accept[a].user] = "none"
                 /\ members' = [members EXCEPT ![accept[a].user] = AddedRole(a)]
                 /\ AcceptGoesOn(a, "store")
                 /\ UNCHANGED invitations
  <1>1. ASSUME NEW i \in Inviters, InviteNext(i)
        PROVE  UNCHANGED members
    BY <1>1 DEF InviteNext, InviteLoad, InviteCheckLimit, InviteList, InviteLookup,
       InviteCheckMember, InviteCreate, InviteDies
  <1>2. ASSUME NEW a \in Accepters, AcceptNext(a)
        PROVE  \/ UNCHANGED members
               \/ /\ accept[a].pc = "add"
                  /\ members[accept[a].user] = "none"
                  /\ members' = [members EXCEPT ![accept[a].user] = AddedRole(a)]
                  /\ AcceptGoesOn(a, "store")
                  /\ UNCHANGED invitations
    BY <1>2 DEF AcceptNext, AcceptLoad, AcceptExpire, AcceptCheckMember,
       AcceptCheckLimit, AcceptAdd, AcceptStore, AcceptDies
  <1> QED
    BY <1>1, <1>2 DEF Next, Register, BecomesLate, vars

\* A stored invitation keeps everything but its status.
LEMMA InvitationsStay ==
    ASSUME IInv, [Next]_vars
    PROVE  /\ invitations' \in [Invitations -> InvitationRow]
           /\ \A id \in Invitations : Stored(id) =>
                 /\ invitations'[id].status # "none"
                 /\ invitations'[id].email = invitations[id].email
                 /\ invitations'[id].role = invitations[id].role
                 /\ invitations'[id].inviter = invitations[id].inviter
           /\ \A id \in Invitations : Stored(id)' /\ ~Stored(id) =>
                 \E i \in Inviters :
                    /\ invite[i].pc # "idle"
                    /\ invitations'[id].status = "pending"
                    /\ invitations'[id].role = invite[i].role
                    /\ invitations'[id].inviter = invite[i].actor
                    /\ invite[i].role # "owner"
           /\ \A id \in Invitations : invitations'[id].status = "accepted" =>
                 \/ invitations[id].status = "accepted"
                 \/ \E a \in Accepters : accept[a].pc = "store" /\ accept[a].id = id
  <1> USE DEF Stored
  <1> DEFINE Goal ==
         /\ invitations' \in [Invitations -> InvitationRow]
         /\ \A id \in Invitations : Stored(id) =>
               /\ invitations'[id].status # "none"
               /\ invitations'[id].email = invitations[id].email
               /\ invitations'[id].role = invitations[id].role
               /\ invitations'[id].inviter = invitations[id].inviter
         /\ \A id \in Invitations : Stored(id)' /\ ~Stored(id) =>
               \E i \in Inviters :
                  /\ invite[i].pc # "idle"
                  /\ invitations'[id].status = "pending"
                  /\ invitations'[id].role = invite[i].role
                  /\ invitations'[id].inviter = invite[i].actor
                  /\ invite[i].role # "owner"
         /\ \A id \in Invitations : invitations'[id].status = "accepted" =>
               \/ invitations[id].status = "accepted"
               \/ \E a \in Accepters : accept[a].pc = "store" /\ accept[a].id = id
  <1>1. CASE UNCHANGED invitations
    BY <1>1 DEF IInv, TypeOK
  <1>2. ASSUME NEW i \in Inviters, NEW id \in Invitations, Creates(i, id) PROVE Goal
    <2>1. invite[i] \in InviteState
      BY DEF IInv, TypeOK
    <2>2. [email |-> invite[i].email, role |-> invite[i].role,
           inviter |-> invite[i].actor, status |-> "pending"] \in InvitationRow
      BY <2>1 DEF InviteState, InvitationRow
    <2> QED
      BY <1>2, <2>2 DEF Creates, RoleStorable, IInv, TypeOK
  <1>3. ASSUME NEW a \in Accepters, NEW status \in {"accepted", "expired"},
               accept[a].pc = (IF status = "accepted" THEN "store" ELSE "expire"),
               StoreStatus(a, status)
        PROVE  Goal
    <2> DEFINE row == invitations[accept[a].id]
    <2>1. accept[a].id \in Invitations /\ row \in InvitationRow /\ row.status # "none"
      BY <1>3, AcceptFields DEF IInv, AcceptsItsOwn, TypeOK
    <2>2. /\ [row EXCEPT !.status = status] \in InvitationRow
          /\ [row EXCEPT !.status = status].email = row.email
          /\ [row EXCEPT !.status = status].role = row.role
          /\ [row EXCEPT !.status = status].inviter = row.inviter
          /\ [row EXCEPT !.status = status].status = status
      BY <2>1, StatusKeepsRow
    <2>3. invitations' = [invitations EXCEPT ![accept[a].id] =
                              [row EXCEPT !.status = status]]
      BY <1>3 DEF StoreStatus
    <2> HIDE DEF row
    <2>4. invitations[accept[a].id] = row
      BY DEF row
    <2> QED
      BY <1>3, <2>1, <2>2, <2>3, <2>4 DEF IInv, TypeOK
  <1> QED
    BY <1>1, <1>2, <1>3, InvitationSteps

\* A member keeps his role.
LEMMA MembersStay ==
    ASSUME IInv, [Next]_vars
    PROVE  /\ members' \in [Users -> Roles \cup {"none"}]
           /\ \A u \in Users : members[u] # "none" => members'[u] = members[u]
           /\ \A u \in Users : members'[u] # members[u] =>
                 \E id \in Invitations : /\ Stored(id)
                                         /\ invitations[id].email = u
                                         /\ invitations[id].role = members'[u]
  <1>1. CASE UNCHANGED members
    BY <1>1 DEF IInv, TypeOK
  <1>2. ASSUME NEW a \in Accepters, accept[a].pc = "add",
               members[accept[a].user] = "none",
               members' = [members EXCEPT ![accept[a].user] = AddedRole(a)]
        PROVE  /\ members' \in [Users -> Roles \cup {"none"}]
               /\ \A u \in Users : members[u] # "none" => members'[u] = members[u]
               /\ \A u \in Users : members'[u] # members[u] =>
                     \E id \in Invitations : /\ Stored(id)
                                             /\ invitations[id].email = u
                                             /\ invitations[id].role = members'[u]
    <2>1. /\ accept[a].id \in Invitations /\ accept[a].user \in Users
          /\ Stored(accept[a].id)
          /\ invitations[accept[a].id].email = accept[a].user
          /\ invitations[accept[a].id].role \in Roles
      BY <1>2, AcceptFields, RowFields DEF IInv, AcceptsItsOwn, TypeOK, Stored
    <2> QED
      BY <1>2, <2>1 DEF AddedRole, IInv, TypeOK
  <1> QED
    BY <1>1, <1>2, MemberSteps
--------------------------------------------------------------------------------
LEMMA GoesOn ==
    ASSUME TypeOK, NEW i \in Inviters, invite[i].pc # "idle", NEW ok \in BOOLEAN,
           NEW pc \in {"list", "lookup", "member", "create"}, InviteGoesOn(i, ok, pc)
    PROVE  /\ invite' \in [Inviters -> InviteState]
           /\ \A j \in Inviters \ {i} : invite'[j] = invite[j]
           /\ \/ invite'[i].pc = "idle"
              \/ /\ invite'[i].actor = invite[i].actor
                 /\ invite'[i].role = invite[i].role
  <1>1. IdleInvite \in InviteState /\ IdleInvite.pc = "idle"
    BY MembershipsAssumption DEF IdleInvite, InviteState, Roles
  <1>2. /\ [invite[i] EXCEPT !.pc = pc] \in InviteState
        /\ [invite[i] EXCEPT !.pc = pc].actor = invite[i].actor
        /\ [invite[i] EXCEPT !.pc = pc].role = invite[i].role
    BY DEF TypeOK, InviteState
  <1>3. \/ invite' = [invite EXCEPT ![i] = [invite[i] EXCEPT !.pc = pc]]
        \/ invite' = [invite EXCEPT ![i] = IdleInvite]
    BY DEF InviteGoesOn
  <1> QED
    BY <1>1, <1>2, <1>3 DEF TypeOK

\* What a running InviteMember does to itself.
LEMMA InviteMoves ==
    ASSUME TypeOK, NEW i \in Inviters, InviteNext(i)
    PROVE  /\ invite' \in [Inviters -> InviteState]
           /\ \A j \in Inviters \ {i} : invite'[j] = invite[j]
           /\ \/ invite'[i].pc = "idle"
              \/ /\ invite[i].pc # "idle"
                 /\ invite'[i].actor = invite[i].actor
                 /\ invite'[i].role = invite[i].role
              \/ MayInvite(members[invite'[i].actor], invite'[i].role)
           /\ UNCHANGED <<accounts, members, late, accept>>
  <1> DEFINE Goal ==
         /\ invite' \in [Inviters -> InviteState]
         /\ \A j \in Inviters \ {i} : invite'[j] = invite[j]
         /\ \/ invite'[i].pc = "idle"
            \/ /\ invite[i].pc # "idle"
               /\ invite'[i].actor = invite[i].actor
               /\ invite'[i].role = invite[i].role
            \/ MayInvite(members[invite'[i].actor], invite'[i].role)
         /\ UNCHANGED <<accounts, members, late, accept>>
  <1>1. IdleInvite \in InviteState /\ IdleInvite.pc = "idle"
    BY MembershipsAssumption DEF IdleInvite, InviteState, Roles
  <1>2. ASSUME NEW actor \in Users, NEW email \in Users, NEW role \in InvitedRoles,
               InviteLoad(i, actor, email, role)
        PROVE  Goal
    <2>1. [pc |-> "limit", actor |-> actor, email |-> email, role |-> role] \in InviteState
      BY MembershipsAssumption DEF InviteState
    <2> QED
      BY <1>2, <2>1 DEF InviteLoad, MayInvite, TypeOK
  <1>3. CASE InviteCheckLimit(i)
    <2>1. CheckMemberLimit \in BOOLEAN
      BY DEF CheckMemberLimit
    <2> QED
      BY <1>3, <2>1, GoesOn DEF InviteCheckLimit
  <1>4. CASE InviteList(i)
    <2> DEFINE ok == ~ \E id \in Invitations :
                           /\ invitations[id].email = invite[i].email
                           /\ invitations[id].status = "pending"
    <2>1. ok \in BOOLEAN /\ InviteGoesOn(i, ok, "lookup")
      BY <1>4 DEF InviteList
    <2> HIDE DEF ok
    <2> QED
      BY <1>4, <2>1, GoesOn DEF InviteList
  <1>5. CASE InviteLookup(i)
    <2>1. \/ InviteGoesOn(i, TRUE, "member")
          \/ InviteGoesOn(i, TRUE, "create")
      BY <1>5 DEF InviteLookup
    <2> QED
      BY <1>5, <2>1, GoesOn DEF InviteLookup
  <1>6. CASE InviteCheckMember(i)
    <2> DEFINE unseen == ~SeenAsMember(invite[i].email)
    <2>1. unseen \in BOOLEAN
      BY DEF SeenAsMember
    <2>2. InviteGoesOn(i, unseen, "create") \/ InviteGoesOn(i, TRUE, "create")
      BY <1>6 DEF InviteCheckMember
    <2> HIDE DEF unseen
    <2> QED
      BY <1>6, <2>1, <2>2, GoesOn DEF InviteCheckMember
  <1>7. ASSUME NEW id \in Invitations, InviteCreate(i, id) PROVE Goal
    BY <1>1, <1>7 DEF InviteCreate, TypeOK
  <1>8. CASE InviteDies(i)
    BY <1>1, <1>8 DEF InviteDies, TypeOK
  <1> QED
    BY <1>2, <1>3, <1>4, <1>5, <1>6, <1>7, <1>8 DEF InviteNext

\* What a running AcceptInvitation does to itself.
LEMMA AcceptMoves ==
    ASSUME TypeOK, NEW a \in Accepters, AcceptNext(a)
    PROVE  /\ accept' \in [Accepters -> AcceptState]
           /\ \A b \in Accepters \ {a} : accept'[b] = accept[b]
           /\ \/ accept'[a].pc \in {"idle", "already"}
              \/ /\ Stored(accept'[a].id)
                 /\ accept'[a].pc \in {"expire", "member"}
                 /\ accept'[a].pc = "member" =>
                       invitations[accept'[a].id].email = accept'[a].user
              \/ /\ accept[a].pc \in {"member", "limit", "add"}
                 /\ accept'[a].user = accept[a].user /\ accept'[a].id = accept[a].id
                 /\ accept'[a].pc \in {"limit", "add", "store"}
                 /\ accept'[a].pc = "store" =>
                       members' = [members EXCEPT ![accept[a].user] = AddedRole(a)]
           /\ UNCHANGED <<accounts, late, invite>>
  <1> USE DEF TypeOK
  <1> DEFINE Goal ==
         /\ accept' \in [Accepters -> AcceptState]
         /\ \A b \in Accepters \ {a} : accept'[b] = accept[b]
         /\ \/ accept'[a].pc \in {"idle", "already"}
            \/ /\ Stored(accept'[a].id)
               /\ accept'[a].pc \in {"expire", "member"}
               /\ accept'[a].pc = "member" =>
                     invitations[accept'[a].id].email = accept'[a].user
            \/ /\ accept[a].pc \in {"member", "limit", "add"}
               /\ accept'[a].user = accept[a].user /\ accept'[a].id = accept[a].id
               /\ accept'[a].pc \in {"limit", "add", "store"}
               /\ accept'[a].pc = "store" =>
                     members' = [members EXCEPT ![accept[a].user] = AddedRole(a)]
         /\ UNCHANGED <<accounts, late, invite>>
  <1>1. IdleAccept \in AcceptState /\ IdleAccept.pc = "idle"
    BY MembershipsAssumption DEF IdleAccept, AcceptState
  <1>2. ASSUME NEW u \in Users, NEW id \in Invitations, AcceptLoad(a, u, id)
        PROVE  Goal
    <2>1. [pc |-> IF id \in late THEN "expire" ELSE "member", user |-> u, id |-> id]
             \in AcceptState
      BY DEF AcceptState
    <2>2. accept'[a] =
             [pc |-> IF id \in late THEN "expire" ELSE "member", user |-> u, id |-> id]
      BY <1>2 DEF AcceptLoad
    <2>3. accept'[a].id = id /\ accept'[a].user = u
          /\ accept'[a].pc = IF id \in late THEN "expire" ELSE "member"
      BY <2>2
    <2>4. accept' \in [Accepters -> AcceptState]
          /\ \A b \in Accepters \ {a} : accept'[b] = accept[b]
      BY <1>2, <2>1 DEF AcceptLoad
    <2>5. invitations[id].status = "pending"
          /\ (id \notin late => invitations[id].email = u)
          /\ UNCHANGED <<accounts, late, invite>>
      BY <1>2 DEF AcceptLoad
    <2> QED
      BY <2>3, <2>4, <2>5 DEF Stored
  <1>3. ASSUME AcceptEnds(a)
        PROVE  /\ accept' \in [Accepters -> AcceptState]
               /\ \A b \in Accepters \ {a} : accept'[b] = accept[b]
               /\ accept'[a].pc = "idle"
    BY <1>1, <1>3 DEF AcceptEnds
  <1>4. ASSUME NEW pc \in {"already", "limit", "add", "store"}, AcceptGoesOn(a, pc),
               accept[a].pc \notin {"idle", "already"}
        PROVE  /\ accept' \in [Accepters -> AcceptState]
               /\ \A b \in Accepters \ {a} : accept'[b] = accept[b]
               /\ accept'[a].user = accept[a].user /\ accept'[a].id = accept[a].id
               /\ accept'[a].pc = pc
    <2>1. /\ [accept[a] EXCEPT !.pc = pc] \in AcceptState
          /\ [accept[a] EXCEPT !.pc = pc].user = accept[a].user
          /\ [accept[a] EXCEPT !.pc = pc].id = accept[a].id
          /\ [accept[a] EXCEPT !.pc = pc].pc = pc
      BY <1>4 DEF AcceptState
    <2>2. accept' = [accept EXCEPT ![a] = [accept[a] EXCEPT !.pc = pc]]
      BY <1>4 DEF AcceptGoesOn
    <2> QED
      BY <2>1, <2>2
  <1>5. CASE AcceptExpire(a) \/ AcceptStore(a) \/ AcceptDies(a)
    BY <1>3, <1>5 DEF AcceptExpire, AcceptStore, AcceptDies
  <1>6. CASE AcceptCheckMember(a)
    BY <1>4, <1>6 DEF AcceptCheckMember
  <1>7. CASE AcceptCheckLimit(a)
    BY <1>3, <1>4, <1>7 DEF AcceptCheckLimit
  <1>8. CASE AcceptAdd(a)
    BY <1>3, <1>4, <1>8 DEF AcceptAdd
  <1> QED
    BY <1>2, <1>5, <1>6, <1>7, <1>8 DEF AcceptNext

LEMMA MayStays ==
    ASSUME IInv, [Next]_vars, NEW u \in Users, NEW role, MayInvite(members[u], role)
    PROVE  MayInvite(members'[u], role)
  <1>1. members'[u] = members[u]
    BY MembersStay DEF MayInvite
  <1> QED
    BY <1>1

LEMMA InvitersStay ==
    ASSUME IInv, [Next]_vars
    PROVE  InvitersMay'
  <1> SUFFICES ASSUME NEW i \in Inviters, invite'[i].pc # "idle"
               PROVE  MayInvite(members'[invite'[i].actor], invite'[i].role)
    BY DEF InvitersMay, MayInvite
  <1>1. invite[i].actor \in Users
    BY DEF IInv, TypeOK, InviteState
  <1>2. ASSUME invite[i].pc # "idle"
        PROVE  MayInvite(members'[invite[i].actor], invite[i].role)
    BY <1>1, <1>2, MayStays DEF IInv, InvitersMay
  <1>3. CASE invite'[i] = invite[i]
    BY <1>2, <1>3
  <1>4. CASE InviteNext(i)
    BY <1>2, <1>4, InviteMoves DEF IInv
  <1>5. ASSUME NEW j \in Inviters, j # i, InviteNext(j) PROVE invite'[i] = invite[i]
    BY <1>5, InviteMoves DEF IInv
  <1>6. UNCHANGED invite \/ \E j \in Inviters : InviteNext(j)
    BY AcceptMoves DEF Next, Register, BecomesLate, vars, IInv
  <1> QED
    BY <1>3, <1>4, <1>5, <1>6

LEMMA InvitationsStayAllowed ==
    ASSUME IInv, [Next]_vars
    PROVE  InvitationsAreAllowed'
  <1> SUFFICES ASSUME NEW id \in Invitations, invitations'[id].status # "none"
               PROVE  /\ invitations'[id].role # "owner"
                      /\ MayInvite(members'[invitations'[id].inviter], invitations'[id].role)
    BY DEF InvitationsAreAllowed, MayInvite
  <1>1. CASE Stored(id)
    <2>1. /\ invitations'[id].role = invitations[id].role
          /\ invitations'[id].inviter = invitations[id].inviter
      BY <1>1, InvitationsStay
    <2>2. invitations[id].inviter \in Users
      BY <1>1, RowFields DEF Stored, IInv, TypeOK
    <2>3. MayInvite(members'[invitations[id].inviter], invitations[id].role)
      BY <1>1, <2>2, MayStays DEF Stored, IInv, InvitationsAreAllowed
    <2> QED
      BY <1>1, <2>1, <2>3 DEF Stored, IInv, InvitationsAreAllowed
  <1>2. CASE ~Stored(id)
    <2>1. PICK i \in Inviters : /\ invite[i].pc # "idle"
                                /\ invitations'[id].role = invite[i].role
                                /\ invitations'[id].inviter = invite[i].actor
                                /\ invite[i].role # "owner"
      BY <1>2, InvitationsStay DEF Stored
    <2>2. invite[i].actor \in Users
      BY DEF IInv, TypeOK, InviteState
    <2>3. MayInvite(members'[invite[i].actor], invite[i].role)
      BY <2>1, <2>2, MayStays DEF IInv, InvitersMay
    <2> QED
      BY <2>1, <2>3
  <1> QED
    BY <1>1, <1>2

LEMMA AcceptsStay ==
    ASSUME IInv, [Next]_vars
    PROVE  AcceptsItsOwn'
  <1> DEFINE Own(a) ==
         /\ accept[a].pc \notin {"idle", "already"} =>
                invitations[accept[a].id].status # "none"
         /\ accept[a].pc \in {"member", "limit", "add", "store"} =>
                invitations[accept[a].id].email = accept[a].user
         /\ accept[a].pc = "store" =>
                members[accept[a].user] = invitations[accept[a].id].role
  <1> SUFFICES ASSUME NEW a \in Accepters PROVE Own(a)'
    BY DEF AcceptsItsOwn
  <1>1. Own(a) /\ accept[a].user \in Users
        /\ (accept[a].pc \notin {"idle", "already"} => accept[a].id \in Invitations)
    BY AcceptFields DEF IInv, AcceptsItsOwn
  <1>2. ASSUME accept[a].pc = "store"
        PROVE  members'[accept[a].user] = members[accept[a].user]
    <2>1. members[accept[a].user] # "none"
      BY <1>1, <1>2, RowFields DEF IInv, TypeOK, Roles
    <2> QED
      BY <1>1, <2>1, MembersStay
  <1>3. CASE accept'[a] = accept[a]
    BY <1>1, <1>2, <1>3, InvitationsStay DEF Stored
  <1>4. CASE AcceptNext(a)
    <2>1. CASE accept'[a].pc \in {"idle", "already"}
      BY <2>1
    <2>2. CASE /\ Stored(accept'[a].id)
               /\ accept'[a].pc \in {"expire", "member"}
               /\ accept'[a].pc = "member" =>
                     invitations[accept'[a].id].email = accept'[a].user
      <3>1. accept'[a].id \in Invitations
        BY <1>4, <2>2, AcceptMoves DEF IInv, AcceptState
      <3> QED
        BY <2>2, <3>1, InvitationsStay
    <2>3. CASE /\ accept[a].pc \in {"member", "limit", "add"}
               /\ accept'[a].user = accept[a].user /\ accept'[a].id = accept[a].id
               /\ accept'[a].pc \in {"limit", "add", "store"}
               /\ accept'[a].pc = "store" =>
                     members' = [members EXCEPT ![accept[a].user] = AddedRole(a)]
      <3>1. /\ accept[a].id \in Invitations /\ Stored(accept[a].id)
            /\ invitations[accept[a].id].email = accept[a].user
        BY <1>1, <2>3 DEF Stored
      <3>2. /\ invitations'[accept[a].id].status # "none"
            /\ invitations'[accept[a].id].email = accept[a].user
            /\ invitations'[accept[a].id].role = invitations[accept[a].id].role
        BY <3>1, InvitationsStay
      <3>3. accept'[a].pc = "store" =>
               members'[accept[a].user] = invitations[accept[a].id].role
        BY <1>1, <2>3 DEF AddedRole, IInv, TypeOK
      <3> QED
        BY <2>3, <3>2, <3>3
    <2> QED
      BY <1>4, <2>1, <2>2, <2>3, AcceptMoves DEF IInv
  <1>5. ASSUME NEW b \in Accepters, b # a, AcceptNext(b) PROVE accept'[a] = accept[a]
    BY <1>5, AcceptMoves DEF IInv
  <1>6. UNCHANGED accept \/ \E b \in Accepters : AcceptNext(b)
    BY InviteMoves DEF Next, Register, BecomesLate, vars, IInv
  <1> QED
    BY <1>3, <1>4, <1>5, <1>6

LEMMA TypeStep ==
    ASSUME IInv, [Next]_vars
    PROVE  TypeOK'
  <1>1. members' \in [Users -> Roles \cup {"none"}]
        /\ invitations' \in [Invitations -> InvitationRow]
    BY MembersStay, InvitationsStay
  <1>2. ASSUME NEW i \in Inviters, InviteNext(i) PROVE TypeOK'
    BY <1>1, <1>2, InviteMoves DEF IInv, TypeOK
  <1>3. ASSUME NEW a \in Accepters, AcceptNext(a) PROVE TypeOK'
    BY <1>1, <1>3, AcceptMoves DEF IInv, TypeOK
  <1>4. CASE (\E u \in Users : Register(u)) \/ (\E id \in Invitations : BecomesLate(id))
             \/ UNCHANGED vars
    BY <1>1, <1>4 DEF Register, BecomesLate, vars, IInv, TypeOK
  <1> QED
    BY <1>2, <1>3, <1>4 DEF Next

LEMMA InvStep ==
    ASSUME IInv, [Next]_vars
    PROVE  IInv'
  BY TypeStep, InvitersStay, InvitationsStayAllowed, AcceptsStay DEF IInv
--------------------------------------------------------------------------------
LEMMA Invariance == Spec => []IInv
  BY InitHolds, InvStep, PTL DEF Spec

(***************************************************************************)
(* Type correctness: whatever requests run, the tables and the requests    *)
(* hold values of their kinds, and an acceptance past its first check      *)
(* names an invitation.                                                    *)
(***************************************************************************)
THEOREM TypeCorrect == Spec => []TypeOK
  <1>1. IInv => TypeOK
    BY DEF IInv
  <1> QED
    BY <1>1, Invariance, PTL

(***************************************************************************)
(* W-1: the founder is the one owner for ever, for an acceptance only adds *)
(* members, and no invitation can be stored that names the role of owner.  *)
(***************************************************************************)
THEOREM OneOwnerHolds == Spec => []OneOwner
  <1>1. Init => OneOwner
    BY MembershipsAssumption DEF Init, OneOwner
  <1>2. IInv /\ OneOwner /\ [Next]_vars => OneOwner'
    <2> SUFFICES ASSUME IInv, OneOwner, [Next]_vars, NEW u \in Users
                 PROVE  members'[u] = "owner" <=> u = Founder
      BY DEF OneOwner
    <2>1. CASE members'[u] = members[u]
      BY <2>1 DEF OneOwner
    <2>2. CASE members'[u] # members[u]
      <3>1. members'[u] # "owner"
        BY <2>2, MembersStay DEF Stored, IInv, InvitationsAreAllowed
      <3>2. u # Founder
        BY <2>2, MembersStay, MembershipsAssumption DEF OneOwner
      <3> QED
        BY <3>1, <3>2
    <2> QED
      BY <2>1, <2>2
  <1> QED
    BY <1>1, <1>2, Invariance, PTL DEF Spec

(***************************************************************************)
(* An accepted invitation has made its invitee a member with the role it   *)
(* names: the status is written after the insertion of the very request    *)
(* that writes it, and the unique index lets no other row replace it.      *)
(***************************************************************************)
THEOREM AcceptedGaveItsRoleHolds == Spec => []AcceptedGaveItsRole
  <1>1. Init => AcceptedGaveItsRole
    BY DEF Init, AcceptedGaveItsRole, NoInvitation
  <1>2. IInv /\ AcceptedGaveItsRole /\ [Next]_vars => AcceptedGaveItsRole'
    <2> SUFFICES ASSUME IInv, AcceptedGaveItsRole, [Next]_vars,
                        NEW id \in Invitations, invitations'[id].status = "accepted"
                 PROVE  members'[invitations'[id].email] = invitations'[id].role
      BY DEF AcceptedGaveItsRole
    <2>1. /\ Stored(id)
          /\ members[invitations[id].email] = invitations[id].role
      <3>1. CASE invitations[id].status = "accepted"
        BY <3>1 DEF AcceptedGaveItsRole, Stored
      <3>2. CASE \E a \in Accepters : accept[a].pc = "store" /\ accept[a].id = id
        BY <3>2 DEF IInv, AcceptsItsOwn, Stored
      <3> QED
        BY <3>1, <3>2, InvitationsStay
    <2>2. /\ invitations[id].email \in Users
          /\ invitations[id].role \in Roles
      BY <2>1, RowFields DEF Stored, IInv, TypeOK
    <2>3. members'[invitations[id].email] = invitations[id].role
      BY <2>1, <2>2, MembersStay DEF Roles
    <2> QED
      BY <2>1, <2>3, InvitationsStay
  <1> QED
    BY <1>1, <1>2, Invariance, PTL DEF Spec

(***************************************************************************)
(* WS-06 along chains of invitations: who joins takes the role of a stored *)
(* invitation, whose inviter was allowed to make it and keeps his role.    *)
(***************************************************************************)
THEOREM RoleWithinInvitersHolds == Spec => []RoleWithinInviters
  <1> DEFINE Joined(u) == \E id \in Invitations : /\ Stored(id)
                                                   /\ invitations[id].email = u
                                                   /\ invitations[id].role = members[u]
             Inv == \A u \in Users \ {Founder} : members[u] # "none" => Joined(u)
  <1>1. Init => Inv
    BY DEF Init
  <1>2. IInv /\ Inv /\ [Next]_vars => Inv'
    <2> SUFFICES ASSUME IInv, Inv, [Next]_vars,
                        NEW u \in Users \ {Founder}, members'[u] # "none"
                 PROVE  Joined(u)'
      OBVIOUS
    <2>1. PICK id \in Invitations : /\ Stored(id)
                                    /\ invitations[id].email = u
                                    /\ invitations[id].role = members'[u]
      BY MembersStay
    <2> QED
      BY <2>1, InvitationsStay DEF Stored
  <1>3. IInv /\ Inv => RoleWithinInviters
    BY DEF IInv, InvitationsAreAllowed, MayInvite, RoleWithinInviters, Stored
  <1> QED
    BY <1>1, <1>2, <1>3, Invariance, PTL DEF Spec
--------------------------------------------------------------------------------
(***************************************************************************)
(* Delegation: the insertion of a member is a Join, for the inviter of the *)
(* invitation it comes from may still hand out the role it names.          *)
(***************************************************************************)
THEOREM DelegationImplemented == Spec => ImplementsDelegation
  <1>1. Init => Del!Init
    BY DEF Init, Del!Init
  <1>2. ASSUME IInv, [Next]_vars PROVE [Del!Next]_members
    <2>1. CASE UNCHANGED members
      BY <2>1
    <2>2. ASSUME NEW a \in Accepters, accept[a].pc = "add",
                 members[accept[a].user] = "none",
                 members' = [members EXCEPT ![accept[a].user] = AddedRole(a)]
          PROVE  Del!Next
      <3> DEFINE id == accept[a].id
                 role == invitations[id].role
                 inviter == invitations[id].inviter
      <3>1. accept[a].user \in Users /\ id \in Invitations
            /\ invitations[id].status # "none"
        BY <1>2, <2>2, AcceptFields DEF IInv, AcceptsItsOwn
      <3>2. role \in Roles /\ inviter \in Users
        BY <1>2, <3>1, RowFields DEF IInv, TypeOK
      <3>3. role # "owner" /\ MayInvite(members[inviter], role)
        BY <1>2, <3>1 DEF IInv, InvitationsAreAllowed
      <3>4. Del!MayHandOut(members[inviter], role)
        BY <3>3 DEF MayInvite, IsAtLeast, Level, Del!MayHandOut, Del!IsAtLeast, Del!Level
      <3>5. members' = [members EXCEPT ![accept[a].user] = role]
        BY <2>2 DEF AddedRole
      <3>6. Del!Join(accept[a].user, role)
        BY <2>2, <3>2, <3>3, <3>4, <3>5 DEF Del!Join
      <3> QED
        BY <3>1, <3>2, <3>6 DEF Del!Next, Del!Roles, Roles
    <2> QED
      BY <1>2, <2>1, <2>2, MemberSteps
  <1> QED
    BY <1>1, <1>2, Invariance, PTL DEF Spec, ImplementsDelegation, Del!Spec

LEMMA AlreadySteps ==
    ASSUME TypeOK, Absent = "ErrNotFound",
           NEW a \in Accepters, AcceptNext(a), accept'[a].pc = "already"
    PROVE  accept'[a].user = accept[a].user /\ members[accept[a].user] # "none"
  <1>1. accept \in [Accepters -> AcceptState]
    BY DEF TypeOK
  <1>2. ASSUME AcceptEnds(a) PROVE FALSE
    BY <1>1, <1>2 DEF AcceptEnds, IdleAccept
  <1>3. ASSUME NEW pc \in {"already", "limit", "add", "store"}, AcceptGoesOn(a, pc)
        PROVE  accept'[a].pc = pc /\ accept'[a].user = accept[a].user
    <2>1. /\ [accept[a] EXCEPT !.pc = pc].pc = pc
          /\ [accept[a] EXCEPT !.pc = pc].user = accept[a].user
      BY <1>1 DEF AcceptState
    <2>2. accept'[a] = [accept[a] EXCEPT !.pc = pc]
      BY <1>1, <1>3 DEF AcceptGoesOn
    <2> QED
      BY <2>1, <2>2
  <1>4. ASSUME NEW u \in Users, NEW id \in Invitations, AcceptLoad(a, u, id) PROVE FALSE
    BY <1>1, <1>4 DEF AcceptLoad
  <1>5. ASSUME AcceptExpire(a) \/ AcceptStore(a) \/ AcceptDies(a) PROVE FALSE
    BY <1>2, <1>5 DEF AcceptExpire, AcceptStore, AcceptDies
  <1>6. CASE AcceptCheckMember(a)
    BY <1>3, <1>6 DEF AcceptCheckMember, SeenAsMember
  <1>7. ASSUME AcceptCheckLimit(a) \/ AcceptAdd(a) PROVE FALSE
    BY <1>2, <1>3, <1>7 DEF AcceptCheckLimit, AcceptAdd
  <1> QED
    BY <1>4, <1>5, <1>6, <1>7 DEF AcceptNext

(***************************************************************************)
(* ALREADY_MEMBER is told to members only, as long as the repository       *)
(* answers an absent row the way the port asks.                            *)
(***************************************************************************)
THEOREM AlreadyMemberMeansMemberHolds ==
    ASSUME Absent = "ErrNotFound"
    PROVE  Spec => []AlreadyMemberMeansMember
  <1>1. Init => AlreadyMemberMeansMember
    BY DEF Init, IdleAccept, AlreadyMemberMeansMember
  <1>2. ASSUME IInv, AlreadyMemberMeansMember, [Next]_vars
        PROVE  AlreadyMemberMeansMember'
    <2> SUFFICES ASSUME NEW a \in Accepters, accept'[a].pc = "already"
                 PROVE  members'[accept'[a].user] # "none"
      BY DEF AlreadyMemberMeansMember
    <2>1. accept'[a].user = accept[a].user /\ members[accept[a].user] # "none"
      <3>1. CASE accept'[a] = accept[a]
        BY <1>2, <3>1 DEF AlreadyMemberMeansMember
      <3>2. CASE AcceptNext(a)
        BY <1>2, <3>2, AlreadySteps DEF IInv
      <3>3. ASSUME NEW b \in Accepters, b # a, AcceptNext(b)
            PROVE  accept'[a] = accept[a]
        BY <1>2, <3>3, AcceptMoves DEF IInv
      <3>4. UNCHANGED accept \/ \E b \in Accepters : AcceptNext(b)
        BY <1>2, InviteMoves DEF Next, Register, BecomesLate, vars, IInv
      <3> QED
        BY <3>1, <3>2, <3>3, <3>4
    <2>2. accept[a].user \in Users
      BY <1>2, AcceptFields DEF IInv
    <2>3. members'[accept[a].user] = members[accept[a].user]
      BY <1>2, <2>1, <2>2, MembersStay
    <2> QED
      BY <2>1, <2>3
  <1> QED
    BY <1>1, <1>2, Invariance, PTL DEF Spec
--------------------------------------------------------------------------------
(***************************************************************************)
(* The two sentences the races break, proved for the behaviours without    *)
(* them: a request past its search is alone with the address, and what it  *)
(* has found stays so.                                                     *)
(***************************************************************************)
Searching(i) == invite[i].pc \in {"lookup", "member", "create"}

PendingFor(email) ==
    \E id \in Invitations : /\ invitations[id].status = "pending"
                            /\ invitations[id].email = email

FoundNone == \A i \in Inviters : Searching(i) => ~PendingFor(invite[i].email)

LEMMA SearchMoves ==
    ASSUME TypeOK, NEW i \in Inviters, InviteNext(i), Searching(i)'
    PROVE  /\ invite'[i].email = invite[i].email
           /\ Searching(i) \/ ~PendingFor(invite[i].email)
           /\ UNCHANGED invitations
  <1>1. ASSUME NEW ok \in BOOLEAN, NEW pc \in {"list", "lookup", "member", "create"},
               InviteGoesOn(i, ok, pc)
        PROVE  /\ invite'[i].pc \in {"idle", pc}
               /\ invite'[i].pc = pc => ok /\ invite'[i].email = invite[i].email
    <2>1. invite[i] \in InviteState /\ invite \in [Inviters -> InviteState]
      BY DEF TypeOK
    <2>2. /\ [invite[i] EXCEPT !.pc = pc].pc = pc
          /\ [invite[i] EXCEPT !.pc = pc].email = invite[i].email
      BY <2>1 DEF InviteState
    <2>3. CASE ok
      <3>1. invite'[i] = [invite[i] EXCEPT !.pc = pc]
        BY <1>1, <2>1, <2>3 DEF InviteGoesOn
      <3> QED
        BY <2>2, <2>3, <3>1
    <2>4. CASE ~ok
      <3>1. invite'[i] = IdleInvite
        BY <1>1, <2>1, <2>4 DEF InviteGoesOn
      <3> QED
        BY <3>1 DEF IdleInvite
    <2> QED
      BY <2>3, <2>4
  <1>2. invite \in [Inviters -> InviteState]
    BY DEF TypeOK
  <1>3. ASSUME InviteCheckLimit(i) PROVE FALSE
    <2>1. CheckMemberLimit \in BOOLEAN /\ InviteGoesOn(i, CheckMemberLimit, "list")
      BY <1>3 DEF InviteCheckLimit, CheckMemberLimit
    <2>2. invite'[i].pc \in {"idle", "list"}
      BY <1>1, <2>1
    <2> QED
      BY <2>2 DEF Searching
  <1>4. CASE InviteList(i)
    <2> DEFINE ok == ~ \E id \in Invitations :
                           /\ invitations[id].email = invite[i].email
                           /\ invitations[id].status = "pending"
    <2>1. ok \in BOOLEAN /\ InviteGoesOn(i, ok, "lookup") /\ UNCHANGED invitations
      BY <1>4 DEF InviteList
    <2>2. ok => ~PendingFor(invite[i].email)
      BY DEF PendingFor
    <2> HIDE DEF ok
    <2>3. /\ invite'[i].pc \in {"idle", "lookup"}
          /\ invite'[i].pc = "lookup" => ok /\ invite'[i].email = invite[i].email
      BY <1>1, <2>1
    <2> QED
      BY <2>1, <2>2, <2>3 DEF Searching
  <1>5. CASE InviteLookup(i)
    <2>1. \/ InviteGoesOn(i, TRUE, "member")
          \/ InviteGoesOn(i, TRUE, "create")
      BY <1>5 DEF InviteLookup
    <2>2. invite[i].pc = "lookup" /\ UNCHANGED invitations
      BY <1>5 DEF InviteLookup
    <2> QED
      BY <1>1, <2>1, <2>2 DEF Searching
  <1>6. CASE InviteCheckMember(i)
    <2> DEFINE unseen == ~SeenAsMember(invite[i].email)
    <2>1. unseen \in BOOLEAN
      BY DEF SeenAsMember
    <2>2. InviteGoesOn(i, unseen, "create") \/ InviteGoesOn(i, TRUE, "create")
      BY <1>6 DEF InviteCheckMember
    <2>3. invite[i].pc = "member" /\ UNCHANGED invitations
      BY <1>6 DEF InviteCheckMember
    <2> HIDE DEF unseen
    <2> QED
      BY <1>1, <2>1, <2>2, <2>3 DEF Searching
  <1>7. ASSUME NEW actor \in Users, NEW email \in Users, NEW role \in InvitedRoles,
               InviteLoad(i, actor, email, role)
        PROVE  FALSE
    BY <1>2, <1>7 DEF InviteLoad, Searching
  <1>8. ASSUME NEW id \in Invitations, InviteCreate(i, id) PROVE FALSE
    BY <1>2, <1>8 DEF InviteCreate, IdleInvite, Searching
  <1>9. ASSUME InviteDies(i) PROVE FALSE
    BY <1>2, <1>9 DEF InviteDies, IdleInvite, Searching
  <1> QED
    BY <1>3, <1>4, <1>5, <1>6, <1>7, <1>8, <1>9 DEF InviteNext

\* A pending invitation was so already, or is made by a request past its search.
LEMMA PendingSteps ==
    ASSUME IInv, [Next]_vars, NEW id \in Invitations, invitations'[id].status = "pending"
    PROVE  \/ /\ invitations[id].status = "pending"
              /\ invitations'[id].email = invitations[id].email
           \/ \E i \in Inviters :
                 /\ Creates(i, id)
                 /\ Searching(i)
                 /\ invitations'[id].email = invite[i].email
                 /\ \A r \in Invitations \ {id} : invitations'[r] = invitations[r]
  <1>1. CASE UNCHANGED invitations
    BY <1>1
  <1>2. ASSUME NEW i \in Inviters, NEW new \in Invitations, Creates(i, new)
        PROVE  \/ /\ invitations[id].status = "pending"
                  /\ invitations'[id].email = invitations[id].email
               \/ /\ new = id
                  /\ Searching(i)
                  /\ invitations'[id].email = invite[i].email
                  /\ \A r \in Invitations \ {id} : invitations'[r] = invitations[r]
    BY <1>2 DEF Creates, Searching, IInv, TypeOK
  <1>3. ASSUME NEW a \in Accepters, NEW status \in {"accepted", "expired"},
               accept[a].pc = (IF status = "accepted" THEN "store" ELSE "expire"),
               StoreStatus(a, status)
        PROVE  invitations'[id] = invitations[id]
    <2> DEFINE row == invitations[accept[a].id]
    <2>1. accept[a].id \in Invitations /\ row \in InvitationRow /\ row.status # "none"
      BY <1>3, AcceptFields DEF IInv, AcceptsItsOwn, TypeOK
    <2>2. [row EXCEPT !.status = status].status = status
      BY <2>1, StatusKeepsRow
    <2>3. invitations' = [invitations EXCEPT ![accept[a].id] =
                              [row EXCEPT !.status = status]]
      BY <1>3 DEF StoreStatus
    <2> HIDE DEF row
    <2> QED
      BY <1>3, <2>1, <2>2, <2>3 DEF IInv, TypeOK
  <1> QED
    BY <1>1, <1>2, <1>3, InvitationSteps

(***************************************************************************)
(* One pending invitation per address, in every behaviour in which no two  *)
(* requests invite one address from the look for a pending one to the      *)
(* insertion: nothing else breaks the sentence, no failure and no death.   *)
(***************************************************************************)
THEOREM OnePendingUnlessRaced == Spec /\ []InvitedApart => []OnePendingInvitation
  <1> DEFINE Inv == FoundNone /\ OnePendingInvitation
  <1>1. Init => Inv
    BY DEF Init, FoundNone, OnePendingInvitation, Searching, IdleInvite, NoInvitation
  <1>2. ASSUME IInv, Inv, InvitedApart, InvitedApart', [Next]_vars PROVE Inv'
    <2>1. ASSUME NEW i \in Inviters, Searching(i)' PROVE ~PendingFor(invite[i].email)'
      <3>1. /\ invite'[i].email = invite[i].email
            /\ ~PendingFor(invite[i].email)
            /\ invite'[i] = invite[i] \/ UNCHANGED invitations
        <4>1. CASE invite'[i] = invite[i]
          BY <1>2, <2>1, <4>1 DEF FoundNone, Searching
        <4>2. CASE InviteNext(i)
          BY <1>2, <2>1, <4>2, SearchMoves DEF FoundNone, IInv
        <4>3. ASSUME NEW j \in Inviters, j # i, InviteNext(j) PROVE invite'[i] = invite[i]
          BY <1>2, <4>3, InviteMoves DEF IInv
        <4>4. UNCHANGED invite \/ \E j \in Inviters : InviteNext(j)
          BY <1>2, AcceptMoves DEF Next, Register, BecomesLate, vars, IInv
        <4> QED
          BY <4>1, <4>2, <4>3, <4>4
      <3>2. SUFFICES ASSUME NEW id \in Invitations, invitations'[id].status = "pending",
                            invitations'[id].email = invite[i].email
                     PROVE  FALSE
        BY <3>1 DEF PendingFor
      <3>3. invitations[id].status # "pending" \/ invitations[id].email # invite[i].email
        BY <3>1 DEF PendingFor
      <3>4. PICK j \in Inviters : /\ Creates(j, id)
                                  /\ Searching(j)
                                  /\ invitations'[id].email = invite[j].email
        BY <1>2, <3>2, <3>3, PendingSteps
      <3>5. invitations'[id] # invitations[id]
        BY <3>2, <3>3, <3>1
      <3>6. Searching(i)
        BY <2>1, <3>1, <3>5 DEF Searching
      <3>7. i = j
        BY <1>2, <3>2, <3>4, <3>6 DEF InvitedApart, Searching
      <3>8. invite'[i].pc = "idle"
        BY <1>2, <3>4, <3>7 DEF Creates, IdleInvite, IInv, TypeOK
      <3> QED
        BY <2>1, <3>8 DEF Searching
    <2>2. OnePendingInvitation'
      <3> SUFFICES ASSUME NEW r \in Invitations, NEW s \in Invitations,
                          invitations'[r].status = "pending",
                          invitations'[s].status = "pending",
                          invitations'[r].email = invitations'[s].email
                   PROVE  r = s
        BY DEF OnePendingInvitation
      <3>1. ASSUME NEW new \in Invitations, NEW old \in Invitations, NEW i \in Inviters,
                   old # new, Searching(i),
                   invitations'[new].email = invite[i].email,
                   \A k \in Invitations \ {new} : invitations'[k] = invitations[k],
                   invitations'[old].status = "pending",
                   invitations'[new].email = invitations'[old].email
            PROVE  FALSE
        BY <1>2, <3>1 DEF FoundNone, PendingFor
      <3> QED
        BY <1>2, <3>1, PendingSteps DEF OnePendingInvitation
    <2> QED
      BY <2>1, <2>2 DEF FoundNone
  <1>3. Inv => OnePendingInvitation
    OBVIOUS
  <1> QED
    BY <1>1, <1>2, <1>3, Invariance, PTL DEF Spec

\* An acceptance on its way has just read its invitation as pending, or keeps the
\* one it had; and every writing of a status belongs to one on its way.
Answering(a) == accept[a].pc \notin {"idle", "already"}

LEMMA AnsweringMoves ==
    ASSUME TypeOK, NEW a \in Accepters, AcceptNext(a), Answering(a)'
    PROVE  /\ UNCHANGED invitations
           /\ \/ invitations[accept'[a].id].status = "pending"
              \/ Answering(a) /\ accept'[a].id = accept[a].id
  <1>1. accept \in [Accepters -> AcceptState]
    BY DEF TypeOK
  <1>2. ASSUME AcceptEnds(a) PROVE FALSE
    BY <1>1, <1>2 DEF AcceptEnds, IdleAccept, Answering
  <1>3. ASSUME NEW pc \in {"already", "limit", "add", "store"}, AcceptGoesOn(a, pc)
        PROVE  accept'[a].id = accept[a].id /\ accept'[a].pc = pc
    <2>1. /\ [accept[a] EXCEPT !.pc = pc].id = accept[a].id
          /\ [accept[a] EXCEPT !.pc = pc].pc = pc
      BY <1>1 DEF AcceptState
    <2>2. accept'[a] = [accept[a] EXCEPT !.pc = pc]
      BY <1>1, <1>3 DEF AcceptGoesOn
    <2> QED
      BY <2>1, <2>2
  <1>4. ASSUME NEW u \in Users, NEW id \in Invitations, AcceptLoad(a, u, id)
        PROVE  UNCHANGED invitations /\ invitations[accept'[a].id].status = "pending"
    <2>1. accept'[a].id = id
      BY <1>1, <1>4 DEF AcceptLoad
    <2> QED
      BY <1>4, <2>1 DEF AcceptLoad
  <1>5. ASSUME AcceptExpire(a) \/ AcceptStore(a) \/ AcceptDies(a) PROVE FALSE
    BY <1>2, <1>5 DEF AcceptExpire, AcceptStore, AcceptDies
  <1>6. CASE AcceptCheckMember(a)
    BY <1>3, <1>6 DEF AcceptCheckMember, Answering
  <1>7. CASE AcceptCheckLimit(a)
    BY <1>2, <1>3, <1>7 DEF AcceptCheckLimit, Answering
  <1>8. CASE AcceptAdd(a)
    BY <1>2, <1>3, <1>8 DEF AcceptAdd, Answering
  <1> QED
    BY <1>4, <1>5, <1>6, <1>7, <1>8 DEF AcceptNext

AnswersPending ==
    \A a \in Accepters : Answering(a) => invitations[accept[a].id].status = "pending"

(***************************************************************************)
(* SM-05: accepted and expired are final in every behaviour in which no    *)
(* invitation is answered twice at the same time, for then the row an      *)
(* acceptance writes over is the pending one it has read.                  *)
(***************************************************************************)
THEOREM TerminalUnlessRaced == Spec /\ []AcceptedApart => TerminalIsFinal
  <1>1. Init => AnswersPending
    BY DEF Init, AnswersPending, Answering, IdleAccept
  <1>2. ASSUME IInv, AnswersPending, AcceptedApart, [Next]_vars
        PROVE  \A id \in Invitations :
                  invitations[id].status \in {"accepted", "expired"} =>
                     invitations'[id].status = invitations[id].status
    <2> SUFFICES ASSUME NEW id \in Invitations,
                        invitations[id].status \in {"accepted", "expired"}
                 PROVE  invitations'[id] = invitations[id]
      OBVIOUS
    <2>1. CASE UNCHANGED invitations
      BY <2>1
    <2>2. ASSUME NEW i \in Inviters, NEW new \in Invitations, Creates(i, new)
          PROVE  invitations'[id] = invitations[id]
      BY <1>2, <2>2 DEF Creates, IInv, TypeOK
    <2>3. ASSUME NEW a \in Accepters, NEW status \in {"accepted", "expired"},
                 accept[a].pc = (IF status = "accepted" THEN "store" ELSE "expire"),
                 StoreStatus(a, status)
          PROVE  invitations'[id] = invitations[id]
      <3>1. accept[a].id # id
        BY <1>2, <2>3 DEF AnswersPending, Answering
      <3> QED
        BY <1>2, <2>3, <3>1 DEF StoreStatus, IInv, TypeOK
    <2> QED
      BY <1>2, <2>1, <2>2, <2>3, InvitationSteps
  <1>3. ASSUME IInv, AnswersPending, AcceptedApart, AcceptedApart', [Next]_vars
        PROVE  AnswersPending'
    <2> SUFFICES ASSUME NEW a \in Accepters, Answering(a)'
                 PROVE  invitations'[accept'[a].id].status = "pending"
      BY DEF AnswersPending
    <2>0. accept'[a].id \in Invitations
      BY <1>3, TypeStep, AcceptFields DEF Answering, IInv, TypeOK, AcceptState
    <2>1. CASE AcceptNext(a)
      BY <1>3, <2>1, AnsweringMoves DEF AnswersPending, IInv
    <2>2. CASE accept'[a] = accept[a]
      <3>1. Answering(a) /\ invitations[accept[a].id].status = "pending"
        BY <1>3, <2>2 DEF Answering, AnswersPending
      <3>2. CASE UNCHANGED invitations
        BY <2>2, <3>1, <3>2
      <3>3. ASSUME NEW i \in Inviters, NEW new \in Invitations, Creates(i, new)
            PROVE  invitations'[accept[a].id] = invitations[accept[a].id]
        BY <1>3, <2>0, <2>2, <3>1, <3>3 DEF Creates, IInv, TypeOK
      <3>4. ASSUME NEW b \in Accepters, NEW status \in {"accepted", "expired"},
                   accept[b].pc = (IF status = "accepted" THEN "store" ELSE "expire"),
                   StoreStatus(b, status), AcceptEnds(b)
            PROVE  invitations'[accept[a].id] = invitations[accept[a].id]
        <4>1. a # b
          BY <1>3, <2>2, <3>1, <3>4 DEF AcceptEnds, IdleAccept, Answering, IInv, TypeOK
        <4>2. accept[b].id # accept[a].id
          BY <1>3, <3>1, <3>4, <4>1 DEF AcceptedApart, Answering
        <4> QED
          BY <1>3, <2>0, <2>2, <3>4, <4>2 DEF StoreStatus, IInv, TypeOK
      <3> QED
        BY <1>3, <2>2, <3>1, <3>2, <3>3, <3>4, InvitationSteps
    <2>3. ASSUME NEW b \in Accepters, b # a, AcceptNext(b) PROVE accept'[a] = accept[a]
      BY <1>3, <2>3, AcceptMoves DEF IInv
    <2>4. UNCHANGED accept \/ \E b \in Accepters : AcceptNext(b)
      BY <1>3, InviteMoves DEF Next, Register, BecomesLate, vars, IInv
    <2> QED
      BY <2>1, <2>2, <2>3, <2>4
  <1>4. QED
    BY <1>1, <1>2, <1>3, Invariance, PTL DEF Spec, TerminalIsFinal
--------------------------------------------------------------------------------
Joined == {u \in Users : members[u] # "none"}
Adding == {a \in Accepters : accept[a].pc = "add"}

\* The members grow by one, who was about to be added, or the plan is asked for
\* one more request, or a request ends.
LEMMA CountingSteps ==
    ASSUME IInv, [Next]_vars
    PROVE  \/ Joined' = Joined /\ Adding' \in SUBSET Adding
           \/ \E a \in Accepters \ Adding :
                 Joined' = Joined /\ CheckMemberLimit /\ Adding' = Adding \cup {a}
           \/ \E a \in Adding, u \in Users \ Joined :
                 Joined' = Joined \cup {u} /\ Adding' = Adding \ {a}
  <1> DEFINE Goal ==
         \/ Joined' = Joined /\ Adding' \in SUBSET Adding
         \/ \E a \in Accepters \ Adding :
               Joined' = Joined /\ CheckMemberLimit /\ Adding' = Adding \cup {a}
         \/ \E a \in Adding, u \in Users \ Joined :
               Joined' = Joined \cup {u} /\ Adding' = Adding \ {a}
  <1>0. /\ accept \in [Accepters -> AcceptState]
        /\ members \in [Users -> Roles \cup {"none"}]
    BY DEF IInv, TypeOK
  <1>1. ASSUME NEW a \in Accepters, AcceptEnds(a) PROVE Adding' = Adding \ {a}
    BY <1>0, <1>1 DEF AcceptEnds, IdleAccept, Adding
  <1>2. ASSUME NEW a \in Accepters, NEW pc \in {"already", "limit", "add", "store"},
               AcceptGoesOn(a, pc)
        PROVE  Adding' = IF pc = "add" THEN Adding \cup {a} ELSE Adding \ {a}
    <2>1. [accept[a] EXCEPT !.pc = pc].pc = pc
      BY <1>0 DEF AcceptState
    <2>2. accept' = [accept EXCEPT ![a] = [accept[a] EXCEPT !.pc = pc]]
      BY <1>2 DEF AcceptGoesOn
    <2> QED
      BY <1>0, <2>1, <2>2 DEF Adding
  <1>3. ASSUME NEW a \in Accepters, NEW u \in Users, NEW id \in Invitations,
               AcceptLoad(a, u, id)
        PROVE  Goal
    <2>1. accept'[a].pc # "add" /\ (\A b \in Accepters \ {a} : accept'[b] = accept[b])
      BY <1>0, <1>3 DEF AcceptLoad
    <2>2. UNCHANGED members
      BY <1>3 DEF AcceptLoad
    <2> QED
      BY <2>1, <2>2 DEF Joined, Adding
  <1>4. ASSUME NEW a \in Accepters, AcceptExpire(a) \/ AcceptStore(a) \/ AcceptDies(a)
        PROVE  Goal
    <2>1. AcceptEnds(a) /\ UNCHANGED members
      BY <1>4 DEF AcceptExpire, AcceptStore, AcceptDies
    <2> QED
      BY <1>1, <2>1 DEF Joined
  <1>5. ASSUME NEW a \in Accepters, AcceptCheckMember(a) PROVE Goal
    <2>1. UNCHANGED members /\ (AcceptGoesOn(a, "already") \/ AcceptGoesOn(a, "limit"))
      BY <1>5 DEF AcceptCheckMember
    <2>2. Adding' \in SUBSET Adding
      BY <1>2, <2>1
    <2> QED
      BY <2>1, <2>2 DEF Joined
  <1>6. ASSUME NEW a \in Accepters, AcceptCheckLimit(a) PROVE Goal
    <2>1. UNCHANGED members /\ a \notin Adding
      BY <1>6 DEF AcceptCheckLimit, Adding
    <2>2. CASE CheckMemberLimit
      BY <1>2, <1>6, <2>1, <2>2 DEF AcceptCheckLimit, Joined
    <2>3. CASE ~CheckMemberLimit
      BY <1>1, <1>6, <2>1, <2>3 DEF AcceptCheckLimit, Joined
    <2> QED
      BY <2>2, <2>3
  <1>7. ASSUME NEW a \in Accepters, AcceptAdd(a) PROVE Goal
    <2>1. CASE UNCHANGED members /\ AcceptEnds(a)
      BY <1>1, <2>1 DEF Joined
    <2>2. CASE /\ members[accept[a].user] = "none"
               /\ members' = [members EXCEPT ![accept[a].user] = AddedRole(a)]
               /\ AcceptGoesOn(a, "store")
      <3>1. a \in Adding /\ Adding' = Adding \ {a}
        BY <1>2, <1>7, <2>2 DEF AcceptAdd, Adding
      <3>2. accept[a].user \in Users /\ AddedRole(a) \in Roles
        BY <1>7, AcceptFields, RowFields DEF AcceptAdd, AddedRole, IInv, TypeOK
      <3>3. Joined' = Joined \cup {accept[a].user} /\ accept[a].user \in Users \ Joined
        BY <1>0, <2>2, <3>2 DEF Joined, Roles
      <3> QED
        BY <3>1, <3>3
    <2> QED
      BY <1>7, <2>1, <2>2 DEF AcceptAdd
  <1>8. ASSUME NEW i \in Inviters, InviteNext(i) PROVE Goal
    BY <1>8, InviteMoves DEF IInv, Joined, Adding
  <1>9. CASE (\E u \in Users : Register(u)) \/ (\E id \in Invitations : BecomesLate(id))
             \/ UNCHANGED vars
    BY <1>9 DEF Register, BecomesLate, vars, Joined, Adding
  <1> QED
    BY <1>3, <1>4, <1>5, <1>6, <1>7, <1>8, <1>9 DEF Next, AcceptNext

\* The members, and the requests the plan has let through.
OverrunInv ==
    /\ IsFiniteSet(Joined)
    /\ \/ Cardinality(Joined) + Cardinality(Adding) < MemberLimit + Cardinality(Accepters)
       \/ Cardinality(Joined) = 1 /\ Adding = {}

LEMMA OverrunHolds ==
    ASSUME IsFiniteSet(Accepters)
    PROVE  Spec => []OverrunInv
  <1>0. MemberLimit \in Nat /\ Cardinality(Accepters) \in Nat
    BY MembershipsAssumption, FS_CardinalityType
  <1>1. ASSUME Init PROVE OverrunInv
    <2>1. Joined = {Founder} /\ Adding = {}
      BY <1>1, MembershipsAssumption DEF Init, IdleAccept, Joined, Adding
    <2> QED
      BY <2>1, FS_Singleton DEF OverrunInv
  <1>2. ASSUME IInv, OverrunInv, [Next]_vars PROVE OverrunInv'
    <2> DEFINE n == Cardinality(Joined)
               k == Cardinality(Adding)
    <2>0. /\ IsFiniteSet(Adding) /\ IsFiniteSet(Joined)
          /\ n \in Nat /\ k \in Nat
          /\ Adding \in SUBSET Accepters
          /\ k <= Cardinality(Accepters)
      <3>1. Adding \in SUBSET Accepters
        BY DEF Adding
      <3> QED
        BY <1>2, <3>1, FS_Subset, FS_CardinalityType DEF OverrunInv
    <2>1. ASSUME Joined' = Joined, Adding' \in SUBSET Adding PROVE OverrunInv'
      <3>1. Cardinality(Adding') \in Nat /\ Cardinality(Adding') <= k
        BY <2>0, <2>1, FS_Subset, FS_CardinalityType
      <3>2. CASE n = 1 /\ Adding = {}
        BY <1>2, <2>1, <3>2 DEF OverrunInv
      <3>3. CASE n + k < MemberLimit + Cardinality(Accepters)
        BY <1>0, <1>2, <2>0, <2>1, <3>1, <3>3 DEF OverrunInv
      <3> QED
        BY <1>2, <3>2, <3>3 DEF OverrunInv
    <2>2. ASSUME NEW a \in Accepters \ Adding, Joined' = Joined, CheckMemberLimit,
                 Adding' = Adding \cup {a}
          PROVE  OverrunInv'
      <3>1. n < MemberLimit
        BY <2>2 DEF CheckMemberLimit, Joined
      <3>2. Adding' \in SUBSET Accepters
        BY <2>0, <2>2
      <3>3. Cardinality(Adding') \in Nat /\ Cardinality(Adding') <= Cardinality(Accepters)
        BY <3>2, FS_Subset, FS_CardinalityType
      <3> QED
        BY <1>0, <1>2, <2>0, <2>2, <3>1, <3>3 DEF OverrunInv
    <2>3. ASSUME NEW a \in Adding, NEW u \in Users \ Joined,
                 Joined' = Joined \cup {u}, Adding' = Adding \ {a}
          PROVE  OverrunInv'
      <3>1. IsFiniteSet(Joined') /\ Cardinality(Joined') = n + 1
        BY <2>0, <2>3, FS_AddElement
      <3>2. Cardinality(Adding') = k - 1
        BY <2>0, <2>3, FS_RemoveElement
      <3>3. n + k < MemberLimit + Cardinality(Accepters)
        BY <1>2, <2>3 DEF OverrunInv
      <3> QED
        BY <1>0, <2>0, <3>1, <3>2, <3>3 DEF OverrunInv
    <2> QED
      BY <1>2, <2>1, <2>2, <2>3, CountingSteps
  <1> QED
    BY <1>1, <1>2, Invariance, PTL DEF Spec

(***************************************************************************)
(* How far the workspace can outgrow its plan: the acceptances between the *)
(* question to the plan and the insertion, and the members, stay together  *)
(* below the limit and the number of goroutines.                           *)
(***************************************************************************)
THEOREM MemberOverrunHolds ==
    ASSUME IsFiniteSet(Accepters)
    PROVE  Spec => []MemberOverrun
  <1>1. ASSUME OverrunInv PROVE MemberOverrun
    <2> DEFINE n == Cardinality(Joined)
    <2>1. n \in Nat /\ Cardinality(Adding) \in Nat
      <3>1. Adding \in SUBSET Accepters
        BY DEF Adding
      <3> QED
        BY <1>1, <3>1, FS_Subset, FS_CardinalityType DEF OverrunInv
    <2>2. MemberLimit \in Nat /\ Cardinality(Accepters) \in Nat
      BY MembershipsAssumption, FS_CardinalityType
    <2>3. n <= 1 \/ n < MemberLimit + Cardinality(Accepters)
      BY <1>1, <2>1, <2>2 DEF OverrunInv
    <2> QED
      BY <2>3 DEF MemberOverrun, Joined
  <1> QED
    BY <1>1, OverrunHolds, PTL

(***************************************************************************)
(* M-5 as the comment states it, for a plan that has room for the founder  *)
(* and acceptances that come one after the other.                          *)
(***************************************************************************)
THEOREM MemberLimitKeptAlone ==
    ASSUME Cardinality(Accepters) = 1, IsFiniteSet(Accepters), MemberLimit >= 1
    PROVE  Spec => []MemberLimitKept
  <1>1. ASSUME OverrunInv PROVE MemberLimitKept
    <2> DEFINE n == Cardinality(Joined)
    <2>1. n \in Nat /\ Cardinality(Adding) \in Nat
      <3>1. Adding \in SUBSET Accepters
        BY DEF Adding
      <3> QED
        BY <1>1, <3>1, FS_Subset, FS_CardinalityType DEF OverrunInv
    <2>2. MemberLimit \in Nat
      BY MembershipsAssumption
    <2>3. n <= MemberLimit
      BY <1>1, <2>1, <2>2 DEF OverrunInv
    <2> QED
      BY <2>3 DEF MemberLimitKept, Joined
  <1> QED
    BY <1>1, OverrunHolds, PTL
================================================================================
