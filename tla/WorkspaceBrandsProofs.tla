------------------------- MODULE WorkspaceBrandsProofs -------------------------
(***************************************************************************)
(* Proofs about WorkspaceBrands, for any members, brands and goroutines    *)
(* and for both readings of the store.                                     *)
(***************************************************************************)
EXTENDS WorkspaceBrands, TLAPS

(***************************************************************************)
(* The permission of a running assignment is older than its insertion.     *)
(* What makes it last is that owned, which a revocation leaves alone,      *)
(* holds whoever is or was an owner of the brand.                          *)
(***************************************************************************)
GrantersMay ==
    \A g \in Granters : grant[g].pc = "save" /\ grant[g].op = "assign" =>
        grant[g].actor = Owner \/ <<grant[g].brand, grant[g].actor>> \in owned

OwnersAreRecorded ==
    \A b \in Brands, m \in Members : assigned[b][m].role = "owner" => <<b, m>> \in owned

IInv ==
    /\ TypeOK
    /\ GrantersMay
    /\ OwnersAreRecorded
    /\ AssignedByAnOwner

LEMMA IdleTypes ==
    /\ NewWorkspace \in WorkspaceRow
    /\ NoBrand \in BrandRow
    /\ NoAssignment \in Assignment
    /\ IdleCreate \in CreateState
    /\ IdleEdit \in EditState
    /\ IdleGrant \in GrantState
    /\ IdleUpdate \in UpdateState
    /\ IdleDelete \in DeleteState
  <1>1. AnyName \in Names
    BY WorkspaceBrandsAssumption DEF AnyName
  <1>2. NewWorkspace \in WorkspaceRow /\ NoBrand \in BrandRow
    BY <1>1 DEF NewWorkspace, WorkspaceRow, NoBrand, BrandRow
  <1>3. NoAssignment \in Assignment
    BY DEF NoAssignment, Assignment
  <1>4. IdleCreate \in CreateState
        /\ IdleEdit \in EditState
        /\ IdleUpdate \in UpdateState
    BY <1>1, <1>2, WorkspaceBrandsAssumption DEF IdleCreate, IdleEdit, EditState, IdleUpdate,
       CreateState, UpdateState
  <1>5. IdleGrant \in GrantState
    BY WorkspaceBrandsAssumption DEF IdleGrant, GrantState, BrandRoles
  <1>6. IdleDelete \in DeleteState
    BY <1>2, WorkspaceBrandsAssumption DEF IdleDelete, DeleteState
  <1> QED
    BY <1>2, <1>3, <1>4, <1>5, <1>6

LEMMA InitHolds ==
    ASSUME Init
    PROVE  IInv
  <1>1. TypeOK
    BY IdleTypes DEF Init, TypeOK, NoAssignment
  <1> QED
    BY <1>1 DEF Init, IInv, GrantersMay, OwnersAreRecorded,
       AssignedByAnOwner, IdleGrant, NoAssignment
--------------------------------------------------------------------------------
(* The requests that leave the assignments alone. *)

LEMMA CreateTypes ==
    ASSUME TypeOK, NEW c \in Creators, CreateNext(c)
    PROVE  /\ TypeOK'
           /\ UNCHANGED <<ws, assigned, edit, grant, update, delete, owned>>
  <1> USE DEF TypeOK, tables, history
  <1>1. ASSUME NEW name \in Names, CreateLoad(c, name)
        PROVE  /\ TypeOK'
               /\ UNCHANGED <<ws, assigned, edit, grant, update, delete, owned>>
    BY <1>1 DEF CreateLoad, CreateState
  <1>2. CASE CreateList(c)
    BY <1>2, IdleTypes DEF CreateList, CreateState
  <1>3. ASSUME NEW b \in Brands, CreateSave(c, b)
        PROVE  /\ TypeOK'
               /\ UNCHANGED <<ws, assigned, edit, grant, update, delete, owned>>
    <2>1. [status |-> "active", name |-> create[c].name] \in BrandRow
      BY DEF BrandRow, CreateState
    <2>2. brands' \in [Brands -> BrandRow] /\ touched' \in [Deleters -> SUBSET Brands]
      <3>1. [x \in Deleters |-> touched[x] \cup {b}] \in [Deleters -> SUBSET Brands]
        OBVIOUS
      <3> QED
        BY <1>3, <2>1, <3>1 DEF CreateSave, Touch
    <2> QED
      BY <1>3, <2>2, IdleTypes DEF CreateSave
  <1> QED
    BY <1>1, <1>2, <1>3 DEF CreateNext

LEMMA EditTypes ==
    ASSUME TypeOK, NEW e \in Editors, EditNext(e)
    PROVE  /\ TypeOK'
           /\ UNCHANGED <<ws, assigned, create, grant, update, delete, owned>>
  <1> USE DEF TypeOK, tables, history
  <1> DEFINE Goal == /\ TypeOK'
                     /\ UNCHANGED <<ws, assigned, create, grant, update, delete, owned>>
  <1>1. ASSUME NEW m \in Members, NEW b \in Brands, EditLoad(e, m, b) PROVE Goal
    <2>1. [pc |-> "apply", actor |-> m, brand |-> b, row |-> brands[b]] \in EditState
      BY DEF EditState
    <2> QED
      BY <1>1, <2>1 DEF EditLoad
  <1>2. ASSUME NEW name \in Names \cup {None}, NEW status \in {"nil", "active", "archived"},
               EditApply(e, name, status)
        PROVE  Goal
    <2> DEFINE row == edit[e].row
               changed == [status |-> IF status = "nil" THEN row.status ELSE status,
                           name |-> IF name = None THEN row.name ELSE name]
    <2>1. changed \in BrandRow
      BY DEF BrandRow, EditState
    <2> HIDE DEF changed
    <2>2. [edit[e] EXCEPT !.pc = "save", !.row = changed] \in EditState
      <3>1. edit[e].pc = "apply"
        BY <1>2 DEF EditApply
      <3> QED
        BY <2>1, <3>1 DEF EditState
    <2>3. /\ \/ edit' = [edit EXCEPT ![e] = [edit[e] EXCEPT !.pc = "save", !.row = changed]]
             \/ edit' = [edit EXCEPT ![e] = IdleEdit]
          /\ UNCHANGED <<tables, create, grant, update, delete, history>>
      BY <1>2 DEF EditApply, changed
    <2>4. edit' \in [Editors -> EditState]
      BY <2>2, <2>3, IdleTypes
    <2> QED
      BY <2>3, <2>4
  <1>3. CASE EditSave(e)
    <2>1. brands' \in [Brands -> BrandRow] /\ touched' \in [Deleters -> SUBSET Brands]
      <3>1. edit[e].brand \in Brands /\ edit[e].row \in BrandRow
        BY <1>3 DEF EditSave, EditState
      <3>2. [x \in Deleters |-> touched[x] \cup {edit[e].brand}]
               \in [Deleters -> SUBSET Brands]
        BY <3>1
      <3> QED
        BY <1>3, <3>1, <3>2 DEF EditSave, Touch
    <2> QED
      BY <1>3, <2>1, IdleTypes DEF EditSave
  <1> QED
    BY <1>1, <1>2, <1>3 DEF EditNext

LEMMA UpdateTypes ==
    ASSUME TypeOK, NEW u \in Updaters, UpdateNext(u)
    PROVE  /\ TypeOK'
           /\ UNCHANGED <<brands, assigned, create, edit, grant, delete, owned, touched>>
  <1> USE DEF TypeOK, tables, history
  <1>1. ASSUME NEW field \in {"name", "settings"}, NEW value \in Names,
               UpdateLoad(u, field, value)
        PROVE  /\ TypeOK'
               /\ UNCHANGED <<brands, assigned, create, edit, grant, delete, owned, touched>>
    BY <1>1 DEF UpdateLoad, UpdateState, WorkspaceRow
  <1>2. CASE UpdateSave(u)
    BY <1>2, IdleTypes DEF UpdateSave, UpdateState
  <1> QED
    BY <1>1, <1>2 DEF UpdateNext

\* The steps of a deletion after its guards.
LEMMA ListedType ==
    ASSUME NEW r \in DeleteState, NEW read \in [Brands -> BrandRow], NEW todo \in SUBSET Brands
    PROVE  /\ [r EXCEPT !.pc = "archive", !.read = read, !.todo = todo] \in DeleteState
           /\ [r EXCEPT !.pc = "archive", !.read = read, !.todo = todo].read = read
           /\ [r EXCEPT !.pc = "archive", !.read = read, !.todo = todo].todo = todo
  BY DEF DeleteState

LEMMA DeleteTypes ==
    ASSUME TypeOK, NEW d \in Deleters,
           (\E m \in Members : DeleteLoad(d, m)) \/ DeleteStep(d)
    PROVE  /\ TypeOK'
           /\ UNCHANGED <<assigned, create, edit, grant, update, owned>>
  <1> USE DEF TypeOK, tables, history
  <1> DEFINE Goal == /\ TypeOK'
                     /\ UNCHANGED <<assigned, create, edit, grant, update, owned>>
  <1>1. ASSUME NEW m \in Members, DeleteLoad(d, m) PROVE Goal
    <2>1. /\ [IdleDelete EXCEPT !.pc = "list", !.row = ws] \in DeleteState
          /\ [IdleDelete EXCEPT !.pc = "not_owner", !.actor = m] \in DeleteState
      BY IdleTypes DEF DeleteState
    <2>2. delete' \in [Deleters -> DeleteState]
      BY <1>1, <2>1 DEF DeleteLoad
    <2> QED
      BY <1>1, <2>2 DEF DeleteLoad
  <1>2. CASE DeleteList(d)
    <2> DEFINE listed == {b \in Brands : Exists(b)}
    <2>1. delete' = [delete EXCEPT ![d] = [delete[d] EXCEPT !.pc = "archive",
                                              !.read = brands, !.todo = listed]]
      BY <1>2 DEF DeleteList
    <2>2. [delete[d] EXCEPT !.pc = "archive", !.read = brands, !.todo = listed]
             \in DeleteState
      BY ListedType
    <2>3. delete' \in [Deleters -> DeleteState]
      BY <2>1, <2>2
    <2> QED
      BY <1>2, <2>3 DEF DeleteList
  <1>3. ASSUME NEW b \in Brands, DeleteArchive(d, b) PROVE Goal
    <2>1. [delete[d].read[b] EXCEPT !.status = "archived"] \in BrandRow
      <3>1. delete[d].read[b] \in BrandRow
        BY DEF DeleteState
      <3> QED
        BY <3>1 DEF BrandRow
    <2>2. brands' \in [Brands -> BrandRow]
      BY <1>3, <2>1 DEF DeleteArchive
    <2>3. [delete[d] EXCEPT !.todo = delete[d].todo \ {b}] \in DeleteState
      <3>1. delete[d] \in DeleteState /\ delete[d].todo \ {b} \in SUBSET Brands
        BY DEF DeleteState
      <3> QED
        BY <3>1 DEF DeleteState
    <2>4. delete' \in [Deleters -> DeleteState]
      BY <1>3, <2>3 DEF DeleteArchive
    <2> QED
      BY <1>3, <2>2, <2>4 DEF DeleteArchive
  <1>4. CASE DeleteSave(d)
    <2>1. [delete[d].row EXCEPT !.status = "pending_deletion"] \in WorkspaceRow
      BY DEF DeleteState, WorkspaceRow
    <2>2. delete' \in [Deleters -> DeleteState]
      BY <1>4, IdleTypes DEF DeleteSave
    <2> QED
      BY <1>4, <2>1, <2>2 DEF DeleteSave
  <1> QED
    BY <1>1, <1>2, <1>3, <1>4 DEF DeleteStep
--------------------------------------------------------------------------------
(* AssignMemberToBrand and RevokeBrandAccess *)

LEMMA GrantMovesTo ==
    ASSUME NEW r \in GrantState, r.brand \in Brands, NEW pc \in {"save", "exists"}
    PROVE  /\ [r EXCEPT !.pc = pc] \in GrantState
           /\ [r EXCEPT !.pc = pc].pc = pc
           /\ [r EXCEPT !.pc = pc].op = r.op
           /\ [r EXCEPT !.pc = pc].brand = r.brand
           /\ [r EXCEPT !.pc = pc].actor = r.actor
  BY DEF GrantState

\* What a check or the end of a request does: it is about to assign only if
\* its actor may grant.
LEMMA GrantChecks ==
    ASSUME TypeOK, NEW g \in Granters,
           \/ \E op \in {"assign", "revoke"}, m \in Members, b \in Brands,
                 target \in Members, role \in GrantedRoles :
                    GrantLoad(g, op, m, b, target, role)
           \/ AssignCheck(g) \/ RevokeCheck(g) \/ GrantRefused(g)
    PROVE  /\ grant' \in [Granters -> GrantState]
           /\ \A h \in Granters \ {g} : grant'[h] = grant[h]
           /\ grant'[g].pc = "save" /\ grant'[g].op = "assign" =>
                 /\ MayGrant(g)
                 /\ grant'[g].brand = grant[g].brand /\ grant'[g].actor = grant[g].actor
                 /\ grant[g].brand \in Brands
           /\ UNCHANGED <<tables, create, edit, update, delete, history>>
  <1> DEFINE Goal ==
         /\ grant' \in [Granters -> GrantState]
         /\ \A h \in Granters \ {g} : grant'[h] = grant[h]
         /\ grant'[g].pc = "save" /\ grant'[g].op = "assign" =>
               /\ MayGrant(g)
               /\ grant'[g].brand = grant[g].brand /\ grant'[g].actor = grant[g].actor
               /\ grant[g].brand \in Brands
         /\ UNCHANGED <<tables, create, edit, update, delete, history>>
  <1> USE DEF TypeOK
  <1>1. ASSUME NEW op \in {"assign", "revoke"}, NEW m \in Members, NEW b \in Brands,
               NEW target \in Members, NEW role \in GrantedRoles,
               GrantLoad(g, op, m, b, target, role)
        PROVE  Goal
    <2> DEFINE read == IF Hydrated THEN {n \in Members : assigned[b][n].role # "none"} ELSE {}
    <2>1. read \in SUBSET Members
      OBVIOUS
    <2> HIDE DEF read
    <2>2. [pc |-> "check", op |-> op, actor |-> m, brand |-> b, target |-> target,
           role |-> role, read |-> read] \in GrantState
      BY <2>1, WorkspaceBrandsAssumption DEF GrantState
    <2>3. /\ grant' = [grant EXCEPT ![g] =
                 [pc |-> "check", op |-> op, actor |-> m, brand |-> b, target |-> target,
                  role |-> role, read |-> read]]
          /\ UNCHANGED <<tables, create, edit, update, delete, history>>
      BY <1>1 DEF GrantLoad, read
    <2> QED
      BY <2>2, <2>3
  <1>2. ASSUME grant[g].pc = "check", NEW pc \in {"save", "exists"},
               grant' = [grant EXCEPT ![g] = [grant[g] EXCEPT !.pc = pc]]
        PROVE  /\ grant' \in [Granters -> GrantState]
               /\ \A h \in Granters \ {g} : grant'[h] = grant[h]
               /\ grant'[g].pc = pc
               /\ grant'[g].brand = grant[g].brand /\ grant'[g].actor = grant[g].actor
               /\ grant[g].brand \in Brands
    <2> DEFINE r == grant[g]
    <2>1. r \in GrantState /\ r.brand \in Brands
      BY <1>2 DEF GrantState
    <2> HIDE DEF r
    <2>2. /\ [r EXCEPT !.pc = pc] \in GrantState
          /\ [r EXCEPT !.pc = pc].pc = pc
          /\ [r EXCEPT !.pc = pc].brand = r.brand
          /\ [r EXCEPT !.pc = pc].actor = r.actor
      BY <2>1, GrantMovesTo
    <2>3. grant' = [grant EXCEPT ![g] = [r EXCEPT !.pc = pc]]
      BY <1>2 DEF r
    <2>4. /\ grant' \in [Granters -> GrantState]
          /\ \A h \in Granters \ {g} : grant'[h] = grant[h]
          /\ grant'[g] = [r EXCEPT !.pc = pc]
      BY <2>2, <2>3
    <2> QED
      BY <2>1, <2>2, <2>4 DEF r
  <1>3. IdleGrant.pc = "idle" /\ IdleGrant \in GrantState
    BY IdleTypes DEF IdleGrant
  <1>4. CASE AssignCheck(g)
    <2>1. /\ grant[g].pc = "check" /\ MayGrant(g)
          /\ \/ grant' = [grant EXCEPT ![g] = [grant[g] EXCEPT !.pc = "exists"]]
             \/ grant' = [grant EXCEPT ![g] = IdleGrant]
             \/ grant' = [grant EXCEPT ![g] = [grant[g] EXCEPT !.pc = "save"]]
          /\ UNCHANGED <<tables, create, edit, update, delete, history>>
      BY <1>4 DEF AssignCheck
    <2> QED
      BY <1>2, <1>3, <2>1
  <1>5. CASE RevokeCheck(g)
    <2>1. /\ grant[g].pc = "check" /\ MayGrant(g)
          /\ \/ grant' = [grant EXCEPT ![g] = IdleGrant]
             \/ grant' = [grant EXCEPT ![g] = [grant[g] EXCEPT !.pc = "save"]]
          /\ UNCHANGED <<tables, create, edit, update, delete, history>>
      BY <1>5 DEF RevokeCheck
    <2> QED
      BY <1>2, <1>3, <2>1
  <1>6. CASE GrantRefused(g)
    BY <1>3, <1>6 DEF GrantRefused
  <1> QED
    BY <1>1, <1>4, <1>5, <1>6

\* The one cell of the table that a request writes, and what it holds then.
LEMMA GrantSaves ==
    ASSUME TypeOK, NEW g \in Granters, GrantSave(g)
    PROVE  /\ grant' = [grant EXCEPT ![g] = IdleGrant]
           /\ UNCHANGED <<ws, brands, create, edit, update, delete, touched>>
           /\ grant[g].brand \in Brands /\ grant[g].target \in Members
           /\ \/ UNCHANGED <<assigned, owned>>
              \/ /\ assigned' = [assigned EXCEPT ![grant[g].brand][grant[g].target] =
                                    NoAssignment]
                 /\ UNCHANGED owned
              \/ /\ grant[g].pc = "save" /\ grant[g].op = "assign"
                 /\ assigned' = [assigned EXCEPT ![grant[g].brand][grant[g].target] =
                                    NewAssignment(g)]
                 /\ owned' = IF grant[g].role = "owner"
                             THEN owned \cup {<<grant[g].brand, grant[g].target>>}
                             ELSE owned
  <1>1. grant[g].brand \in Brands /\ grant[g].target \in Members
    BY DEF TypeOK, GrantSave, GrantState
  <1> QED
    BY <1>1 DEF GrantSave

LEMMA NewAssignmentType ==
    ASSUME TypeOK, NEW g \in Granters
    PROVE  /\ NewAssignment(g) \in Assignment
           /\ NewAssignment(g).role # "none" /\ NewAssignment(g).by # None
           /\ NewAssignment(g).role = grant[g].role
           /\ NewAssignment(g).by = grant[g].actor
           /\ grant[g].actor \in Members
  BY WorkspaceBrandsAssumption
     DEF TypeOK, GrantState, NewAssignment, Assignment, BrandRoles

\* A cell written over keeps the table a table and the other cells.
LEMMA CellWritten ==
    ASSUME TypeOK, NEW b \in Brands, NEW m \in Members, NEW row \in Assignment,
           row.role = "none" <=> row.by = None,
           assigned' = [assigned EXCEPT ![b][m] = row]
    PROVE  /\ assigned' \in [Brands -> [Members -> Assignment]]
           /\ assigned'[b][m] = row
           /\ \A c \in Brands, n \in Members :
                 c # b \/ n # m => assigned'[c][n] = assigned[c][n]
           /\ \A c \in Brands, n \in Members :
                 assigned'[c][n].role = "none" <=> assigned'[c][n].by = None
  <1>1. [assigned[b] EXCEPT ![m] = row] \in [Members -> Assignment]
    BY DEF TypeOK
  <1>2. assigned' = [assigned EXCEPT ![b] = [assigned[b] EXCEPT ![m] = row]]
    OBVIOUS
  <1>3. /\ assigned' \in [Brands -> [Members -> Assignment]]
        /\ assigned'[b][m] = row
        /\ \A c \in Brands, n \in Members :
              c # b \/ n # m => assigned'[c][n] = assigned[c][n]
    BY <1>1, <1>2 DEF TypeOK
  <1> QED
    BY <1>3 DEF TypeOK

LEMMA GrantStep ==
    ASSUME IInv, NEW g \in Granters, GrantNext(g)
    PROVE  IInv'
  <1> DEFINE b == grant[g].brand
             m == grant[g].target
  <1>1. CASE \/ \E op \in {"assign", "revoke"}, a \in Members, c \in Brands,
                   target \in Members, role \in GrantedRoles :
                      GrantLoad(g, op, a, c, target, role)
             \/ AssignCheck(g) \/ RevokeCheck(g) \/ GrantRefused(g)
    <2>1. TypeOK'
      BY <1>1, GrantChecks DEF IInv, TypeOK, tables, history
    <2>2. MayGrant(g) /\ grant[g].brand \in Brands =>
             grant[g].actor = Owner \/ <<grant[g].brand, grant[g].actor>> \in owned
      <3>1. grant[g].actor \in Members
        BY DEF IInv, TypeOK, GrantState
      <3> QED
        BY <3>1 DEF MayGrant, IInv, OwnersAreRecorded
    <2>3. GrantersMay'
      <3> SUFFICES ASSUME NEW h \in Granters, grant'[h].pc = "save", grant'[h].op = "assign"
                   PROVE  grant'[h].actor = Owner
                          \/ <<grant'[h].brand, grant'[h].actor>> \in owned'
        BY DEF GrantersMay
      <3>1. CASE h = g
        BY <1>1, <2>2, <3>1, GrantChecks DEF IInv, history
      <3>2. CASE h # g
        BY <1>1, <3>2, GrantChecks DEF IInv, GrantersMay, history
      <3> QED
        BY <3>1, <3>2
    <2>4. OwnersAreRecorded' /\ AssignedByAnOwner'
      BY <1>1, GrantChecks
         DEF IInv, OwnersAreRecorded, AssignedByAnOwner, tables, history
    <2> QED
      BY <2>1, <2>3, <2>4 DEF IInv
  <1>2. CASE GrantSave(g)
    <2>1. /\ grant' = [grant EXCEPT ![g] = IdleGrant]
          /\ UNCHANGED <<ws, brands, create, edit, update, delete, touched>>
          /\ b \in Brands /\ m \in Members
          /\ \/ UNCHANGED <<assigned, owned>>
             \/ assigned' = [assigned EXCEPT ![b][m] = NoAssignment] /\ UNCHANGED owned
             \/ /\ grant[g].pc = "save" /\ grant[g].op = "assign"
                /\ assigned' = [assigned EXCEPT ![b][m] = NewAssignment(g)]
                /\ owned' = IF grant[g].role = "owner" THEN owned \cup {<<b, m>>} ELSE owned
      BY <1>2, GrantSaves DEF IInv
    <2>2. owned \subseteq owned' /\ owned' \subseteq Brands \X Members
      BY <2>1 DEF IInv, TypeOK
    <2>3. grant' \in [Granters -> GrantState]
      BY <2>1, IdleTypes DEF IInv, TypeOK
    <2>4. GrantersMay'
      <3> SUFFICES ASSUME NEW h \in Granters, grant'[h].pc = "save", grant'[h].op = "assign"
                   PROVE  grant'[h].actor = Owner
                          \/ <<grant'[h].brand, grant'[h].actor>> \in owned'
        BY DEF GrantersMay
      <3>1. grant'[h] = grant[h]
        BY <2>1 DEF IInv, TypeOK, IdleGrant
      <3> QED
        BY <2>2, <3>1 DEF IInv, GrantersMay
    <2> DEFINE Fine == /\ assigned' \in [Brands -> [Members -> Assignment]]
                       /\ \A c \in Brands, n \in Members :
                             assigned'[c][n].role = "none" <=> assigned'[c][n].by = None
                       /\ OwnersAreRecorded' /\ AssignedByAnOwner'
    <2>5. ASSUME UNCHANGED <<assigned, owned>> PROVE Fine
      <3>1. assigned' = assigned /\ owned' = owned
        BY <2>5
      <3>2. OwnersAreRecorded' /\ AssignedByAnOwner'
        BY <3>1 DEF IInv, OwnersAreRecorded, AssignedByAnOwner
      <3> QED
        BY <3>1, <3>2 DEF IInv, TypeOK
    <2>6. ASSUME NEW row \in Assignment, row.role = "none" <=> row.by = None,
                 assigned' = [assigned EXCEPT ![b][m] = row],
                 row.role = "owner" => <<b, m>> \in owned',
                 row.role # "none" => row.by = Owner \/ <<b, row.by>> \in owned'
          PROVE  Fine
      <3>1. /\ assigned' \in [Brands -> [Members -> Assignment]]
            /\ assigned'[b][m] = row
            /\ \A c \in Brands, n \in Members :
                  c # b \/ n # m => assigned'[c][n] = assigned[c][n]
            /\ \A c \in Brands, n \in Members :
                  assigned'[c][n].role = "none" <=> assigned'[c][n].by = None
        BY <2>1, <2>6, CellWritten DEF IInv
      <3>2. OwnersAreRecorded'
        BY <2>2, <2>6, <3>1 DEF IInv, OwnersAreRecorded
      <3>3. AssignedByAnOwner'
        BY <2>2, <2>6, <3>1 DEF IInv, AssignedByAnOwner
      <3> QED
        BY <3>1, <3>2, <3>3
    <2> HIDE DEF Fine
    <2>7. ASSUME assigned' = [assigned EXCEPT ![b][m] = NoAssignment] PROVE Fine
      <3>1. NoAssignment.role = "none" /\ NoAssignment.by = None
        BY DEF NoAssignment
      <3> QED
        BY <2>6, <2>7, <3>1, IdleTypes
    <2>8. ASSUME grant[g].pc = "save", grant[g].op = "assign",
                 assigned' = [assigned EXCEPT ![b][m] = NewAssignment(g)],
                 owned' = IF grant[g].role = "owner" THEN owned \cup {<<b, m>>} ELSE owned
          PROVE  Fine
      <3>1. /\ NewAssignment(g) \in Assignment
            /\ NewAssignment(g).role # "none" /\ NewAssignment(g).by # None
            /\ NewAssignment(g).role = grant[g].role
            /\ NewAssignment(g).by = grant[g].actor
        BY NewAssignmentType DEF IInv
      <3>2. grant[g].actor = Owner \/ <<b, grant[g].actor>> \in owned
        BY <2>8 DEF IInv, GrantersMay
      <3> QED
        BY <2>2, <2>6, <2>8, <3>1, <3>2
    <2>9. Fine
      BY <2>1, <2>5, <2>7, <2>8
    <2> QED
      BY <2>1, <2>2, <2>3, <2>4, <2>9 DEF Fine, IInv, TypeOK
  <1> QED
    BY <1>1, <1>2 DEF GrantNext
--------------------------------------------------------------------------------
LEMMA DiesTypes ==
    ASSUME TypeOK, Dies
    PROVE  /\ TypeOK'
           /\ \A g \in Granters : grant'[g].pc = "save" => grant'[g] = grant[g]
           /\ UNCHANGED <<tables, history>>
  <1>1. ASSUME NEW g \in Granters, grant' = [grant EXCEPT ![g] = IdleGrant]
        PROVE  /\ grant' \in [Granters -> GrantState]
               /\ \A h \in Granters : grant'[h].pc = "save" => grant'[h] = grant[h]
    BY <1>1, IdleTypes DEF TypeOK, IdleGrant
  <1> QED
    BY <1>1, IdleTypes DEF Dies, TypeOK, tables, history

LEMMA InvStep ==
    ASSUME IInv, [Next]_vars
    PROVE  IInv'
  <1> DEFINE Kept == UNCHANGED <<assigned, owned>>
  <1>1. ASSUME TypeOK', \A g \in Granters : grant'[g].pc = "save" => grant'[g] = grant[g],
               Kept
        PROVE  IInv'
    <2>1. GrantersMay'
      BY <1>1 DEF IInv, GrantersMay
    <2>2. OwnersAreRecorded' /\ AssignedByAnOwner'
      BY <1>1 DEF IInv, OwnersAreRecorded, AssignedByAnOwner
    <2> QED
      BY <1>1, <2>1, <2>2 DEF IInv
  <1>2. ASSUME NEW c \in Creators, CreateNext(c) PROVE IInv'
    BY <1>1, <1>2, CreateTypes DEF IInv
  <1>3. ASSUME NEW e \in Editors, EditNext(e) PROVE IInv'
    BY <1>1, <1>3, EditTypes DEF IInv
  <1>4. ASSUME NEW g \in Granters, GrantNext(g) PROVE IInv'
    BY <1>4, GrantStep
  <1>5. ASSUME NEW u \in Updaters, UpdateNext(u) PROVE IInv'
    BY <1>1, <1>5, UpdateTypes DEF IInv
  <1>6. ASSUME NEW d \in Deleters, (\E m \in Members : DeleteLoad(d, m)) \/ DeleteStep(d)
        PROVE  IInv'
    BY <1>1, <1>6, DeleteTypes DEF IInv
  <1>7. CASE Dies
    BY <1>1, <1>7, DiesTypes DEF IInv, tables, history
  <1>8. CASE UNCHANGED vars
    <2>1. TypeOK'
      BY <1>8 DEF IInv, TypeOK, vars
    <2> QED
      BY <1>1, <1>8, <2>1 DEF vars
  <1> QED
    BY <1>2, <1>3, <1>4, <1>5, <1>6, <1>7, <1>8 DEF Next

LEMMA Invariance == Spec => []IInv
  BY InitHolds, InvStep, PTL DEF Spec

(***************************************************************************)
(* Type correctness: the tables and the requests hold values of their      *)
(* kinds, and a row of brand_assignments has an author or is absent.       *)
(***************************************************************************)
THEOREM TypeCorrect == Spec => []TypeOK
  <1>1. IInv => TypeOK
    BY DEF IInv
  <1> QED
    BY <1>1, Invariance, PTL

(***************************************************************************)
(* B-5: nobody but the owner of the workspace or somebody who has owned    *)
(* the brand is ever the author of an assignment, however many members     *)
(* assign and revoke at once and whatever the store answers.               *)
(***************************************************************************)
THEOREM AssignedByAnOwnerHolds == Spec => []AssignedByAnOwner
  <1>1. IInv => AssignedByAnOwner
    BY DEF IInv
  <1> QED
    BY <1>1, Invariance, PTL
--------------------------------------------------------------------------------
(***************************************************************************)
(* The cascade of DeleteWorkspace, without faults: a brand that is active  *)
(* while a deletion works through its list, and that nobody else has       *)
(* written since, is still on the list and was active when it was read.    *)
(***************************************************************************)
StillListed(d) ==
    delete[d].pc = "archive" =>
        \A b \in Brands \ touched[d] : brands[b].status = "active" =>
            b \in delete[d].todo /\ delete[d].read[b].status = "active"

CascadeInv == \A d \in Deleters : StillListed(d)

\* What the steps of others do, seen from one deletion: they archive a brand,
\* or write it and let the deletion know.
Undisturbed(e) ==
    /\ delete'[e] = delete[e]
    /\ touched[e] \subseteq touched'[e]
    /\ \A b \in Brands \ touched'[e] :
          brands'[b].status = "active" => brands[b].status = "active"

LEMMA UndisturbedKeeps ==
    ASSUME NEW e \in Deleters, StillListed(e), Undisturbed(e)
    PROVE  StillListed(e)'
  BY DEF StillListed, Undisturbed

LEMMA OthersDoNotDisturb ==
    ASSUME TypeOK, ~Faults, NEW e \in Deleters,
           \/ \E c \in Creators : CreateNext(c)
           \/ \E x \in Editors : EditNext(x)
           \/ \E g \in Granters : GrantNext(g)
           \/ \E u \in Updaters : UpdateNext(u)
           \/ Dies
           \/ UNCHANGED vars
    PROVE  Undisturbed(e)
  <1> USE DEF TypeOK, tables, history
  <1>1. ASSUME UNCHANGED <<brands, delete, touched>> PROVE Undisturbed(e)
    BY <1>1 DEF Undisturbed
  <1>2. ASSUME NEW b \in Brands, Touch(b), UNCHANGED delete,
               NEW row, brands' = [brands EXCEPT ![b] = row]
        PROVE  Undisturbed(e)
    <2>1. touched'[e] = touched[e] \cup {b}
      BY <1>2 DEF Touch
    <2> QED
      BY <1>2, <2>1 DEF Undisturbed
  <1>3. ASSUME NEW c \in Creators, CreateNext(c) PROVE Undisturbed(e)
    <2>1. CASE \E b \in Brands : CreateSave(c, b)
      BY <1>1, <1>2, <2>1 DEF CreateSave
    <2> QED
      BY <1>1, <1>3, <2>1 DEF CreateNext, CreateLoad, CreateList
  <1>4. ASSUME NEW x \in Editors, EditNext(x) PROVE Undisturbed(e)
    <2>1. CASE EditSave(x)
      <3>1. edit[x].brand \in Brands
        BY <2>1 DEF EditSave, EditState
      <3> QED
        BY <1>1, <1>2, <2>1, <3>1 DEF EditSave
    <2> QED
      BY <1>1, <1>4, <2>1 DEF EditNext, EditLoad, EditApply
  <1>5. ASSUME NEW g \in Granters, GrantNext(g) PROVE Undisturbed(e)
    BY <1>1, <1>5 DEF GrantNext, GrantLoad, AssignCheck, RevokeCheck, GrantRefused, GrantSave
  <1>6. ASSUME NEW u \in Updaters, UpdateNext(u) PROVE Undisturbed(e)
    BY <1>1, <1>6, UpdateTypes
  <1>7. ~Dies
    BY DEF Dies
  <1> QED
    BY <1>1, <1>3, <1>4, <1>5, <1>6, <1>7 DEF vars

\* One deletion only archives what another is working through.
LEMMA DeletionsDoNotDisturb ==
    ASSUME TypeOK, NEW d \in Deleters, NEW e \in Deleters \ {d},
           (\E m \in Members : DeleteLoad(d, m)) \/ DeleteStep(d)
    PROVE  Undisturbed(e)
  <1> USE DEF TypeOK, tables, history
  <1>1. ASSUME NEW m \in Members, DeleteLoad(d, m) PROVE Undisturbed(e)
    BY <1>1 DEF DeleteLoad, Undisturbed
  <1>2. CASE DeleteList(d)
    BY <1>2 DEF DeleteList, Undisturbed
  <1>3. ASSUME NEW b \in Brands, DeleteArchive(d, b) PROVE Undisturbed(e)
    <2>1. /\ delete'[e] = delete[e] /\ touched' = touched
          /\ \/ UNCHANGED brands
             \/ brands' = [brands EXCEPT ![b] =
                              [delete[d].read[b] EXCEPT !.status = "archived"]]
      BY <1>3 DEF DeleteArchive
    <2>2. [delete[d].read[b] EXCEPT !.status = "archived"].status = "archived"
      <3>1. delete[d].read[b] \in BrandRow
        BY DEF DeleteState
      <3> QED
        BY <3>1 DEF BrandRow
    <2> QED
      BY <2>1, <2>2 DEF Undisturbed
  <1>4. CASE DeleteSave(d)
    BY <1>4 DEF DeleteSave, Undisturbed
  <1> QED
    BY <1>1, <1>2, <1>3, <1>4 DEF DeleteStep

\* A brand is ticked off the list of its deletion.
LEMMA Ticked ==
    ASSUME TypeOK, NEW d \in Deleters, NEW b \in Brands, DeleteArchive(d, b)
    PROVE  /\ delete'[d].pc = delete[d].pc
           /\ delete'[d].read = delete[d].read
           /\ delete'[d].todo = delete[d].todo \ {b}
  <1> DEFINE old == delete[d]
             new == [old EXCEPT !.todo = old.todo \ {b}]
  <1>1. old \in DeleteState /\ old.todo \ {b} \in SUBSET Brands
    BY DEF TypeOK, DeleteState
  <1>2. delete'[d] = new
    BY DEF DeleteArchive, TypeOK
  <1> HIDE DEF old
  <1>3. new.pc = old.pc /\ new.read = old.read /\ new.todo = old.todo \ {b}
    BY <1>1 DEF DeleteState
  <1> HIDE DEF new
  <1> QED
    BY <1>2, <1>3 DEF old

LEMMA OwnStepsKeepTheList ==
    ASSUME TypeOK, ~Faults, NEW d \in Deleters, StillListed(d),
           (\E m \in Members : DeleteLoad(d, m)) \/ DeleteStep(d)
    PROVE  StillListed(d)'
  <1> USE DEF TypeOK, tables, history
  <1>1. ASSUME NEW m \in Members, DeleteLoad(d, m) PROVE delete'[d].pc # "archive"
    <2>1. /\ [IdleDelete EXCEPT !.pc = "list", !.row = ws].pc = "list"
          /\ [IdleDelete EXCEPT !.pc = "not_owner", !.actor = m].pc = "not_owner"
      BY DEF IdleDelete
    <2> QED
      BY <1>1, <2>1 DEF DeleteLoad
  <1>2. CASE DeleteList(d)
    <2> DEFINE listed == {b \in Brands : Exists(b)}
    <2>1. delete' = [delete EXCEPT ![d] = [delete[d] EXCEPT !.pc = "archive",
                                              !.read = brands, !.todo = listed]]
      BY <1>2 DEF DeleteList
    <2>2. listed \in SUBSET Brands /\ brands \in [Brands -> BrandRow]
      OBVIOUS
    <2>3. delete'[d].read = brands /\ delete'[d].todo = listed
      <3> HIDE DEF listed
      <3> DEFINE new == [delete[d] EXCEPT !.pc = "archive", !.read = brands, !.todo = listed]
      <3>1. delete[d] \in DeleteState
        OBVIOUS
      <3>2. new.read = brands /\ new.todo = listed
        BY <3>1 DEF DeleteState
      <3>3. delete'[d] = new
        BY <2>1
      <3> QED
        BY <3>2, <3>3
    <2> QED
      BY <1>2, <2>3 DEF DeleteList, Exists, StillListed
  <1>3. ASSUME NEW b \in Brands, DeleteArchive(d, b) PROVE StillListed(d)'
    <2>1. delete[d] \in DeleteState /\ delete[d].todo \ {b} \in SUBSET Brands
          /\ delete[d].read[b] \in BrandRow
      BY DEF DeleteState
    <2>2. /\ delete'[d].read = delete[d].read
          /\ delete'[d].todo = delete[d].todo \ {b}
      BY <1>3, <2>1, Ticked
    <2>3. brands'[b].status # "active" \/ brands[b].status = "active"
      BY <1>3, <2>1 DEF DeleteArchive, BrandRow
    <2>4. b \notin touched[d] => brands'[b].status # "active"
      BY <1>3, <2>1 DEF DeleteArchive, BrandRow, StillListed
    <2>5. \A c \in Brands \ {b} : brands'[c] = brands[c]
      BY <1>3 DEF DeleteArchive
    <2>6. delete[d].pc = "archive" /\ touched' = touched
      BY <1>3 DEF DeleteArchive
    <2> QED
      BY <2>2, <2>4, <2>5, <2>6 DEF StillListed
  <1>4. CASE DeleteSave(d)
    <2>1. IdleDelete.pc = "idle"
      BY DEF IdleDelete
    <2> QED
      BY <1>4, <2>1 DEF DeleteSave, StillListed
  <1> QED
    BY <1>1, <1>2, <1>3, <1>4 DEF DeleteStep, StillListed

LEMMA CascadeStep ==
    ASSUME IInv, CascadeInv, ~Faults, [Next]_vars
    PROVE  CascadeInv'
  <1> SUFFICES ASSUME NEW e \in Deleters PROVE StillListed(e)'
    BY DEF CascadeInv
  <1>1. StillListed(e) /\ TypeOK
    BY DEF CascadeInv, IInv
  <1>2. ASSUME NEW d \in Deleters, (\E m \in Members : DeleteLoad(d, m)) \/ DeleteStep(d)
        PROVE  StillListed(e)'
    <2>1. CASE d = e
      BY <1>1, <1>2, <2>1, OwnStepsKeepTheList
    <2>2. CASE d # e
      BY <1>1, <1>2, <2>2, DeletionsDoNotDisturb, UndisturbedKeeps
    <2> QED
      BY <2>1, <2>2
  <1>3. \/ \E d \in Deleters : (\E m \in Members : DeleteLoad(d, m)) \/ DeleteStep(d)
        \/ \E c \in Creators : CreateNext(c)
        \/ \E x \in Editors : EditNext(x)
        \/ \E g \in Granters : GrantNext(g)
        \/ \E u \in Updaters : UpdateNext(u)
        \/ Dies
        \/ UNCHANGED vars
    BY DEF Next
  <1> QED
    BY <1>1, <1>2, <1>3, OthersDoNotDisturb, UndisturbedKeeps

\* A deletion leaves its loop through its last write only.
LEMMA LoopIsLeftByItsSave ==
    ASSUME IInv, ~Faults, [Next]_vars, NEW d \in Deleters,
           delete[d].pc = "archive", delete'[d].pc = "idle"
    PROVE  DeleteSave(d)
  <1> USE DEF IInv, TypeOK, tables, history
  <1>1. delete'[d] # delete[d]
    OBVIOUS
  <1>2. ASSUME NEW e \in Deleters,
               (\E m \in Members : DeleteLoad(e, m)) \/ DeleteStep(e)
        PROVE  DeleteSave(d)
    <2>1. e = d
      BY <1>1, <1>2, DeletionsDoNotDisturb DEF Undisturbed
    <2>2. ~DeleteList(d) /\ \A m \in Members : ~DeleteLoad(d, m)
      BY DEF DeleteList, DeleteLoad
    <2>3. ASSUME NEW b \in Brands, DeleteArchive(d, b) PROVE FALSE
      <3>1. delete[d] \in DeleteState /\ delete[d].todo \ {b} \in SUBSET Brands
        BY DEF DeleteState
      <3> QED
        BY <2>3, <3>1, Ticked
    <2> QED
      BY <1>2, <2>1, <2>2, <2>3 DEF DeleteStep
  <1> QED
    BY <1>1, <1>2, OthersDoNotDisturb DEF Next, Undisturbed

(***************************************************************************)
(* X-1, for any number of brands, deletions and concurrent requests: when  *)
(* a deletion stores its workspace, every brand that it listed and nobody  *)
(* else wrote since is archived; no status of another brand stops it.      *)
(***************************************************************************)
THEOREM DeletionArchivesHolds ==
    ASSUME ~Faults
    PROVE  Spec => DeletionArchives
  <1> DEFINE Archives ==
         \A d \in Deleters :
            delete[d].pc = "archive" /\ delete'[d].pc = "idle" =>
               \A b \in Brands \ touched[d] : brands[b].status # "active"
  <1>1. Init => CascadeInv
    BY DEF Init, CascadeInv, StillListed, IdleDelete
  <1>2. IInv /\ CascadeInv /\ [Next]_vars => CascadeInv'
    BY CascadeStep
  <1>3. IInv /\ CascadeInv /\ [Next]_vars => [Archives]_vars
    <2> SUFFICES ASSUME IInv, CascadeInv, [Next]_vars, NEW d \in Deleters,
                        delete[d].pc = "archive", delete'[d].pc = "idle"
                 PROVE  \A b \in Brands \ touched[d] : brands[b].status # "active"
      OBVIOUS
    <2>1. DeleteSave(d)
      BY LoopIsLeftByItsSave
    <2> QED
      BY <2>1 DEF DeleteSave, CascadeInv, StillListed
  <1> QED
    BY <1>1, <1>2, <1>3, Invariance, PTL DEF Spec, DeletionArchives
--------------------------------------------------------------------------------
(***************************************************************************)
(* A deletion that has passed its guards leaves them behind by its last    *)
(* write only: a brand that cannot be archived ends neither the list nor   *)
(* the loop.                                                               *)
(***************************************************************************)
LEMMA DeletionIsLeftByItsSave ==
    ASSUME IInv, ~Faults, [Next]_vars, NEW d \in Deleters,
           delete[d].pc \in {"list", "archive"}, delete'[d].pc \notin {"list", "archive"}
    PROVE  DeleteSave(d)
  <1> USE DEF IInv, TypeOK, tables, history
  <1>1. delete'[d] # delete[d]
    OBVIOUS
  <1>2. ASSUME NEW e \in Deleters,
               (\E m \in Members : DeleteLoad(e, m)) \/ DeleteStep(e)
        PROVE  DeleteSave(d)
    <2>1. e = d
      BY <1>1, <1>2, DeletionsDoNotDisturb DEF Undisturbed
    <2>2. \A m \in Members : ~DeleteLoad(d, m)
      BY DEF DeleteLoad
    <2>3. CASE DeleteList(d)
      <3> DEFINE listed == {b \in Brands : Exists(b)}
                 new == [delete[d] EXCEPT !.pc = "archive", !.read = brands, !.todo = listed]
      <3>1. delete'[d] = new
        BY <2>3 DEF DeleteList
      <3>2. new.pc = "archive"
        BY DEF DeleteState
      <3> QED
        BY <3>1, <3>2
    <2>4. ASSUME NEW b \in Brands, DeleteArchive(d, b) PROVE FALSE
      <3>1. delete[d] \in DeleteState /\ delete[d].todo \ {b} \in SUBSET Brands
        BY DEF DeleteState
      <3> QED
        BY <2>4, <3>1, Ticked
    <2> QED
      BY <1>2, <2>1, <2>2, <2>3, <2>4 DEF DeleteStep
  <1> QED
    BY <1>1, <1>2, OthersDoNotDisturb DEF Next, Undisturbed

(***************************************************************************)
(* The safety half of DeletionIsStored: without faults, whatever the       *)
(* statuses of the brands and whoever else writes, a deletion past its     *)
(* guards has no other end than a workspace pending deletion.              *)
(***************************************************************************)
THEOREM DeletionEndsStoredHolds ==
    ASSUME ~Faults
    PROVE  Spec => DeletionEndsStored
  <1> DEFINE EndsStored ==
         \A d \in Deleters :
            /\ delete[d].pc \in {"list", "archive"}
            /\ delete'[d].pc \notin {"list", "archive"}
            => ws'.status = "pending_deletion"
  <1>1. IInv /\ [Next]_vars => [EndsStored]_vars
    <2> SUFFICES ASSUME IInv, [Next]_vars, NEW d \in Deleters,
                        delete[d].pc \in {"list", "archive"},
                        delete'[d].pc \notin {"list", "archive"}
                 PROVE  ws'.status = "pending_deletion"
      OBVIOUS
    <2>1. DeleteSave(d)
      BY DeletionIsLeftByItsSave
    <2>2. delete[d].row \in WorkspaceRow
      BY DEF IInv, TypeOK, DeleteState
    <2>3. [delete[d].row EXCEPT !.status = "pending_deletion"].status = "pending_deletion"
      BY <2>2 DEF WorkspaceRow
    <2> QED
      BY <2>1, <2>3 DEF DeleteSave
  <1> QED
    BY <1>1, Invariance, PTL DEF Spec, DeletionEndsStored
--------------------------------------------------------------------------------
(***************************************************************************)
(* The postgres repository gives Workspace.Delete an aggregate without     *)
(* members, so the owner is never found among them.  What makes the active *)
(* status last is that the rows the updates will write back are active     *)
(* too.                                                                    *)
(***************************************************************************)
ActiveRows ==
    /\ NothingIsDeleted
    /\ \A u \in Updaters : update[u].pc = "save" => update[u].row.status = "active"

LEMMA NothingIsDeletedStep ==
    ASSUME IInv, ActiveRows, Store = "postgres", [Next]_vars
    PROVE  ActiveRows'
  <1> USE DEF tables, history
  <1>1. ASSUME UNCHANGED <<ws, update, delete>> PROVE ActiveRows'
    BY <1>1 DEF ActiveRows, NothingIsDeleted
  <1>2. ASSUME NEW c \in Creators, CreateNext(c) PROVE ActiveRows'
    BY <1>1, <1>2, CreateTypes DEF IInv
  <1>3. ASSUME NEW e \in Editors, EditNext(e) PROVE ActiveRows'
    BY <1>1, <1>3, EditTypes DEF IInv
  <1>4. ASSUME NEW g \in Granters, GrantNext(g) PROVE ActiveRows'
    BY <1>1, <1>4 DEF GrantNext, GrantLoad, AssignCheck, RevokeCheck, GrantRefused, GrantSave
  <1>5. ASSUME NEW u \in Updaters, NEW field \in {"name", "settings"}, NEW value \in Names,
               UpdateLoad(u, field, value)
        PROVE  ActiveRows'
    <2> DEFINE row == IF field = "name" THEN [ws EXCEPT !.name = value]
                                        ELSE [ws EXCEPT !.settings = value]
    <2>1. row.status = ws.status
      BY DEF IInv, TypeOK, WorkspaceRow
    <2> HIDE DEF row
    <2>2. /\ update' = [update EXCEPT ![u] = [pc |-> "save", row |-> row]]
          /\ UNCHANGED <<ws, delete>>
      BY <1>5 DEF UpdateLoad, row
    <2> QED
      BY <2>1, <2>2 DEF ActiveRows, NothingIsDeleted, IInv, TypeOK
  <1>6. ASSUME NEW u \in Updaters, UpdateSave(u) PROVE ActiveRows'
    <2>1. IdleUpdate.pc = "idle"
      BY DEF IdleUpdate
    <2>2. ws'.status = "active"
      BY <1>6 DEF UpdateSave, ActiveRows, NothingIsDeleted
    <2>3. update' = [update EXCEPT ![u] = IdleUpdate] /\ UNCHANGED delete
      BY <1>6 DEF UpdateSave
    <2> QED
      BY <2>1, <2>2, <2>3 DEF ActiveRows, NothingIsDeleted, IInv, TypeOK
  <1>7. ASSUME NEW d \in Deleters, NEW m \in Members, DeleteLoad(d, m) PROVE ActiveRows'
    <2>1. [IdleDelete EXCEPT !.pc = "not_owner", !.actor = m].pc = "not_owner"
      BY DEF IdleDelete
    <2>2. /\ delete' = [delete EXCEPT ![d] =
                 [IdleDelete EXCEPT !.pc = "not_owner", !.actor = m]]
          /\ UNCHANGED <<ws, update>>
      BY <1>7 DEF DeleteLoad, Hydrated
    <2> QED
      BY <2>1, <2>2 DEF ActiveRows, NothingIsDeleted, IInv, TypeOK
  <1>8. ASSUME NEW d \in Deleters, DeleteStep(d) PROVE FALSE
    BY <1>8 DEF DeleteStep, DeleteList, DeleteArchive, DeleteSave, ActiveRows, NothingIsDeleted
  <1>9. CASE Dies
    <2>1. IdleUpdate.pc = "idle" /\ IdleDelete.pc = "idle"
      BY DEF IdleUpdate, IdleDelete
    <2> QED
      BY <1>9, <2>1 DEF Dies, ActiveRows, NothingIsDeleted, IInv, TypeOK
  <1>10. CASE UNCHANGED vars
    BY <1>1, <1>10 DEF vars
  <1> QED
    BY <1>2, <1>3, <1>4, <1>5, <1>6, <1>7, <1>8, <1>9, <1>10 DEF Next, UpdateNext

(***************************************************************************)
(* With the repositories the program has, no workspace is ever deleted:    *)
(* the owner too is refused, so every run leaves the workspace active.     *)
(***************************************************************************)
THEOREM NothingIsDeletedByPostgres ==
    ASSUME Store = "postgres"
    PROVE  Spec => []NothingIsDeleted
  <1>1. Init => ActiveRows
    BY DEF Init, ActiveRows, NothingIsDeleted, NewWorkspace, IdleDelete, IdleUpdate
  <1>2. IInv /\ ActiveRows /\ [Next]_vars => ActiveRows'
    BY NothingIsDeletedStep
  <1>3. ActiveRows => NothingIsDeleted
    BY DEF ActiveRows
  <1> QED
    BY <1>1, <1>2, <1>3, Invariance, PTL DEF Spec
--------------------------------------------------------------------------------
(***************************************************************************)
(* Note 5 of brand/members.go looks at the status once, when it loads the  *)
(* brand.  It blocks as the note says as long as no status of that brand   *)
(* changes before the request ends.                                        *)
(***************************************************************************)
GrantedWhileActive ==
    \A g \in Granters :
        grant[g].pc \in {"check", "save"} => brands[grant[g].brand].status = "active"

\* The steps of GrantedApart.
GrantedApartStep ==
    \A g \in Granters, b \in Brands :
        /\ grant[g].pc \in {"check", "save"}
        /\ grant[g].brand = b
        => brands'[b].status = brands[b].status

\* A request is past its load only for a brand that it found active.
LEMMA ChecksFollowTheLoad ==
    ASSUME TypeOK, NEW g \in Granters,
           \/ \E op \in {"assign", "revoke"}, m \in Members, b \in Brands,
                 target \in Members, role \in GrantedRoles :
                    GrantLoad(g, op, m, b, target, role)
           \/ AssignCheck(g) \/ RevokeCheck(g) \/ GrantRefused(g),
           grant'[g].pc \in {"check", "save"}
    PROVE  \/ brands[grant'[g].brand].status = "active"
           \/ grant[g].pc = "check" /\ grant'[g].brand = grant[g].brand
  <1> USE DEF TypeOK
  <1>1. ASSUME NEW op \in {"assign", "revoke"}, NEW m \in Members, NEW b \in Brands,
               NEW target \in Members, NEW role \in GrantedRoles,
               GrantLoad(g, op, m, b, target, role)
        PROVE  brands[grant'[g].brand].status = "active"
    BY <1>1 DEF GrantLoad
  <1>2. IdleGrant.pc = "idle"
    BY DEF IdleGrant
  <1>3. ASSUME grant[g].pc = "check", NEW pc \in {"save", "exists"},
               grant' = [grant EXCEPT ![g] = [grant[g] EXCEPT !.pc = pc]]
        PROVE  grant[g].pc = "check" /\ grant'[g].brand = grant[g].brand
    <2> DEFINE r == grant[g]
    <2>1. r \in GrantState /\ r.brand \in Brands
      BY <1>3 DEF GrantState
    <2>2. grant'[g] = [r EXCEPT !.pc = pc]
      BY <1>3
    <2> HIDE DEF r
    <2>3. grant'[g].brand = r.brand
      BY <2>1, <2>2, GrantMovesTo
    <2> QED
      BY <1>3, <2>3 DEF r
  <1>4. CASE AssignCheck(g)
    <2>1. /\ grant[g].pc = "check"
          /\ \/ grant' = [grant EXCEPT ![g] = [grant[g] EXCEPT !.pc = "exists"]]
             \/ grant' = [grant EXCEPT ![g] = IdleGrant]
             \/ grant' = [grant EXCEPT ![g] = [grant[g] EXCEPT !.pc = "save"]]
      BY <1>4 DEF AssignCheck
    <2> QED
      BY <1>2, <1>3, <2>1
  <1>5. CASE RevokeCheck(g)
    <2>1. /\ grant[g].pc = "check"
          /\ \/ grant' = [grant EXCEPT ![g] = IdleGrant]
             \/ grant' = [grant EXCEPT ![g] = [grant[g] EXCEPT !.pc = "save"]]
      BY <1>5 DEF RevokeCheck
    <2> QED
      BY <1>2, <1>3, <2>1
  <1>6. ~GrantRefused(g)
    BY <1>2 DEF GrantRefused
  <1> QED
    BY <1>1, <1>4, <1>5, <1>6

LEMMA GrantedWhileActiveStep ==
    ASSUME IInv, GrantedWhileActive, [Next]_vars, GrantedApartStep
    PROVE  GrantedWhileActive'
  <1> SUFFICES ASSUME NEW h \in Granters, grant'[h].pc \in {"check", "save"}
               PROVE  brands'[grant'[h].brand].status = "active"
    BY DEF GrantedWhileActive
  <1> USE DEF IInv, tables, history
  <1>1. ASSUME grant'[h] = grant[h] PROVE brands'[grant'[h].brand].status = "active"
    <2>1. grant[h].brand \in Brands
      BY <1>1 DEF TypeOK, GrantState
    <2> QED
      BY <1>1, <2>1 DEF GrantedWhileActive, GrantedApartStep
  <1>2. ASSUME NEW c \in Creators, CreateNext(c) PROVE grant'[h] = grant[h]
    BY <1>2, CreateTypes
  <1>3. ASSUME NEW e \in Editors, EditNext(e) PROVE grant'[h] = grant[h]
    BY <1>3, EditTypes
  <1>4. ASSUME NEW u \in Updaters, UpdateNext(u) PROVE grant'[h] = grant[h]
    BY <1>4, UpdateTypes
  <1>5. ASSUME NEW d \in Deleters,
               (\E m \in Members : DeleteLoad(d, m)) \/ DeleteStep(d)
        PROVE  grant'[h] = grant[h]
    BY <1>5, DeleteTypes
  <1>6. ASSUME Dies PROVE grant'[h] = grant[h]
    BY <1>6 DEF Dies, TypeOK, IdleGrant
  <1>7. ASSUME UNCHANGED vars PROVE grant'[h] = grant[h]
    BY <1>7 DEF vars
  <1>8. ASSUME NEW g \in Granters, GrantNext(g)
        PROVE  brands'[grant'[h].brand].status = "active"
    <2>1. CASE GrantSave(g)
      <3>1. grant' = [grant EXCEPT ![g] = IdleGrant]
        BY <2>1, GrantSaves
      <3>2. grant'[h] = grant[h]
        BY <3>1 DEF TypeOK, IdleGrant
      <3> QED
        BY <1>1, <3>2
    <2>2. CASE \/ \E op \in {"assign", "revoke"}, m \in Members, b \in Brands,
                     target \in Members, role \in GrantedRoles :
                        GrantLoad(g, op, m, b, target, role)
               \/ AssignCheck(g) \/ RevokeCheck(g) \/ GrantRefused(g)
      <3>1. UNCHANGED brands /\ \A x \in Granters \ {g} : grant'[x] = grant[x]
        BY <2>2, GrantChecks
      <3>2. CASE h # g
        BY <1>1, <3>1, <3>2
      <3>3. CASE h = g
        <4>1. \/ brands[grant'[g].brand].status = "active"
              \/ grant[g].pc = "check" /\ grant'[g].brand = grant[g].brand
          BY <2>2, <3>3, ChecksFollowTheLoad
        <4> QED
          BY <3>1, <3>3, <4>1 DEF GrantedWhileActive
      <3> QED
        BY <3>2, <3>3
    <2> QED
      BY <1>8, <2>1, <2>2 DEF GrantNext
  <1> QED
    BY <1>1, <1>2, <1>3, <1>4, <1>5, <1>6, <1>7, <1>8 DEF Next

\* An assignment appears by the insertion of a request alone.
LEMMA AppearsByInsertion ==
    ASSUME IInv, [Next]_vars, NEW b \in Brands, NEW m \in Members,
           assigned[b][m].role = "none", assigned'[b][m].role # "none"
    PROVE  \E g \in Granters : grant[g].pc = "save" /\ grant[g].brand = b
  <1> USE DEF IInv, tables, history
  <1>1. assigned' # assigned
    OBVIOUS
  <1>2. PICK g \in Granters : GrantNext(g)
    BY <1>1, CreateTypes, EditTypes, UpdateTypes, DeleteTypes, DiesTypes DEF Next, vars
  <1>3. GrantSave(g)
    BY <1>1, <1>2, GrantChecks DEF GrantNext
  <1>4. grant[g].brand \in Brands /\ grant[g].target \in Members /\ NoAssignment.role = "none"
    BY <1>3, GrantSaves DEF NoAssignment
  <1>5. grant[g].brand = b
    <2>1. ASSUME NEW row, grant[g].brand # b,
                 assigned' = [assigned EXCEPT ![grant[g].brand][grant[g].target] = row]
          PROVE  FALSE
      BY <2>1 DEF TypeOK
    <2>2. PICK row : assigned' = [assigned EXCEPT ![grant[g].brand][grant[g].target] = row]
      BY <1>1, <1>3, GrantSaves
    <2> QED
      BY <2>1, <2>2
  <1>6. grant[g].pc = "save"
    BY <1>3 DEF GrantSave
  <1> QED
    BY <1>5, <1>6

(***************************************************************************)
(* The note, under the condition that no status of a brand changes while a *)
(* request about its assignments is running: whatever else interleaves and *)
(* whatever fails, an archived brand gains no assignment.                  *)
(***************************************************************************)
THEOREM ArchivedBlocksApart == Spec /\ GrantedApart => ArchivedBlocksAssignment
  <1> DEFINE Blocks ==
         \A b \in Brands, m \in Members :
            brands[b].status = "archived" /\ assigned[b][m].role = "none" =>
               assigned'[b][m].role = "none"
  <1>1. Init => GrantedWhileActive
    BY DEF Init, GrantedWhileActive, IdleGrant
  <1>2. IInv /\ GrantedWhileActive /\ [Next]_vars /\ [GrantedApartStep]_vars
           => GrantedWhileActive'
    <2> SUFFICES ASSUME IInv, GrantedWhileActive, [Next]_vars, [GrantedApartStep]_vars
                 PROVE  GrantedWhileActive'
      OBVIOUS
    <2>1. CASE UNCHANGED vars
      BY <2>1 DEF vars, GrantedWhileActive
    <2>2. CASE GrantedApartStep
      BY <2>2, GrantedWhileActiveStep
    <2> QED
      BY <2>1, <2>2
  <1>3. IInv /\ GrantedWhileActive /\ [Next]_vars => [Blocks]_vars
    <2> SUFFICES ASSUME IInv, GrantedWhileActive, [Next]_vars, NEW b \in Brands,
                        NEW m \in Members, brands[b].status = "archived",
                        assigned[b][m].role = "none", assigned'[b][m].role # "none"
                 PROVE  FALSE
      OBVIOUS
    <2> QED
      BY AppearsByInsertion DEF GrantedWhileActive
  <1>4. GrantedApart => [][GrantedApartStep]_vars
    BY PTL DEF GrantedApart, GrantedApartStep
  <1> QED
    BY <1>1, <1>2, <1>3, <1>4, Invariance, PTL DEF Spec, ArchivedBlocksAssignment
================================================================================
