---------------------------- MODULE WorkspaceBrands ----------------------------
(***************************************************************************)
(* One workspace and its brands: CreateBrand, UpdateBrand, AssignMember,   *)
(* RevokeBrandAccess, UpdateWorkspace, UpdateWorkspaceSettings and         *)
(* DeleteWorkspace, running concurrently over the tables workspaces,       *)
(* brands and brand_assignments.  A request keeps the rows it has read and *)
(* writes them back whole; no table has a version column.                  *)
(*                                                                         *)
(* The members of the workspace do not change here, and the role a command *)
(* needs in the workspace either is there or ends the request.             *)
(*                                                                         *)
(* A member and the account of that member are one here, which allows more *)
(* than the code does: it looks the actor of an assignment up by the one   *)
(* and stores the target by the other.  Permissions tells them apart.      *)
(***************************************************************************)
EXTENDS FiniteSets

CONSTANTS
    Members,       \* members of the workspace
    Owner,         \* its owner
    Names,         \* names of brands and of the workspace, and settings
    Brands,        \* identifiers of brands, each drawn once
    Creators,      \* goroutines serving CreateBrand
    Editors,       \* goroutines serving UpdateBrand
    Granters,      \* goroutines serving AssignMember or RevokeBrandAccess
    Updaters,      \* goroutines serving UpdateWorkspace or UpdateWorkspaceSettings
    Deleters,      \* goroutines serving DeleteWorkspace
    None,
    GrantedRoles,  \* brand roles the commands name
    Store,         \* "port" or "postgres": see Hydrated and SeenAssigned
    Faults         \* may repository calls fail and processes crash?

BrandRoles == {"owner", "manager", "editor", "viewer"}

ASSUME WorkspaceBrandsAssumption ==
    /\ Owner \in Members
    /\ None \notin Members \cup Names \cup Brands
    /\ Names # {}
    /\ GrantedRoles \subseteq BrandRoles
    /\ Store \in {"port", "postgres"}
    /\ Faults \in BOOLEAN

VARIABLES
    ws,         \* the row of table workspaces
    brands,     \* table brands; status "none" is an absent row
    assigned,   \* table brand_assignments; role "none" is an absent row
    create,     \* running CreateBrand requests
    edit,       \* running UpdateBrand requests
    grant,      \* running AssignMember and RevokeBrandAccess requests
    update,     \* running UpdateWorkspace and UpdateWorkspaceSettings requests
    delete      \* running DeleteWorkspace requests

\* History: read by the properties only.
VARIABLES
    owned,      \* <<brand, member>>: the member has been an owner of the brand
    touched     \* brands others have written since a deletion listed them

tables == <<ws, brands, assigned>>
history == <<owned, touched>>
vars == <<ws, brands, assigned, create, edit, grant, update, delete, owned, touched>>

\* The statuses of SM-02 and SM-06 that something here writes.
WorkspaceRow == [status : {"active", "pending_deletion"}, name : Names, settings : Names]
BrandRow == [status : {"none", "active", "archived"}, name : Names]
Assignment == [role : BrandRoles \cup {"none"}, by : Members \cup {None}]
NoAssignment == [role |-> "none", by |-> None]

AnyName == CHOOSE n \in Names : TRUE
NoBrand == [status |-> "none", name |-> AnyName]
NewWorkspace == [status |-> "active", name |-> AnyName, settings |-> AnyName]

IdleCreate == [pc |-> "idle", name |-> AnyName]
IdleEdit == [pc |-> "idle", actor |-> Owner, brand |-> None, row |-> NoBrand]
IdleGrant == [pc |-> "idle", op |-> "assign", actor |-> Owner, brand |-> None,
              target |-> Owner, role |-> "viewer", read |-> {}]
IdleUpdate == [pc |-> "idle", row |-> NewWorkspace]
IdleDelete == [pc |-> "idle", actor |-> Owner, row |-> NewWorkspace,
               read |-> [b \in Brands |-> NoBrand], todo |-> {}]

CreateState == [pc : {"idle", "list", "save"}, name : Names]
EditState ==
    {r \in [pc : {"idle", "apply", "save"}, actor : Members,
            brand : Brands \cup {None}, row : BrandRow] :
        r.pc # "idle" => r.brand \in Brands}
GrantState ==
    {r \in [pc : {"idle", "check", "save", "exists"}, op : {"assign", "revoke"},
            actor : Members, brand : Brands \cup {None}, target : Members,
            role : BrandRoles, read : SUBSET Members] :
        r.pc # "idle" => r.brand \in Brands}
UpdateState == [pc : {"idle", "save"}, row : WorkspaceRow]
DeleteState == [pc : {"idle", "not_owner", "list", "archive"}, actor : Members,
                row : WorkspaceRow, read : [Brands -> BrandRow], todo : SUBSET Brands]

\* Every variable holds a value of its kind; an assignment names its author,
\* and a running request its brand.
TypeOK ==
    /\ ws \in WorkspaceRow
    /\ brands \in [Brands -> BrandRow]
    /\ assigned \in [Brands -> [Members -> Assignment]]
    /\ \A b \in Brands, m \in Members :
          assigned[b][m].role = "none" <=> assigned[b][m].by = None
    /\ create \in [Creators -> CreateState]
    /\ edit \in [Editors -> EditState]
    /\ grant \in [Granters -> GrantState]
    /\ update \in [Updaters -> UpdateState]
    /\ delete \in [Deleters -> DeleteState]
    /\ owned \subseteq Brands \X Members
    /\ touched \in [Deleters -> SUBSET Brands]

\* A workspace has just been created; NewWorkspace adds its owner, no brand.
Init ==
    /\ ws = NewWorkspace
    /\ brands = [b \in Brands |-> NoBrand]
    /\ assigned = [b \in Brands |-> [m \in Members |-> NoAssignment]]
    /\ create = [c \in Creators |-> IdleCreate]
    /\ edit = [e \in Editors |-> IdleEdit]
    /\ grant = [g \in Granters |-> IdleGrant]
    /\ update = [u \in Updaters |-> IdleUpdate]
    /\ delete = [d \in Deleters |-> IdleDelete]
    /\ owned = {}
    /\ touched = [d \in Deleters |-> {}]

(***************************************************************************)
(* The two readings of the repositories.  "port": an absent row is         *)
(* ErrNotFound and GetByID gives the aggregate with its children, as the   *)
(* use cases expect.  "postgres": an absent row is nil without an error,   *)
(* and Rehydrate leaves the children out.                                  *)
(***************************************************************************)
Hydrated == Store = "port"
SeenAssigned(b, m) == assigned[b][m].role # "none" \/ Store = "postgres"

Exists(b) == brands[b].status # "none"

\* generateSlug appends eight digits of the identifier of the brand; slugify,
\* which CreateBrand and UpdateBrand compare slugs with, appends nothing.
Slug(b, name) == <<name, b>>
Slugify(name) == <<name, None>>
SlugTaken(name, except) ==
    \E b \in Brands \ except : Exists(b) /\ Slug(b, brands[b].name) = Slugify(name)

\* What DeleteWorkspace has listed of a brand is out of date from here on.
Touch(b) == touched' = [d \in Deleters |-> touched[d] \cup {b}]
--------------------------------------------------------------------------------
(* CreateBrand.Execute *)

\* Steps 2 and 3: no status of the workspace is looked at.
CreateLoad(c, name) ==
    /\ create[c].pc = "idle"
    /\ create' = [create EXCEPT ![c] = [pc |-> "list", name |-> name]]
    /\ UNCHANGED <<tables, edit, grant, update, delete, history>>

\* B-1.
CreateList(c) ==
    /\ create[c].pc = "list"
    /\ create' = [create EXCEPT ![c] =
          IF SlugTaken(create[c].name, {}) THEN IdleCreate ELSE [@ EXCEPT !.pc = "save"]]
    /\ UNCHANGED <<tables, edit, grant, update, delete, history>>

CreateSave(c, b) ==
    /\ create[c].pc = "save"
    /\ ~Exists(b)
    /\ \/ /\ brands' = [brands EXCEPT ![b] = [status |-> "active", name |-> create[c].name]]
          /\ Touch(b)
       \/ Faults /\ UNCHANGED <<brands, touched>>
    /\ create' = [create EXCEPT ![c] = IdleCreate]
    /\ UNCHANGED <<ws, assigned, edit, grant, update, delete, owned>>
--------------------------------------------------------------------------------
(* UpdateBrand.Execute *)

EditLoad(e, m, b) ==
    /\ edit[e].pc = "idle"
    /\ Exists(b)
    /\ edit' = [edit EXCEPT ![e] =
          [pc |-> "apply", actor |-> m, brand |-> b, row |-> brands[b]]]
    /\ UNCHANGED <<tables, create, grant, update, delete, history>>

\* Steps 3 and 4: the permission, then the name and the status of the command,
\* each of which may be missing; nothing to change ends the request.
EditApply(e, name, status) ==
    LET row == edit[e].row
        changed == [status |-> IF status = "nil" THEN row.status ELSE status,
                    name |-> IF name = None THEN row.name ELSE name]
        allowed == \/ edit[e].actor = Owner
                   \/ assigned[edit[e].brand][edit[e].actor].role \in {"owner", "manager"}
        taken == name \notin {None, row.name} /\ SlugTaken(name, {edit[e].brand})
    IN
    /\ edit[e].pc = "apply"
    /\ edit' = [edit EXCEPT ![e] =
          IF allowed /\ ~taken /\ changed # row
          THEN [@ EXCEPT !.pc = "save", !.row = changed] ELSE IdleEdit]
    /\ UNCHANGED <<tables, create, grant, update, delete, history>>

\* The whole row is written.
EditSave(e) ==
    /\ edit[e].pc = "save"
    /\ \/ /\ brands' = [brands EXCEPT ![edit[e].brand] = edit[e].row]
          /\ Touch(edit[e].brand)
       \/ Faults /\ UNCHANGED <<brands, touched>>
    /\ edit' = [edit EXCEPT ![e] = IdleEdit]
    /\ UNCHANGED <<ws, assigned, create, grant, update, delete, owned>>
--------------------------------------------------------------------------------
(* AssignMemberToBrand.Execute and RevokeBrandAccess.Execute *)

\* Step 2: an archived brand refuses both; the aggregate comes with its
\* assignments, or without.
GrantLoad(g, op, m, b, target, role) ==
    /\ grant[g].pc \in {"idle", "exists"}
    /\ brands[b].status = "active"
    /\ grant' = [grant EXCEPT ![g] =
          [pc |-> "check", op |-> op, actor |-> m, brand |-> b, target |-> target,
           role |-> role,
           read |-> IF Hydrated
                    THEN {n \in Members : assigned[b][n].role # "none"} ELSE {}]]
    /\ UNCHANGED <<tables, create, edit, update, delete, history>>

\* Mutant: any member who is assigned may assign.
MutantMayGrant(g) ==
    \/ grant[g].actor = Owner
    \/ assigned[grant[g].brand][grant[g].actor].role # "none"

\* B-5 and A003: the owner of the workspace, or an owner of the brand.
MayGrant(g) ==
    \/ grant[g].actor = Owner
    \/ assigned[grant[g].brand][grant[g].actor].role = "owner"

\* Step 3 of AssignMember, and Brand.AssignMember; a technical error of
\* GetAssignment counts as no assignment.
AssignCheck(g) ==
    LET seen == SeenAssigned(grant[g].brand, grant[g].target)
    IN
    /\ grant[g].pc = "check"
    /\ grant[g].op = "assign"
    /\ MayGrant(g)
    /\ \/ /\ seen
          /\ grant' = [grant EXCEPT ![g].pc = "exists"]
       \/ /\ ~seen \/ Faults
          /\ grant' = [grant EXCEPT ![g] =
                IF @.target \in @.read THEN IdleGrant ELSE [@ EXCEPT !.pc = "save"]]
    /\ UNCHANGED <<tables, create, edit, update, delete, history>>

\* Step 3 of RevokeBrandAccess, and Brand.RemoveMember.
RevokeCheck(g) ==
    /\ grant[g].pc = "check"
    /\ grant[g].op = "revoke"
    /\ MayGrant(g)
    /\ grant' = [grant EXCEPT ![g] =
          IF SeenAssigned(@.brand, @.target) /\ @.target \in @.read
          THEN [@ EXCEPT !.pc = "save"] ELSE IdleGrant]
    /\ UNCHANGED <<tables, create, edit, update, delete, history>>

GrantRefused(g) ==
    /\ grant[g].pc = "check"
    /\ ~MayGrant(g)
    /\ grant' = [grant EXCEPT ![g] = IdleGrant]
    /\ UNCHANGED <<tables, create, edit, update, delete, history>>

\* Mutant: the author is not passed to the INSERT.
MutantNewAssignment(g) == [role |-> grant[g].role, by |-> None]

NewAssignment(g) == [role |-> grant[g].role, by |-> grant[g].actor]

\* INSERT against uq_brand_assignments, or DELETE.
GrantSave(g) ==
    LET b == grant[g].brand
        m == grant[g].target
    IN
    /\ grant[g].pc = "save"
    /\ \/ /\ grant[g].op = "assign"
          /\ assigned[b][m].role = "none"
          /\ assigned' = [assigned EXCEPT ![b][m] = NewAssignment(g)]
          /\ owned' = IF grant[g].role = "owner" THEN owned \cup {<<b, m>>} ELSE owned
       \/ /\ grant[g].op = "revoke"
          /\ assigned' = [assigned EXCEPT ![b][m] = NoAssignment]
          /\ UNCHANGED owned
       \/ /\ (grant[g].op = "assign" /\ assigned[b][m].role # "none") \/ Faults
          /\ UNCHANGED <<assigned, owned>>
    /\ grant' = [grant EXCEPT ![g] = IdleGrant]
    /\ UNCHANGED <<ws, brands, create, edit, update, delete, touched>>
--------------------------------------------------------------------------------
(* UpdateWorkspace.Execute and UpdateWorkspaceSettings.Execute *)

\* The name changes in any status but deleted, the settings in active only.
UpdateLoad(u, field, value) ==
    /\ update[u].pc = "idle"
    /\ field = "settings" => ws.status = "active"
    /\ update' = [update EXCEPT ![u] =
          [pc |-> "save",
           row |-> IF field = "name" THEN [ws EXCEPT !.name = value]
                                     ELSE [ws EXCEPT !.settings = value]]]
    /\ UNCHANGED <<tables, create, edit, grant, delete, history>>

UpdateSave(u) ==
    /\ update[u].pc = "save"
    /\ ws' = update[u].row \/ (Faults /\ UNCHANGED ws)
    /\ update' = [update EXCEPT ![u] = IdleUpdate]
    /\ UNCHANGED <<brands, assigned, create, edit, grant, delete, history>>
--------------------------------------------------------------------------------
(* DeleteWorkspace.Execute *)

\* Workspace.Delete wants an owner among the members of the aggregate, and a
\* status that SM-02 leads to pending_deletion from.
DeleteLoad(d, m) ==
    /\ delete[d].pc \in {"idle", "not_owner"}
    /\ \/ /\ m = Owner /\ Hydrated
          /\ ws.status = "active"
          /\ delete' = [delete EXCEPT ![d] =
                [IdleDelete EXCEPT !.pc = "list", !.row = ws]]
       \/ /\ ~(m = Owner /\ Hydrated)
          /\ delete' = [delete EXCEPT ![d] =
                [IdleDelete EXCEPT !.pc = "not_owner", !.actor = m]]
    /\ UNCHANGED <<tables, create, edit, grant, update, history>>

\* Step 6b, after the sessions of the members have been revoked: the list.
DeleteList(d) ==
    /\ delete[d].pc = "list"
    /\ delete' = [delete EXCEPT ![d].pc = "archive", ![d].read = brands,
                                ![d].todo = {b \in Brands : Exists(b)}]
    /\ touched' = [touched EXCEPT ![d] = {}]
    /\ UNCHANGED <<tables, create, edit, grant, update, owned>>

\* Mutant: a brand that cannot be archived ends the loop.
MutantDeleteArchive(d, b) ==
    LET row == delete[d].read[b] IN
    /\ delete[d].pc = "archive"
    /\ b \in delete[d].todo
    /\ IF row.status = "active"
       THEN /\ brands' = [brands EXCEPT ![b] = [row EXCEPT !.status = "archived"]]
            /\ delete' = [delete EXCEPT ![d].todo = @ \ {b}]
       ELSE /\ delete' = [delete EXCEPT ![d].todo = {}]
            /\ UNCHANGED brands
    /\ UNCHANGED <<ws, assigned, create, edit, grant, update, history>>

\* One listed brand: only an active one is archived, and an error is dropped.
DeleteArchive(d, b) ==
    LET row == delete[d].read[b] IN
    /\ delete[d].pc = "archive"
    /\ b \in delete[d].todo
    /\ \/ /\ row.status = "active"
          /\ brands' = [brands EXCEPT ![b] = [row EXCEPT !.status = "archived"]]
       \/ (row.status # "active" \/ Faults) /\ UNCHANGED brands
    /\ delete' = [delete EXCEPT ![d].todo = @ \ {b}]
    /\ UNCHANGED <<ws, assigned, create, edit, grant, update, history>>

\* Mutant: the error of an archived brand is returned by the loop.
MutantDeleteSave(d) ==
    /\ delete[d].pc = "archive"
    /\ delete[d].todo = {}
    /\ IF \E b \in Brands : delete[d].read[b].status = "archived"
       THEN UNCHANGED ws
       ELSE ws' = [delete[d].row EXCEPT !.status = "pending_deletion"]
    /\ delete' = [delete EXCEPT ![d] = IdleDelete]
    /\ UNCHANGED <<brands, assigned, create, edit, grant, update, history>>

\* Step 7: the row that step 3 has loaded, with its new status.
DeleteSave(d) ==
    /\ delete[d].pc = "archive"
    /\ delete[d].todo = {}
    /\ ws' = [delete[d].row EXCEPT !.status = "pending_deletion"]
    /\ delete' = [delete EXCEPT ![d] = IdleDelete]
    /\ UNCHANGED <<brands, assigned, create, edit, grant, update, history>>

\* A process dies, or a call fails whose error ends the request.
Dies ==
    /\ Faults
    /\ \/ \E c \in Creators : /\ create' = [create EXCEPT ![c] = IdleCreate]
                              /\ UNCHANGED <<edit, grant, update, delete>>
       \/ \E e \in Editors : /\ edit' = [edit EXCEPT ![e] = IdleEdit]
                             /\ UNCHANGED <<create, grant, update, delete>>
       \/ \E g \in Granters : /\ grant' = [grant EXCEPT ![g] = IdleGrant]
                              /\ UNCHANGED <<create, edit, update, delete>>
       \/ \E u \in Updaters : /\ update' = [update EXCEPT ![u] = IdleUpdate]
                              /\ UNCHANGED <<create, edit, grant, delete>>
       \/ \E d \in Deleters : /\ delete' = [delete EXCEPT ![d] = IdleDelete]
                              /\ UNCHANGED <<create, edit, grant, update>>
    /\ UNCHANGED <<tables, history>>
--------------------------------------------------------------------------------
CreateNext(c) ==
    \/ \E name \in Names : CreateLoad(c, name)
    \/ CreateList(c)
    \/ \E b \in Brands : CreateSave(c, b)

EditNext(e) ==
    \/ \E m \in Members, b \in Brands : EditLoad(e, m, b)
    \/ \E name \in Names \cup {None}, status \in {"nil", "active", "archived"} :
          EditApply(e, name, status)
    \/ EditSave(e)

GrantNext(g) ==
    \/ \E op \in {"assign", "revoke"}, m \in Members, b \in Brands,
          target \in Members, role \in GrantedRoles :
             GrantLoad(g, op, m, b, target, role)
    \/ AssignCheck(g) \/ RevokeCheck(g) \/ GrantRefused(g)
    \/ GrantSave(g)

UpdateNext(u) ==
    \/ \E field \in {"name", "settings"}, value \in Names : UpdateLoad(u, field, value)
    \/ UpdateSave(u)

DeleteStep(d) ==
    \/ DeleteList(d)
    \/ \E b \in Brands : DeleteArchive(d, b)
    \/ DeleteSave(d)

Next ==
    \/ \E c \in Creators : CreateNext(c)
    \/ \E e \in Editors : EditNext(e)
    \/ \E g \in Granters : GrantNext(g)
    \/ \E u \in Updaters : UpdateNext(u)
    \/ \E d \in Deleters : (\E m \in Members : DeleteLoad(d, m)) \/ DeleteStep(d)
    \/ Dies

Spec == Init /\ [][Next]_vars

\* A deletion that has started runs to its end; users owe nothing.
FairSpec == Spec /\ \A d \in Deleters : WF_vars(DeleteStep(d))
--------------------------------------------------------------------------------
\* B-5: whoever a member was assigned to a brand by is the owner of the
\* workspace or has been an owner of that brand, however the permission, the
\* revocations and the insertion interleave; an admin is not enough.
AssignedByAnOwner ==
    \A b \in Brands, m \in Members :
        assigned[b][m].role # "none" =>
            assigned[b][m].by = Owner \/ <<b, assigned[b][m].by>> \in owned

\* X-1: without a fault, when a deletion stores its workspace, every brand it
\* has listed and nobody else has written since is archived, whatever the
\* statuses and the number of the others.
DeletionArchives ==
    [][\A d \in Deleters :
          delete[d].pc = "archive" /\ delete'[d].pc = "idle" =>
             \A b \in Brands \ touched[d] : brands[b].status # "active"]_vars

\* A deletion that has passed its guards makes the workspace pending deletion,
\* even when brands are already archived or change under it.
DeletionIsStored ==
    \A d \in Deleters :
        delete[d].pc \in {"list", "archive"} ~> ws.status = "pending_deletion"
--------------------------------------------------------------------------------
\* brand.go, B-1: no two brands of the workspace have the same name.
BrandNamesUnique ==
    \A a, b \in Brands :
        Exists(a) /\ Exists(b) /\ brands[a].name = brands[b].name => a = b

\* update.go: UpdateWorkspace changes the name or the description, so no update
\* takes the workspace out of its deletion.
UpdateKeepsStatus ==
    [][\A u \in Updaters :
          update[u].pc = "save" /\ update'[u].pc = "idle" => ws'.status = ws.status]_vars

\* brand/members.go, note 5: an archived brand blocks the assignment.
ArchivedBlocksAssignment ==
    [][\A b \in Brands, m \in Members :
          brands[b].status = "archived" /\ assigned[b][m].role = "none" =>
             assigned'[b][m].role = "none"]_vars

\* delete.go, step 6: access is blocked as soon as the deletion is pending, so
\* no brand is created from then on.
NoBrandOnceDeleting ==
    [][\A b \in Brands :
          ws.status = "pending_deletion" /\ ~Exists(b) => ~Exists(b)']_vars

\* delete.go, NOT_WORKSPACE_OWNER: who is refused so is not the owner.
NotOwnerMeansNotOwner ==
    \A d \in Deleters : delete[d].pc = "not_owner" => delete[d].actor # Owner

\* brand/members.go, BRAND_ASSIGNMENT_ALREADY_EXISTS: there is one, or there was
\* when the request looked.
ExistsMeansAssigned ==
    [][\A g \in Granters :
          grant[g].pc = "check" /\ grant'[g].pc = "exists" =>
             assigned[grant[g].brand][grant[g].target].role # "none"]_vars
--------------------------------------------------------------------------------
(***************************************************************************)
(* What a deletion comes to, and when an archived brand does block.        *)
(***************************************************************************)

\* delete.go, step 7: a deletion that has passed its guards ends only by storing
\* the workspace as pending deletion.
DeletionEndsStored ==
    [][\A d \in Deleters :
          /\ delete[d].pc \in {"list", "archive"}
          /\ delete'[d].pc \notin {"list", "archive"}
          => ws'.status = "pending_deletion"]_vars

\* delete.go, step 4: no deletion gets past its guards, its workspace stays active.
NothingIsDeleted ==
    /\ ws.status = "active"
    /\ \A d \in Deleters : delete[d].pc \notin {"list", "archive"}

\* No status of a brand changes while a request about its assignments is running.
GrantedApart ==
    [][\A g \in Granters, b \in Brands :
          /\ grant[g].pc \in {"check", "save"}
          /\ grant[g].brand = b
          => brands'[b].status = brands[b].status]_vars
================================================================================
