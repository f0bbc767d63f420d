-------------------------------- MODULE Rbac --------------------------------
(***************************************************************************)
(* Administration of accounts, roles and grants                            *)
(* (app/services/rbac_service.py).  Role and permission links have ids of  *)
(* their own: an update or a removal deletes the rows it has loaded, by    *)
(* id, and a DELETE that no longer matches a row is only logged.  Rows     *)
(* inserted by one commit share a number here, which stands for their ids. *)
(***************************************************************************)
EXTENDS Requests, Sequences

CONSTANTS
    Emails,         \* e-mail addresses
    RoleNames,
    Permissions,    \* seeded permissions; no endpoint creates one
    MaxRoles,       \* bound: roles created
    MaxRows         \* bound: commits that insert links

ASSUME RbacAssumption ==
    /\ {MaxRoles, MaxRows} \subseteq Nat
    /\ NULL \notin BOOLEAN \cup RoleNames
    /\ \A P \in SUBSET Permissions : P # NULL
    /\ \A R \in SUBSET (1..MaxRoles) : R # NULL

VARIABLES
    accounts,       \* table users: per e-mail its is_admin, NULL when there is no row
    roles,          \* table roles, in the order of their INSERTs
    links,          \* table role_permissions
    grants,         \* table user_roles
    rowIds,         \* ids handed out to links and grants
    requested       \* history: per role, the permissions last asked for and committed

rbacTables == <<accounts, roles, links, grants, rowIds, requested>>

-----------------------------------------------------------------------------
Role == [name : RoleNames, is_active : BOOLEAN]

RolePermission == [id : Nat, role : Nat, permission : Permissions]

UserRole == [id : Nat, user : Emails, role : Nat]

CreateUserRequest ==
    [op : {"create_user"}, email : Emails, is_admin : BOOLEAN, role_ids : SUBSET (1..MaxRoles),
     found : {NULL} \cup SUBSET (1..MaxRoles)]

CreateRoleRequest == [op : {"create_role"}, name : RoleNames, permission_ids : SUBSET Permissions]

UpdateRoleRequest ==
    [op : {"update_role"}, role : Nat, loaded : Role,
     name : {NULL} \cup RoleNames, is_active : {NULL} \cup BOOLEAN,
     permission_ids : {NULL} \cup SUBSET Permissions,
     existing : {NULL} \cup SUBSET RolePermission]

AssignRoleRequest == [op : {"assign_role"}, user : Emails, role : Nat]

RemoveRoleRequest == [op : {"remove_role"}, row : UserRole]

RbacRequest ==
    CreateUserRequest \cup CreateRoleRequest \cup UpdateRoleRequest
    \cup AssignRoleRequest \cup RemoveRoleRequest

RoleIds == 1..Len(roles)

NameTaken(n, own) == \E r \in RoleIds : r # own /\ roles[r].name = n

\* _permissions_by_role and _roles_by_user.
permissions_by_role(r) == {l.permission : l \in {k \in links : k.role = r}}

roles_by_user(u) == {g.role : g \in {h \in grants : h.user = u}}

NewLinks(r, P) == {[id |-> rowIds + 1, role |-> r, permission |-> p] : p \in P}

-----------------------------------------------------------------------------
(* Users *)

\* create_user: 409 when the e-mail exists.
create_user(s, e, admin, R) ==
    /\ accounts[e] = NULL
    /\ Begin(s, [op |-> "create_user", email |-> e, is_admin |-> admin, role_ids |-> R,
                 found |-> NULL])
    /\ UNCHANGED rbacTables

Skips_unknown_roles(s) ==
    /\ req[s].op = "create_user" /\ req[s].found = NULL
    /\ Continue(s, [req[s] EXCEPT !.found = req[s].role_ids \cap RoleIds])
    /\ UNCHANGED rbacTables

\* The SELECT of the roles after the flush of the account: the session then has
\* an account without a grant, and an unknown role rolls it back (404).
SelectRoles(s) ==
    /\ req[s].op = "create_user" /\ req[s].found = NULL
    /\ req[s].role_ids \subseteq RoleIds
    /\ Continue(s, [req[s] EXCEPT !.found = req[s].role_ids \cap RoleIds])
    /\ UNCHANGED rbacTables

\* The grants of the roles found and the commit.  A request with the same
\* e-mail waits at its flush until this one ends; as roles are only added, it
\* makes no difference that the unique e-mail is looked at here.
CreateUserCommit(s) ==
    /\ req[s].op = "create_user" /\ req[s].found # NULL
    /\ accounts[req[s].email] = NULL
    /\ rowIds < MaxRows
    /\ accounts' = [accounts EXCEPT ![req[s].email] = req[s].is_admin]
    /\ grants' = grants \cup {[id |-> rowIds + 1, user |-> req[s].email, role |-> r] :
                              r \in req[s].found}
    /\ rowIds' = rowIds + 1
    /\ Finish(s)
    /\ UNCHANGED <<roles, links, requested>>

\* update_user.
update_user(s, e, admin) ==
    /\ accounts[e] # NULL
    /\ Instant(s)
    /\ accounts' = [accounts EXCEPT ![e] = admin]
    /\ UNCHANGED <<roles, links, grants, rowIds, requested>>

-----------------------------------------------------------------------------
(* Roles *)

\* create_role: 409 when the name exists.
create_role(s, n, P) ==
    /\ ~NameTaken(n, 0)
    /\ Begin(s, [op |-> "create_role", name |-> n, permission_ids |-> P])
    /\ UNCHANGED rbacTables

CreateRoleCommit(s) ==
    /\ req[s].op = "create_role"
    /\ ~NameTaken(req[s].name, 0)
    /\ Len(roles) < MaxRoles /\ rowIds < MaxRows
    /\ roles' = Append(roles, [name |-> req[s].name, is_active |-> TRUE])
    /\ links' = links \cup NewLinks(Len(roles) + 1, req[s].permission_ids)
    /\ rowIds' = rowIds + 1
    /\ requested' = [requested EXCEPT ![Len(roles) + 1] = req[s].permission_ids]
    /\ Finish(s)
    /\ UNCHANGED <<accounts, grants>>

\* update_role loads the role; 409 when another role has the new name.
update_role(s, r, n, a, P) ==
    /\ n # NULL /\ n # roles[r].name => ~NameTaken(n, r)
    /\ Begin(s, [op |-> "update_role", role |-> r, loaded |-> roles[r], name |-> n,
                 is_active |-> a, permission_ids |-> P, existing |-> NULL])
    /\ UNCHANGED rbacTables

\* The SELECT of existing_links.
SelectLinks(s) ==
    /\ req[s].op = "update_role" /\ req[s].permission_ids # NULL /\ req[s].existing = NULL
    /\ Continue(s, [req[s] EXCEPT !.existing = {l \in links : l.role = req[s].role}])
    /\ UNCHANGED rbacTables

\* A column of the role after the UPDATE: left alone when the payload does not
\* give it or the loaded object had that value.
Written(current, loaded, new) == IF new = NULL \/ new = loaded THEN current ELSE new

Only_inserts(s, inserted) == links \cup inserted

ReplacedLinks(s, inserted) == (links \ req[s].existing) \cup inserted

\* The flush deletes the loaded links, the commit inserts the requested ones;
\* either fails, and rolls back, on a unique constraint.
UpdateRoleCommit(s) ==
    LET r == req[s].role
        P == req[s].permission_ids
        n == Written(roles[r].name, req[s].loaded.name, req[s].name)
    IN  /\ req[s].op = "update_role"
        /\ P # NULL => req[s].existing # NULL
        /\ ~NameTaken(n, r)
        /\ roles' = [roles EXCEPT ![r] = [name |-> n,
                       is_active |-> Written(@.is_active, req[s].loaded.is_active, req[s].is_active)]]
        /\ \/ P = NULL /\ UNCHANGED <<links, rowIds, requested>>
           \/ /\ P # NULL /\ rowIds < MaxRows
              /\ \A l \in links \ req[s].existing : l.role = r => l.permission \notin P
              /\ links' = ReplacedLinks(s, NewLinks(r, P))
              /\ rowIds' = rowIds + 1
              /\ requested' = [requested EXCEPT ![r] = P]
        /\ Finish(s)
        /\ UNCHANGED <<accounts, grants>>

-----------------------------------------------------------------------------
(* Role assignment *)

\* assign_role, when the SELECT finds the grant: nothing is written.
AlreadyAssigned(s, u, r) ==
    /\ accounts[u] # NULL /\ r \in roles_by_user(u)
    /\ Instant(s)
    /\ UNCHANGED rbacTables

assign_role(s, u, r) ==
    /\ accounts[u] # NULL /\ r \notin roles_by_user(u)
    /\ Begin(s, [op |-> "assign_role", user |-> u, role |-> r])
    /\ UNCHANGED rbacTables

AssignCommit(s) ==
    /\ req[s].op = "assign_role"
    /\ req[s].role \notin roles_by_user(req[s].user)
    /\ rowIds < MaxRows
    /\ grants' = grants \cup {[id |-> rowIds + 1, user |-> req[s].user, role |-> req[s].role]}
    /\ rowIds' = rowIds + 1
    /\ Finish(s)
    /\ UNCHANGED <<accounts, roles, links, requested>>

\* remove_role: 404 when there is no such grant.
remove_role(s, g) ==
    /\ Begin(s, [op |-> "remove_role", row |-> g])
    /\ UNCHANGED rbacTables

RemoveCommit(s) ==
    /\ req[s].op = "remove_role"
    /\ grants' = grants \ {req[s].row}
    /\ Finish(s)
    /\ UNCHANGED <<accounts, roles, links, rowIds, requested>>

-----------------------------------------------------------------------------
RbacInit ==
    /\ accounts = [e \in Emails |-> NULL]
    /\ roles = << >>
    /\ links = {}
    /\ grants = {}
    /\ rowIds = 0
    /\ requested = [r \in 1..MaxRoles |-> {}]

RbacNext ==
    \/ \E s \in Sessions, e \in Emails, admin \in BOOLEAN, R \in SUBSET (1..MaxRoles) :
         create_user(s, e, admin, R)
    \/ \E s \in Sessions, e \in Emails, admin \in BOOLEAN : update_user(s, e, admin)
    \/ \E s \in Sessions, n \in RoleNames, P \in SUBSET Permissions : create_role(s, n, P)
    \/ \E s \in Sessions : \E r \in RoleIds :
         \/ \E n \in RoleNames \cup {NULL}, a \in BOOLEAN \cup {NULL} :
              update_role(s, r, n, a, NULL)
         \/ \E P \in SUBSET Permissions : update_role(s, r, NULL, NULL, P)
    \/ \E s \in Sessions, u \in Emails : \E r \in RoleIds :
         assign_role(s, u, r) \/ AlreadyAssigned(s, u, r)
    \/ \E s \in Sessions : \E g \in grants : remove_role(s, g)
    \/ \E s \in Sessions : \/ SelectRoles(s) \/ CreateUserCommit(s) \/ CreateRoleCommit(s)
                           \/ SelectLinks(s) \/ UpdateRoleCommit(s) \/ AssignCommit(s) \/ RemoveCommit(s)
                           \/ Abort(s) /\ UNCHANGED rbacTables

-----------------------------------------------------------------------------
RbacTypeOK ==
    /\ accounts \in [Emails -> {NULL} \cup BOOLEAN]
    /\ roles \in Seq(Role)
    /\ links \subseteq RolePermission
    /\ grants \subseteq UserRole
    /\ rowIds \in Nat
    /\ requested \in [1..MaxRoles -> SUBSET Permissions]

(* An update that gives permissions "replaces the role's permission set      *)
(* wholesale" (comment of RoleUpdate): whatever overlaps, the role has every *)
(* permission of the last update that committed, and as long as requests do  *)
(* not overlap it has no others.                                             *)
PermissionsAsRequested ==
    \A r \in RoleIds :
      /\ requested[r] \subseteq permissions_by_role(r)
      /\ ~overlapped => permissions_by_role(r) \subseteq requested[r]

CreatedWhole ==
    \A e \in Emails :
      accounts[e] = NULL /\ accounts'[e] # NULL =>
        \E s \in Sessions :
          /\ req[s].op = "create_user" /\ req[s].email = e
          /\ accounts'[e] = req[s].is_admin
          /\ roles_by_user(e)' = req[s].role_ids

(* An account is there only together with every role that was asked for, and *)
(* no other: a request that names a role which does not exist leaves nothing *)
(* of the account it has flushed, whatever other requests do meanwhile.      *)
AccountsCreatedWhole == [][CreatedWhole]_<<rbacTables, reqVars>>

-----------------------------------------------------------------------------
(* The inductive invariant of the two: the foreign keys and the unique       *)
(* constraint of the links and grants, that an update deletes links of its   *)
(* own role only, and that a new account that got past the check of its      *)
(* roles has found them all; until requests overlap an update has loaded     *)
(* every link of its role.                                                   *)

LinksRefer ==
    /\ Len(roles) <= MaxRoles
    /\ \A l \in links : l.role \in RoleIds

GrantsUnique ==
    /\ \A g \in grants : accounts[g.user] # NULL
    /\ \A g, h \in grants : g.user = h.user /\ g.role = h.role => g = h

RbacRequestRefers(s) ==
    /\ req[s].op = "update_role" =>
         /\ req[s].role \in RoleIds
         /\ req[s].existing # NULL => \A l \in req[s].existing : l.role = req[s].role
    /\ req[s].op = "assign_role" => accounts[req[s].user] # NULL
    /\ req[s].op = "create_user" /\ req[s].found # NULL => req[s].found = req[s].role_ids

RbacRequestFresh(s) ==
    req[s].op = "update_role" /\ req[s].existing # NULL =>
         \A l \in links : l.role = req[s].role => l \in req[s].existing

RbacInv ==
    /\ RbacTypeOK /\ RequestsOf(RbacRequest) /\ OneRequest
    /\ LinksRefer /\ GrantsUnique
    /\ \A s \in Sessions : RbacRequestRefers(s) /\ (~overlapped => RbacRequestFresh(s))
    /\ PermissionsAsRequested

RbacSpec == RequestsInit /\ RbacInit /\ [][RbacNext]_<<reqVars, rbacTables>>

=============================================================================
