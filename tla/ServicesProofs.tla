--------------------------- MODULE ServicesProofs ---------------------------
(***************************************************************************)
(* Theorems about the smaller services, for any numbers of sessions and    *)
(* rows.  Part 1: roles and grants.  Part 2: provisioning of tenants, and  *)
(* the rows that refer to a tenant.  Part 3: notifications.  Part 4:       *)
(* compliance.  Part 5: posture reports.  Part 6: the services together.   *)
(***************************************************************************)
EXTENDS MCServices, AuthTokensProofs, RequestsProofs, FiniteSetTheorems,
        SequenceTheorems

-----------------------------------------------------------------------------
(* Part 1: roles, permissions and grants. *)

(* Which request is under way. *)
LEMMA RbacRequestUnderWay ==
  ASSUME RbacInv, NEW s \in Sessions
  PROVE  /\ req[s].op = "create_user" => req[s] \in CreateUserRequest
         /\ req[s].op = "create_role" => req[s] \in CreateRoleRequest
         /\ req[s].op = "update_role" => req[s] \in UpdateRoleRequest
         /\ req[s].op = "assign_role" => req[s] \in AssignRoleRequest
         /\ req[s].op = "remove_role" => req[s] \in RemoveRoleRequest
         /\ req[s].op # "none" => req[s] # Idle
<1>1. req[s] \in RbacRequest \cup {Idle}
  BY DEF RbacInv, RequestsOf
<1>2. PICK r : r = req[s]
  OBVIOUS
<1>3. CASE r = Idle
  BY <1>2, <1>3 DEF Idle
<1>4. CASE r \in CreateUserRequest
  <2>1. r.op = "create_user"
    BY <1>4 DEF CreateUserRequest
  <2> QED
    BY <1>2, <1>4, <2>1 DEF Idle
<1>5. CASE r \in CreateRoleRequest
  <2>1. r.op = "create_role"
    BY <1>5 DEF CreateRoleRequest
  <2> QED
    BY <1>2, <1>5, <2>1 DEF Idle
<1>6. CASE r \in UpdateRoleRequest
  <2>1. r.op = "update_role"
    BY <1>6 DEF UpdateRoleRequest
  <2> QED
    BY <1>2, <1>6, <2>1 DEF Idle
<1>7. CASE r \in AssignRoleRequest
  <2>1. r.op = "assign_role"
    BY <1>7 DEF AssignRoleRequest
  <2> QED
    BY <1>2, <1>7, <2>1 DEF Idle
<1>8. CASE r \in RemoveRoleRequest
  <2>1. r.op = "remove_role"
    BY <1>8 DEF RemoveRoleRequest
  <2> QED
    BY <1>2, <1>8, <2>1 DEF Idle
<1> QED
  BY <1>1, <1>2, <1>3, <1>4, <1>5, <1>6, <1>7, <1>8 DEF RbacRequest

\* No account and no role is deleted.
RbacRowsKept ==
    /\ \A e \in Emails : accounts[e] # NULL => accounts'[e] # NULL
    /\ Len(roles) <= Len(roles')

LEMMA RbacRefersKept ==
  ASSUME RbacInv, RbacTypeOK', RbacRowsKept, NEW t \in Sessions, req'[t] = req[t]
  PROVE  RbacRequestRefers(t)'
<1>1. RbacRequestRefers(t)
  BY DEF RbacInv
<1>2. RoleIds \subseteq RoleIds'
  BY DEF RbacInv, RbacTypeOK, RbacRowsKept, RoleIds
<1>3. req[t].op = "assign_role" => req[t].user \in Emails
  BY RbacRequestUnderWay DEF AssignRoleRequest
<1> QED
  BY <1>1, <1>2, <1>3 DEF RbacRequestRefers, RbacRowsKept

(* Views of unchanged tables. *)
LEMMA RbacViewsKept ==
  ASSUME RbacInv, UNCHANGED rbacTables, ~overlapped' => ~overlapped
  PROVE  /\ RbacTypeOK' /\ LinksRefer' /\ GrantsUnique' /\ RbacRowsKept
         /\ PermissionsAsRequested'
<1>1. RbacTypeOK' /\ RbacRowsKept
  BY DEF RbacInv, rbacTables, RbacTypeOK, RbacRowsKept
<1>2. LinksRefer' /\ GrantsUnique'
  BY DEF RbacInv, rbacTables, LinksRefer, GrantsUnique, RoleIds
<1>3. PermissionsAsRequested'
  BY DEF RbacInv, rbacTables, PermissionsAsRequested, RoleIds, permissions_by_role
<1> QED
  BY <1>1, <1>2, <1>3

LEMMA RbacBegins ==
  ASSUME RbacInv, NEW s \in Sessions, NEW r \in RbacRequest, Begin(s, r),
         UNCHANGED rbacTables,
         r.op = "update_role" => r.role \in RoleIds /\ r.existing = NULL,
         r.op = "assign_role" => accounts[r.user] # NULL,
         r.op = "create_user" => r.found = NULL
  PROVE  RbacInv'
<1>1. /\ RequestsOf(RbacRequest)' /\ OneRequest'
      /\ req'[s] = r /\ \A t \in Sessions \ {s} : req'[t] = req[t]
      /\ ~overlapped' => ~overlapped /\ \A t \in Sessions : req[t] = Idle
  BY Begins DEF RbacInv
<1>2. /\ RbacTypeOK' /\ LinksRefer' /\ GrantsUnique' /\ RbacRowsKept
      /\ PermissionsAsRequested'
  BY <1>1, RbacViewsKept
<1>3. RbacRequestRefers(s)' /\ RbacRequestFresh(s)'
  BY <1>1 DEF RbacRequestRefers, RbacRequestFresh, RoleIds, rbacTables
<1>4. ASSUME NEW t \in Sessions \ {s}
      PROVE  RbacRequestRefers(t)' /\ (~overlapped' => RbacRequestFresh(t)')
  <2>1. RbacRequestRefers(t)'
    BY <1>1, <1>2, RbacRefersKept
  <2>2. ASSUME ~overlapped' PROVE RbacRequestFresh(t)'
    <3>1. req'[t] = Idle
      BY <1>1, <2>2
    <3> QED
      BY <3>1 DEF RbacRequestFresh, Idle
  <2> QED
    BY <2>1, <2>2
<1> QED
  BY <1>1, <1>2, <1>3, <1>4 DEF RbacInv

LEMMA RbacEnds ==
  ASSUME RbacInv, NEW s \in Sessions, req[s] # Idle, Finish(s),
         RbacTypeOK', LinksRefer', GrantsUnique', RbacRowsKept,
         PermissionsAsRequested'
  PROVE  RbacInv'
<1>1. /\ RequestsOf(RbacRequest)' /\ OneRequest'
      /\ req'[s] = Idle /\ \A t \in Sessions \ {s} : req'[t] = req[t]
      /\ overlapped' = overlapped
      /\ ~overlapped => \A t \in Sessions \ {s} : req[t] = Idle
  BY Continues DEF RbacInv, Finish
<1>2. ASSUME NEW t \in Sessions
      PROVE  RbacRequestRefers(t)' /\ (~overlapped' => RbacRequestFresh(t)')
  <2>1. req'[t] = Idle => RbacRequestRefers(t)' /\ RbacRequestFresh(t)'
    BY DEF RbacRequestRefers, RbacRequestFresh, Idle
  <2>2. ~overlapped' => req'[t] = Idle
    BY <1>1
  <2> QED
    BY <2>1, <2>2, <1>1, RbacRefersKept
<1> QED
  BY <1>1, <1>2 DEF RbacInv

LEMMA RbacInstant ==
  ASSUME RbacInv, NEW s \in Sessions, Instant(s), UNCHANGED <<roles, links, grants>>,
         RbacTypeOK', GrantsUnique', RbacRowsKept, UNCHANGED requested
  PROVE  RbacInv'
<1>1. /\ RequestsOf(RbacRequest)' /\ OneRequest' /\ req' = req
      /\ ~overlapped' => ~overlapped /\ \A t \in Sessions : req[t] = Idle
  BY Instants DEF RbacInv
<1>2. ASSUME NEW t \in Sessions
      PROVE  RbacRequestRefers(t)' /\ (~overlapped' => RbacRequestFresh(t)')
  <2>1. RbacRequestRefers(t)'
    BY <1>1, RbacRefersKept
  <2>2. ASSUME ~overlapped' PROVE RbacRequestFresh(t)'
    <3>1. req'[t] = Idle
      BY <1>1, <2>2
    <3> QED
      BY <3>1 DEF RbacRequestFresh, Idle
  <2> QED
    BY <2>1, <2>2
<1>3. LinksRefer'
  BY DEF RbacInv, LinksRefer, RoleIds
<1>4. PermissionsAsRequested'
  BY <1>1 DEF RbacInv, PermissionsAsRequested, permissions_by_role, RoleIds
<1> QED
  BY <1>1, <1>2, <1>3, <1>4 DEF RbacInv

(* The first reads of the handlers. *)
LEMMA RbacLoads ==
  ASSUME RbacInv, NEW s \in Sessions,
         \/ \E e \in Emails, admin \in BOOLEAN, R \in SUBSET (1..MaxRoles) :
              create_user(s, e, admin, R)
         \/ \E n \in RoleNames, P \in SUBSET Permissions : create_role(s, n, P)
         \/ \E r \in RoleIds, n \in RoleNames \cup {NULL}, a \in BOOLEAN \cup {NULL},
               P \in {NULL} \cup SUBSET Permissions : update_role(s, r, n, a, P)
         \/ \E u \in Emails, r \in RoleIds : assign_role(s, u, r)
         \/ \E g \in grants : remove_role(s, g)
  PROVE  RbacInv'
<1>1. ASSUME NEW e \in Emails, NEW admin \in BOOLEAN, NEW R \in SUBSET (1..MaxRoles),
             create_user(s, e, admin, R)
      PROVE  RbacInv'
  <2>1. PICK q : q = [op |-> "create_user", email |-> e, is_admin |-> admin, role_ids |-> R,
                    found |-> NULL]
    OBVIOUS
  <2>2. q \in CreateUserRequest /\ q.op = "create_user" /\ q.found = NULL
    BY <2>1 DEF CreateUserRequest
  <2>3. Begin(s, q) /\ UNCHANGED rbacTables
    BY <1>1, <2>1 DEF create_user
  <2> QED
    BY <2>2, <2>3, RbacBegins DEF RbacRequest
<1>2. ASSUME NEW n \in RoleNames, NEW P \in SUBSET Permissions, create_role(s, n, P)
      PROVE  RbacInv'
  <2>1. PICK q : q = [op |-> "create_role", name |-> n, permission_ids |-> P]
    OBVIOUS
  <2>2. q \in CreateRoleRequest /\ q.op = "create_role"
    BY <2>1 DEF CreateRoleRequest
  <2>3. Begin(s, q) /\ UNCHANGED rbacTables
    BY <1>2, <2>1 DEF create_role
  <2> QED
    BY <2>2, <2>3, RbacBegins DEF RbacRequest
<1>3. ASSUME NEW r \in RoleIds, NEW n \in RoleNames \cup {NULL}, NEW a \in BOOLEAN \cup {NULL},
             NEW P \in {NULL} \cup SUBSET Permissions, update_role(s, r, n, a, P)
      PROVE  RbacInv'
  <2>1. PICK q, row : /\ row = roles[r]
                      /\ q = [op |-> "update_role", role |-> r, loaded |-> row, name |-> n,
                              is_active |-> a, permission_ids |-> P, existing |-> NULL]
    OBVIOUS
  <2>2. row \in Role /\ r \in Nat
    BY <2>1 DEF RbacInv, RbacTypeOK, RoleIds
  <2>3. q \in UpdateRoleRequest /\ q.op = "update_role" /\ q.role = r /\ q.existing = NULL
    BY <2>1, <2>2 DEF UpdateRoleRequest
  <2>4. Begin(s, q) /\ UNCHANGED rbacTables
    BY <1>3, <2>1 DEF update_role
  <2> QED
    BY <2>3, <2>4, RbacBegins DEF RbacRequest
<1>4. ASSUME NEW u \in Emails, NEW r \in RoleIds, assign_role(s, u, r) PROVE RbacInv'
  <2>1. PICK q : q = [op |-> "assign_role", user |-> u, role |-> r]
    OBVIOUS
  <2>2. q \in AssignRoleRequest /\ q.op = "assign_role" /\ q.user = u
    BY <2>1 DEF AssignRoleRequest, RoleIds
  <2>3. Begin(s, q) /\ UNCHANGED rbacTables /\ accounts[u] # NULL
    BY <1>4, <2>1 DEF assign_role
  <2> QED
    BY <2>2, <2>3, RbacBegins DEF RbacRequest
<1>5. ASSUME NEW g \in grants, remove_role(s, g) PROVE RbacInv'
  <2>1. PICK q : q = [op |-> "remove_role", row |-> g]
    OBVIOUS
  <2>2. q \in RemoveRoleRequest /\ q.op = "remove_role" /\ q.row = g
    BY <2>1 DEF RemoveRoleRequest, RbacInv, RbacTypeOK
  <2>3. Begin(s, q) /\ UNCHANGED rbacTables
    BY <1>5, <2>1 DEF remove_role
  <2> QED
    BY <2>2, <2>3, RbacBegins DEF RbacRequest
<1> QED
  BY <1>1, <1>2, <1>3, <1>4, <1>5

(* The SELECT of the links that an update will delete. *)
LEMMA SelectLinksKeeps ==
  ASSUME RbacInv, NEW s \in Sessions, SelectLinks(s)
  PROVE  RbacInv'
<1>1. PICK q, E : q = req[s] /\ E = {l \in links : l.role = req[s].role}
  OBVIOUS
<1>2. PICK r : r = [q EXCEPT !.existing = E]
  OBVIOUS
<1>3. q \in UpdateRoleRequest /\ q.op = "update_role" /\ req[s] # Idle
  BY <1>1, RbacRequestUnderWay DEF SelectLinks
<1>4. E \subseteq RolePermission
  BY <1>1 DEF RbacInv, RbacTypeOK
<1>5. r \in UpdateRoleRequest /\ r.op = "update_role" /\ r.role = q.role /\ r.existing = E
  BY <1>2, <1>3, <1>4 DEF UpdateRoleRequest
<1>6. Continue(s, r) /\ UNCHANGED rbacTables
  BY <1>1, <1>2 DEF SelectLinks
<1>7. /\ RequestsOf(RbacRequest)' /\ OneRequest'
      /\ req'[s] = r /\ \A t \in Sessions \ {s} : req'[t] = req[t]
      /\ overlapped' = overlapped
      /\ ~overlapped => \A t \in Sessions \ {s} : req[t] = Idle
  <2>1. r \in RbacRequest \cup {Idle}
    BY <1>5 DEF RbacRequest
  <2> QED
    BY <2>1, <1>3, <1>6, Continues DEF RbacInv
<1>8. /\ RbacTypeOK' /\ LinksRefer' /\ GrantsUnique' /\ RbacRowsKept
      /\ PermissionsAsRequested'
  BY <1>6, <1>7, RbacViewsKept
<1>9. RbacRequestRefers(s)' /\ RbacRequestFresh(s)'
  <2>1. q.role \in RoleIds
    BY <1>1, <1>3 DEF RbacInv, RbacRequestRefers
  <2>2. roles' = roles /\ links' = links
    BY <1>6 DEF rbacTables
  <2> QED
    BY <2>1, <2>2, <1>1, <1>5, <1>7 DEF RbacRequestRefers, RbacRequestFresh, RoleIds
<1>10. ASSUME NEW t \in Sessions \ {s}
       PROVE  RbacRequestRefers(t)' /\ (~overlapped' => RbacRequestFresh(t)')
  <2>1. RbacRequestRefers(t)'
    BY <1>7, <1>8, RbacRefersKept
  <2>2. ~overlapped' => RbacRequestFresh(t)'
    BY <1>7 DEF RbacRequestFresh, Idle
  <2> QED
    BY <2>1, <2>2
<1> QED
  BY <1>7, <1>8, <1>9, <1>10 DEF RbacInv

(* The SELECT of the roles of a new account. *)
LEMMA SelectRolesKeeps ==
  ASSUME RbacInv, NEW s \in Sessions, SelectRoles(s)
  PROVE  RbacInv'
<1>1. PICK q, F : q = req[s] /\ F = req[s].role_ids \cap RoleIds
  OBVIOUS
<1>2. PICK r : r = [q EXCEPT !.found = F]
  OBVIOUS
<1>3. q \in CreateUserRequest /\ q.op = "create_user" /\ req[s] # Idle
  BY <1>1, RbacRequestUnderWay DEF SelectRoles
<1>4. F \subseteq 1..MaxRoles /\ F = q.role_ids
  BY <1>1, <1>3 DEF SelectRoles, CreateUserRequest
<1>5. r \in CreateUserRequest /\ r.op = "create_user" /\ r.found = r.role_ids
  BY <1>2, <1>3, <1>4 DEF CreateUserRequest
<1>6. Continue(s, r) /\ UNCHANGED rbacTables
  BY <1>1, <1>2 DEF SelectRoles
<1>7. /\ RequestsOf(RbacRequest)' /\ OneRequest'
      /\ req'[s] = r /\ \A t \in Sessions \ {s} : req'[t] = req[t]
      /\ overlapped' = overlapped
      /\ ~overlapped => \A t \in Sessions \ {s} : req[t] = Idle
  <2>1. r \in RbacRequest \cup {Idle}
    BY <1>5 DEF RbacRequest
  <2> QED
    BY <2>1, <1>3, <1>6, Continues DEF RbacInv
<1>8. /\ RbacTypeOK' /\ LinksRefer' /\ GrantsUnique' /\ RbacRowsKept
      /\ PermissionsAsRequested'
  BY <1>6, <1>7, RbacViewsKept
<1>9. RbacRequestRefers(s)' /\ RbacRequestFresh(s)'
  BY <1>5, <1>7 DEF RbacRequestRefers, RbacRequestFresh
<1>10. ASSUME NEW t \in Sessions \ {s}
       PROVE  RbacRequestRefers(t)' /\ (~overlapped' => RbacRequestFresh(t)')
  <2>1. RbacRequestRefers(t)'
    BY <1>7, <1>8, RbacRefersKept
  <2>2. ~overlapped' => RbacRequestFresh(t)'
    BY <1>7 DEF RbacRequestFresh, Idle
  <2> QED
    BY <2>1, <2>2
<1> QED
  BY <1>7, <1>8, <1>9, <1>10 DEF RbacInv

LEMMA update_user_keeps ==
  ASSUME RbacInv, NEW s \in Sessions, NEW e \in Emails, NEW admin \in BOOLEAN,
         update_user(s, e, admin)
  PROVE  RbacInv'
<1>1. /\ Instant(s) /\ accounts' = [accounts EXCEPT ![e] = admin]
      /\ UNCHANGED <<roles, links, grants, rowIds, requested>>
  BY DEF update_user
<1>2. /\ accounts' \in [Emails -> {NULL} \cup BOOLEAN]
      /\ \A x \in Emails : accounts[x] # NULL => accounts'[x] # NULL
  BY <1>1, RbacAssumption DEF RbacInv, RbacTypeOK
<1>3. RbacTypeOK' /\ RbacRowsKept
  BY <1>1, <1>2 DEF RbacInv, RbacTypeOK, RbacRowsKept
<1>4. GrantsUnique'
  <2>1. \A g \in grants : g.user \in Emails
    BY DEF RbacInv, RbacTypeOK, UserRole
  <2> QED
    BY <2>1, <1>1, <1>2 DEF RbacInv, GrantsUnique
<1> QED
  BY <1>1, <1>3, <1>4, RbacInstant

LEMMA AlreadyAssignedKeeps ==
  ASSUME RbacInv, NEW s \in Sessions, NEW u \in Emails, NEW r \in RoleIds,
         AlreadyAssigned(s, u, r)
  PROVE  RbacInv'
<1>1. Instant(s) /\ UNCHANGED <<accounts, roles, links, grants, rowIds, requested>>
  BY DEF AlreadyAssigned, rbacTables
<1>2. RbacTypeOK' /\ RbacRowsKept
  BY <1>1 DEF RbacInv, RbacTypeOK, RbacRowsKept
<1>3. GrantsUnique'
  BY <1>1 DEF RbacInv, GrantsUnique
<1> QED
  BY <1>1, <1>2, <1>3, RbacInstant

LEMMA RbacAborts ==
  ASSUME RbacInv, NEW s \in Sessions, Abort(s), UNCHANGED rbacTables
  PROVE  RbacInv'
<1>1. req[s] # Idle /\ Finish(s) /\ overlapped' = overlapped
  BY DEF Abort, Finish, Continue
<1> QED
  BY <1>1, RbacViewsKept, RbacEnds

LEMMA PermissionsKept ==
  ASSUME RbacInv, UNCHANGED <<roles, links, requested, overlapped>>
  PROVE  LinksRefer' /\ PermissionsAsRequested'
<1>1. LinksRefer'
  BY DEF RbacInv, LinksRefer, RoleIds
<1>2. PermissionsAsRequested'
  BY DEF RbacInv, PermissionsAsRequested, permissions_by_role, RoleIds
<1> QED
  BY <1>1, <1>2

LEMMA GrantsKept ==
  ASSUME RbacInv, UNCHANGED <<accounts, grants>>
  PROVE  GrantsUnique'
BY DEF RbacInv, GrantsUnique

(* A new account comes with the grants it was asked for. *)
LEMMA CreateUserCommitKeeps ==
  ASSUME RbacInv, NEW s \in Sessions, CreateUserCommit(s)
  PROVE  RbacInv' /\ CreatedWhole
<1>1. PICK e, admin, R, n : /\ e = req[s].email /\ admin = req[s].is_admin
                            /\ R = req[s].found /\ n = rowIds + 1
  OBVIOUS
<1>2. req[s] \in CreateUserRequest /\ req[s] # Idle
  BY RbacRequestUnderWay DEF CreateUserCommit
<1>3. e \in Emails /\ admin \in BOOLEAN /\ R \subseteq 1..MaxRoles /\ n \in Nat
  BY <1>1, <1>2 DEF CreateUserCommit, CreateUserRequest, RbacInv, RbacTypeOK
<1>4. PICK N : N = {[id |-> n, user |-> e, role |-> r] : r \in R}
  OBVIOUS
<1>5. /\ accounts[e] = NULL /\ accounts' = [accounts EXCEPT ![e] = admin]
      /\ grants' = grants \cup N /\ rowIds' = n
      /\ Finish(s) /\ overlapped' = overlapped /\ UNCHANGED <<roles, links, requested>>
  BY <1>1, <1>4 DEF CreateUserCommit, Finish, Continue
<1> HIDE <1>1
<1>6. /\ N \subseteq UserRole
      /\ \A g \in N : g.user = e /\ g.role \in R
      /\ \A r \in R : \E g \in N : g.user = e /\ g.role = r
      /\ \A g, h \in N : g.role = h.role => g = h
  <2> DEFINE G(r) == [id |-> n, user |-> e, role |-> r]
  <2>1. ASSUME NEW r \in R PROVE G(r) \in UserRole /\ G(r).user = e /\ G(r).role = r
    BY <1>3 DEF UserRole
  <2> HIDE DEF G
  <2>2. \A g : g \in N <=> \E r \in R : g = G(r)
    BY <1>4 DEF G
  <2>3. ASSUME NEW g \in N, NEW h \in N, g.role = h.role PROVE g = h
    BY <2>1, <2>2, <2>3
  <2>4. \A r \in R : \E g \in N : g.user = e /\ g.role = r
    BY <2>1, <2>2
  <2>5. \A g \in N : g \in UserRole /\ g.user = e /\ g.role \in R
    BY <2>1, <2>2
  <2> QED
    BY <2>3, <2>4, <2>5
<1>7. /\ accounts' \in [Emails -> {NULL} \cup BOOLEAN] /\ accounts'[e] # NULL
      /\ \A x \in Emails : accounts[x] # NULL => accounts'[x] # NULL
  BY <1>3, <1>5, RbacAssumption DEF RbacInv, RbacTypeOK
<1>8. RbacTypeOK' /\ RbacRowsKept
  BY <1>3, <1>5, <1>6, <1>7 DEF RbacInv, RbacTypeOK, RbacRowsKept
<1>9. \A g \in grants : g.user \in Emails /\ g.user # e
  BY <1>5 DEF RbacInv, RbacTypeOK, UserRole, GrantsUnique
<1>10. GrantsUnique'
  BY <1>5, <1>6, <1>7, <1>9 DEF RbacInv, GrantsUnique
<1>11. roles_by_user(e)' = R
  BY <1>5, <1>6, <1>9 DEF roles_by_user
<1>12. R = req[s].role_ids
  BY <1>1, <1>2 DEF RbacInv, RbacRequestRefers, CreateUserCommit
<1>13. CreatedWhole
  <2> SUFFICES ASSUME NEW x \in Emails, accounts[x] = NULL, accounts'[x] # NULL
               PROVE  /\ req[s].op = "create_user" /\ req[s].email = x
                      /\ accounts'[x] = req[s].is_admin
                      /\ roles_by_user(x)' = req[s].role_ids
    BY DEF CreatedWhole
  <2>1. x = e
    BY <1>3, <1>5 DEF RbacInv, RbacTypeOK
  <2>2. accounts'[e] = admin
    BY <1>3, <1>5 DEF RbacInv, RbacTypeOK
  <2> QED
    BY <2>1, <2>2, <1>1, <1>11, <1>12 DEF CreateUserCommit
<1> QED
  BY <1>2, <1>5, <1>8, <1>10, <1>13, PermissionsKept, RbacEnds

LEMMA AssignCommitKeeps ==
  ASSUME RbacInv, NEW s \in Sessions, AssignCommit(s)
  PROVE  RbacInv'
<1>1. PICK u, r, n : u = req[s].user /\ r = req[s].role /\ n = rowIds + 1
  OBVIOUS
<1>2. req[s] \in AssignRoleRequest /\ req[s] # Idle /\ req[s].op = "assign_role"
  BY RbacRequestUnderWay DEF AssignCommit
<1>3. u \in Emails /\ r \in Nat /\ n \in Nat /\ accounts[u] # NULL
  BY <1>1, <1>2 DEF AssignRoleRequest, RbacInv, RbacTypeOK, RbacRequestRefers
<1>4. PICK g : g = [id |-> n, user |-> u, role |-> r]
  OBVIOUS
<1>5. /\ r \notin roles_by_user(u) /\ grants' = grants \cup {g} /\ rowIds' = n
      /\ Finish(s) /\ overlapped' = overlapped
      /\ UNCHANGED <<accounts, roles, links, requested>>
  BY <1>1, <1>4 DEF AssignCommit, Finish, Continue
<1>6. g \in UserRole /\ g.user = u /\ g.role = r
  BY <1>3, <1>4 DEF UserRole
<1>7. RbacTypeOK' /\ RbacRowsKept
  BY <1>3, <1>5, <1>6 DEF RbacInv, RbacTypeOK, RbacRowsKept
<1>8. \A h \in grants : ~(h.user = u /\ h.role = r)
  BY <1>5 DEF roles_by_user
<1>9. GrantsUnique'
  BY <1>3, <1>5, <1>6, <1>8 DEF RbacInv, GrantsUnique
<1> QED
  BY <1>2, <1>5, <1>7, <1>9, PermissionsKept, RbacEnds

LEMMA RemoveCommitKeeps ==
  ASSUME RbacInv, NEW s \in Sessions, RemoveCommit(s)
  PROVE  RbacInv'
<1>1. req[s] # Idle
  BY RbacRequestUnderWay DEF RemoveCommit
<1>2. /\ grants' = grants \ {req[s].row}
      /\ Finish(s) /\ overlapped' = overlapped
      /\ UNCHANGED <<accounts, roles, links, rowIds, requested>>
  BY DEF RemoveCommit, Finish, Continue
<1>3. RbacTypeOK' /\ RbacRowsKept
  BY <1>2 DEF RbacInv, RbacTypeOK, RbacRowsKept
<1>4. GrantsUnique'
  BY <1>2 DEF RbacInv, GrantsUnique
<1> QED
  BY <1>1, <1>2, <1>3, <1>4, PermissionsKept, RbacEnds

LEMMA LinksInserted ==
  ASSUME RbacTypeOK, NEW r \in Nat, NEW P \in SUBSET Permissions
  PROVE  /\ NewLinks(r, P) \subseteq RolePermission
         /\ \A l \in NewLinks(r, P) : l.role = r /\ l.permission \in P
         /\ \A p \in P : \E l \in NewLinks(r, P) : l.role = r /\ l.permission = p
<1>1. PICK n : n = rowIds + 1
  OBVIOUS
<1>2. n \in Nat
  BY <1>1 DEF RbacTypeOK
<1>3. NewLinks(r, P) = {[id |-> n, role |-> r, permission |-> p] : p \in P}
  BY <1>1 DEF NewLinks
<1> DEFINE L(p) == [id |-> n, role |-> r, permission |-> p]
<1>4. ASSUME NEW p \in P PROVE L(p) \in RolePermission /\ L(p).role = r /\ L(p).permission = p
  BY <1>2 DEF RolePermission
<1> HIDE DEF L
<1>5. \A l : l \in NewLinks(r, P) <=> \E p \in P : l = L(p)
  BY <1>3 DEF L
<1>6. \A p \in P : \E l \in NewLinks(r, P) : l.role = r /\ l.permission = p
  BY <1>4, <1>5
<1>7. \A l \in NewLinks(r, P) : l \in RolePermission /\ l.role = r /\ l.permission \in P
  BY <1>4, <1>5
<1> QED
  BY <1>6, <1>7

LEMMA CreateRoleCommitKeeps ==
  ASSUME RbacInv, NEW s \in Sessions, CreateRoleCommit(s)
  PROVE  RbacInv'
<1>1. PICK r, P, N, n : /\ r = Len(roles) + 1 /\ P = req[s].permission_ids
                        /\ N = NewLinks(r, P) /\ n = req[s].name
  OBVIOUS
<1>2. req[s] \in CreateRoleRequest /\ req[s] # Idle
  BY RbacRequestUnderWay DEF CreateRoleCommit
<1>3. /\ P \subseteq Permissions /\ n \in RoleNames /\ r \in Nat /\ r \in 1..MaxRoles
      /\ MaxRoles \in Nat /\ Len(roles) \in Nat
  BY <1>1, <1>2, RbacAssumption DEF CreateRoleRequest, CreateRoleCommit, RbacInv, RbacTypeOK
<1>4. PICK b, row : b \in BOOLEAN /\ b = TRUE /\ row = [name |-> n, is_active |-> b]
  OBVIOUS
<1>5. /\ roles' = Append(roles, row) /\ links' = links \cup N /\ rowIds' = rowIds + 1
      /\ requested' = [requested EXCEPT ![r] = P]
      /\ Finish(s) /\ overlapped' = overlapped /\ UNCHANGED <<accounts, grants>>
  BY <1>1, <1>4 DEF CreateRoleCommit, Finish, Continue
<1>6. row \in Role
  <2>1. row = [name |-> n, is_active |-> b] /\ b \in BOOLEAN
    BY <1>4
  <2> HIDE <1>4
  <2> QED
    BY <2>1, <1>3 DEF Role
<1>7. roles' \in Seq(Role) /\ Len(roles') = r
  BY <1>1, <1>5, <1>6 DEF RbacInv, RbacTypeOK
<1>8. /\ N \subseteq RolePermission /\ \A l \in N : l.role = r /\ l.permission \in P
      /\ \A p \in P : \E l \in N : l.role = r /\ l.permission = p
  BY <1>1, <1>3, LinksInserted DEF RbacInv
<1>9. /\ requested' \in [1..MaxRoles -> SUBSET Permissions] /\ requested'[r] = P
      /\ \A x \in 1..MaxRoles : x # r => requested'[x] = requested[x]
  BY <1>3, <1>5 DEF RbacInv, RbacTypeOK
<1>10. RbacTypeOK' /\ RbacRowsKept
  BY <1>1, <1>3, <1>5, <1>7, <1>8, <1>9 DEF RbacInv, RbacTypeOK, RbacRowsKept
<1>11. RoleIds = 1..(r - 1) /\ RoleIds' = 1..r
  BY <1>1, <1>3, <1>7 DEF RoleIds
<1>12. LinksRefer'
  BY <1>3, <1>5, <1>7, <1>8, <1>11 DEF RbacInv, LinksRefer
<1>13. PermissionsAsRequested'
  <2> SUFFICES ASSUME NEW x \in 1..r
               PROVE  /\ \A p \in requested'[x] : \E l \in links' : l.role = x /\ l.permission = p
                      /\ ~overlapped => \A l \in links' : l.role = x => l.permission \in requested'[x]
    BY <1>5, <1>11 DEF PermissionsAsRequested, permissions_by_role
  <2>1. CASE x = r
    <3>1. \A l \in links : l.role # r
      BY <1>3, <1>11 DEF RbacInv, LinksRefer
    <3> QED
      BY <2>1, <3>1, <1>5, <1>8, <1>9
  <2>2. CASE x # r
    <3>1. x \in RoleIds /\ x \in 1..MaxRoles
      BY <2>2, <1>3, <1>11
    <3>2. /\ \A p \in requested[x] : \E l \in links : l.role = x /\ l.permission = p
          /\ ~overlapped => \A l \in links : l.role = x => l.permission \in requested[x]
      BY <3>1 DEF RbacInv, PermissionsAsRequested, permissions_by_role
    <3> QED
      BY <2>2, <3>1, <3>2, <1>5, <1>8, <1>9
  <2> QED
    BY <2>1, <2>2
<1> QED
  BY <1>2, <1>5, <1>10, <1>12, <1>13, GrantsKept, RbacEnds

(* An update deletes the links it has loaded, which are its own role's. *)
LEMMA UpdateRoleCommitKeeps ==
  ASSUME RbacInv, NEW s \in Sessions, UpdateRoleCommit(s)
  PROVE  RbacInv'
<1>1. PICK q, r, P, N, E : /\ q = req[s] /\ r = q.role /\ P = q.permission_ids
                           /\ N = NewLinks(r, P) /\ E = q.existing
  OBVIOUS
<1>2. q \in UpdateRoleRequest /\ req[s] # Idle /\ req[s].op = "update_role"
  BY <1>1, RbacRequestUnderWay DEF UpdateRoleCommit
<1>3. /\ r \in RoleIds /\ r \in Nat /\ r \in 1..MaxRoles
      /\ E # NULL => \A l \in E : l.role = r
  <2>1. r \in RoleIds /\ (E # NULL => \A l \in E : l.role = r)
    BY <1>1, <1>2 DEF RbacInv, RbacRequestRefers
  <2>2. Len(roles) \in Nat /\ MaxRoles \in Nat /\ Len(roles) <= MaxRoles
    BY RbacAssumption DEF RbacInv, RbacTypeOK, LinksRefer
  <2> QED
    BY <2>1, <2>2 DEF RoleIds
<1>4. roles' \in Seq(Role) /\ Len(roles') = Len(roles)
  <2>1. PICK n, a : /\ n = Written(roles[r].name, q.loaded.name, q.name)
                    /\ a = Written(roles[r].is_active, q.loaded.is_active, q.is_active)
    OBVIOUS
  <2>2. PICK row : row = [name |-> n, is_active |-> a]
    OBVIOUS
  <2>3. roles' = [roles EXCEPT ![r] = row]
    BY <2>1, <2>2, <1>1 DEF UpdateRoleCommit
  <2>4. roles[r] \in Role /\ q.name \in {NULL} \cup RoleNames /\ q.is_active \in {NULL} \cup BOOLEAN
    BY <1>2, <1>3 DEF RbacInv, RbacTypeOK, UpdateRoleRequest, RoleIds
  <2>5. n \in RoleNames
    BY <2>1, <2>4 DEF Role, Written
  <2>6. a \in BOOLEAN
    <3>1. roles[r].is_active \in BOOLEAN
      BY <2>4 DEF Role
    <3>2. CASE q.is_active = NULL \/ q.is_active = q.loaded.is_active
      BY <2>1, <3>1, <3>2 DEF Written
    <3>3. CASE ~(q.is_active = NULL \/ q.is_active = q.loaded.is_active)
      BY <2>1, <2>4, <3>3 DEF Written
    <3> QED
      BY <3>2, <3>3
  <2>7. row \in Role
    <3> HIDE <2>1
    <3> QED
      BY <2>2, <2>5, <2>6 DEF Role
  <2> QED
    BY <2>3, <2>7, <1>3 DEF RbacInv, RbacTypeOK, RoleIds
<1>5. RoleIds' = RoleIds /\ Len(roles) <= Len(roles')
  BY <1>4 DEF RoleIds, RbacInv, RbacTypeOK
<1>6. Finish(s) /\ overlapped' = overlapped /\ UNCHANGED <<accounts, grants>>
  BY DEF UpdateRoleCommit, Finish, Continue
<1>7. CASE P = NULL
  <2>1. UNCHANGED <<links, rowIds, requested>>
    BY <1>1, <1>7 DEF UpdateRoleCommit
  <2>2. RbacTypeOK' /\ RbacRowsKept
    BY <2>1, <1>4, <1>5, <1>6 DEF RbacInv, RbacTypeOK, RbacRowsKept
  <2>3. LinksRefer'
    BY <2>1, <1>4, <1>5 DEF RbacInv, LinksRefer
  <2>4. PermissionsAsRequested'
    BY <2>1, <1>5, <1>6 DEF RbacInv, PermissionsAsRequested, permissions_by_role
  <2> QED
    BY <2>2, <2>3, <2>4, <1>2, <1>6, GrantsKept, RbacEnds
<1>8. CASE P # NULL
  <2>1. /\ E # NULL /\ links' = (links \ E) \cup N /\ rowIds' = rowIds + 1
        /\ requested' = [requested EXCEPT ![r] = P]
    BY <1>1, <1>8 DEF UpdateRoleCommit, ReplacedLinks
  <2>2. P \subseteq Permissions
    BY <1>1, <1>2, <1>8 DEF UpdateRoleRequest
  <2>3. /\ N \subseteq RolePermission /\ \A l \in N : l.role = r /\ l.permission \in P
        /\ \A p \in P : \E l \in N : l.role = r /\ l.permission = p
    BY <2>2, <1>1, <1>3, LinksInserted DEF RbacInv
  <2>4. /\ requested' \in [1..MaxRoles -> SUBSET Permissions] /\ requested'[r] = P
        /\ \A x \in 1..MaxRoles : x # r => requested'[x] = requested[x]
    BY <2>1, <2>2, <1>3 DEF RbacInv, RbacTypeOK
  <2>5. RbacTypeOK' /\ RbacRowsKept
    BY <2>1, <2>3, <2>4, <1>4, <1>5, <1>6 DEF RbacInv, RbacTypeOK, RbacRowsKept
  <2>6. LinksRefer'
    BY <2>1, <2>3, <1>3, <1>4, <1>5 DEF RbacInv, LinksRefer
  <2>7. PermissionsAsRequested'
    <3> SUFFICES ASSUME NEW x \in RoleIds
                 PROVE  /\ \A p \in requested'[x] :
                             \E l \in links' : l.role = x /\ l.permission = p
                        /\ ~overlapped =>
                             \A l \in links' : l.role = x => l.permission \in requested'[x]
      BY <1>5, <1>6 DEF PermissionsAsRequested, permissions_by_role
    <3>1. x \in 1..MaxRoles
      BY RbacAssumption DEF RbacInv, LinksRefer, RbacTypeOK, RoleIds
    <3>2. CASE x = r
      <4>1. ~overlapped => \A l \in links : l.role = r => l \in E
        BY <2>1, <1>1, <1>2 DEF RbacInv, RbacRequestFresh
      <4> QED
        BY <3>2, <4>1, <2>1, <2>3, <2>4
    <3>3. CASE x # r
      <4>1. /\ \A p \in requested[x] : \E l \in links : l.role = x /\ l.permission = p
            /\ ~overlapped => \A l \in links : l.role = x => l.permission \in requested[x]
        BY DEF RbacInv, PermissionsAsRequested, permissions_by_role
      <4>2. \A l : l.role = x => (l \in links' <=> l \in links)
        BY <3>3, <2>1, <2>3, <1>3
      <4>3. requested'[x] = requested[x]
        BY <3>1, <3>3, <2>4
      <4> QED
        BY <4>1, <4>2, <4>3
    <3> QED
      BY <3>2, <3>3
  <2> QED
    BY <2>5, <2>6, <2>7, <1>2, <1>6, GrantsKept, RbacEnds
<1> QED
  BY <1>7, <1>8

LEMMA RbacStart ==
  RequestsInit /\ RbacInit => RbacInv
<1> SUFFICES ASSUME RequestsInit, RbacInit PROVE RbacInv
  OBVIOUS
<1>1. RequestsOf(RbacRequest) /\ OneRequest /\ ~overlapped /\ \A s \in Sessions : req[s] = Idle
  BY RequestsStart
<1>2. RbacTypeOK
  BY DEF RbacInit, RbacTypeOK
<1>3. LinksRefer /\ GrantsUnique
  BY RbacAssumption DEF RbacInit, LinksRefer, GrantsUnique
<1>4. \A s \in Sessions : RbacRequestRefers(s) /\ RbacRequestFresh(s)
  BY <1>1 DEF RbacRequestRefers, RbacRequestFresh, Idle
<1>5. PermissionsAsRequested
  BY DEF RbacInit, PermissionsAsRequested, RoleIds
<1> QED
  BY <1>1, <1>2, <1>3, <1>4, <1>5 DEF RbacInv

LEMMA RbacStep ==
  RbacInv /\ [RbacNext]_<<reqVars, rbacTables>> => RbacInv'
<1> SUFFICES ASSUME RbacInv, [RbacNext]_<<reqVars, rbacTables>> PROVE RbacInv'
  OBVIOUS
<1>1. CASE UNCHANGED <<reqVars, rbacTables>>
  <2>1. req' = req /\ overlapped' = overlapped /\ UNCHANGED rbacTables
    BY <1>1 DEF reqVars
  <2>2. /\ RbacTypeOK' /\ LinksRefer' /\ GrantsUnique' /\ RbacRowsKept
        /\ PermissionsAsRequested'
    BY <2>1, RbacViewsKept
  <2>3. \A t \in Sessions : RbacRequestRefers(t)'
    BY <2>1, <2>2, RbacRefersKept
  <2>4. \A t \in Sessions : ~overlapped' => RbacRequestFresh(t)'
    BY <2>1 DEF RbacInv, RbacRequestFresh, rbacTables
  <2>5. RequestsOf(RbacRequest)' /\ OneRequest'
    BY <2>1 DEF RbacInv, RequestsOf, OneRequest
  <2> QED
    BY <2>2, <2>3, <2>4, <2>5 DEF RbacInv
<1>2. ASSUME NEW s \in Sessions,
             \/ SelectRoles(s) \/ CreateUserCommit(s) \/ CreateRoleCommit(s)
             \/ SelectLinks(s) \/ UpdateRoleCommit(s) \/ AssignCommit(s) \/ RemoveCommit(s)
             \/ Abort(s) /\ UNCHANGED rbacTables
      PROVE  RbacInv'
  BY <1>2, SelectRolesKeeps, CreateUserCommitKeeps, CreateRoleCommitKeeps, SelectLinksKeeps,
     UpdateRoleCommitKeeps, AssignCommitKeeps, RemoveCommitKeeps, RbacAborts
<1>3. ASSUME NEW s \in Sessions, NEW r \in RoleIds,
             \/ \E n \in RoleNames \cup {NULL}, a \in BOOLEAN \cup {NULL} :
                  update_role(s, r, n, a, NULL)
             \/ \E P \in SUBSET Permissions : update_role(s, r, NULL, NULL, P)
      PROVE  RbacInv'
  BY <1>3, RbacLoads
<1> QED
  BY <1>1, <1>2, <1>3, RbacLoads, update_user_keeps, AlreadyAssignedKeeps DEF RbacNext

(* Whatever overlaps, a role has every permission of the last update of it   *)
(* that committed, and until requests overlap it has no others: update_role  *)
(* replaces the permission set.                                              *)
THEOREM UpdatesReplacePermissions == RbacSpec => []PermissionsAsRequested
<1>1. RbacInv => PermissionsAsRequested
  BY DEF RbacInv
<1> QED
  BY <1>1, RbacStart, RbacStep, PTL DEF RbacSpec

(* An account is created with all the roles that were asked for and no other, *)
(* or not at all, whatever overlaps: the roles are checked after the flush of  *)
(* the account and before the commit, grants refer to accounts, and e-mails    *)
(* are unique.                                                                 *)
THEOREM NewAccountsComplete == RbacSpec => AccountsCreatedWhole
<1>1. RbacInv /\ [RbacNext]_<<reqVars, rbacTables>> => [CreatedWhole]_<<rbacTables, reqVars>>
  <2> SUFFICES ASSUME RbacInv, RbacNext, accounts' # accounts
               PROVE  CreatedWhole
    BY DEF CreatedWhole
  <2>1. CASE \E s \in Sessions : CreateUserCommit(s)
    BY <2>1, CreateUserCommitKeeps
  <2>2. CASE \E s \in Sessions, e \in Emails, admin \in BOOLEAN : update_user(s, e, admin)
    <3>1. PICK s \in Sessions, e \in Emails, admin \in BOOLEAN : update_user(s, e, admin)
      BY <2>2
    <3>2. accounts[e] # NULL /\ accounts' = [accounts EXCEPT ![e] = admin]
      BY <3>1 DEF update_user
    <3>3. \A x \in Emails : accounts'[x] # NULL => accounts[x] # NULL
      BY <3>2 DEF RbacInv, RbacTypeOK
    <3> QED
      BY <3>3 DEF CreatedWhole
  <2> QED
    BY <2>1, <2>2 DEF RbacNext, rbacTables, create_user, create_role, update_role, SelectRoles,
       CreateRoleCommit, SelectLinks, UpdateRoleCommit, assign_role, AlreadyAssigned,
       AssignCommit, remove_role, RemoveCommit
<1> QED
  BY <1>1, RbacStart, RbacStep, PTL DEF RbacSpec, AccountsCreatedWhole

-----------------------------------------------------------------------------
(* Part 2: tenants. *)

(* The provisioning steps are six different ones. *)
LEMMA ProvisioningSteps ==
  /\ Len(PROVISIONING_STEPS) = 6
  /\ PROVISIONING_STEPS \in Seq(Steps)
  /\ \A i \in 1..6 : PROVISIONING_STEPS[i] \in Steps
  /\ \A i, k \in 1..6 : PROVISIONING_STEPS[i] = PROVISIONING_STEPS[k] => i = k
<1>1. Len(PROVISIONING_STEPS) = 6
  BY DEF PROVISIONING_STEPS
<1>2. \A i \in 1..6 : PROVISIONING_STEPS[i] \in Steps
  BY <1>1 DEF Steps
<1>3. \A i, k \in 1..6 : PROVISIONING_STEPS[i] = PROVISIONING_STEPS[k] => i = k
  BY DEF PROVISIONING_STEPS
<1>4. PROVISIONING_STEPS \in Seq(Steps)
  <2>1. /\ "org_namespace_created" \in Steps /\ "network_policy_applied" \in Steps
        /\ "schema_migration" \in Steps /\ "dek_generation" \in Steps
        /\ "isolation_validation" \in Steps /\ "initial_snapshot" \in Steps
    BY <1>2 DEF PROVISIONING_STEPS
  <2> QED
    BY <2>1 DEF PROVISIONING_STEPS
<1> QED
  BY <1>1, <1>2, <1>3, <1>4

(* A prefix is known by its elements. *)
LEMMA PrefixElements ==
  ASSUME NEW done \in Seq(Steps), Len(done) <= 6
  PROVE  done = SubSeq(PROVISIONING_STEPS, 1, Len(done))
           <=> \A i \in 1..Len(done) : done[i] = PROVISIONING_STEPS[i]
<1>1. PICK n \in Nat : n = Len(done)
  OBVIOUS
<1>2. PICK P \in Seq(Steps) : P = PROVISIONING_STEPS
  BY ProvisioningSteps
<1>3. Len(P) = 6
  BY <1>2, ProvisioningSteps
<1>4. PICK q : q = SubSeq(P, 1, n)
  OBVIOUS
<1>5. q \in Seq(Steps) /\ Len(q) = n /\ \A i \in 1..n : q[i] = P[i]
  BY <1>1, <1>3, <1>4
<1>6. done = q <=> \A i \in 1..n : done[i] = q[i]
  BY <1>1, <1>5, SeqEqual
<1> QED
  BY <1>1, <1>2, <1>4, <1>5, <1>6

(* After a prefix the steps behind it remain, and the next one is due. *)
LEMMA RemainingAfterPrefix ==
  ASSUME NEW done \in Seq(Steps), Len(done) <= 6,
         \A i \in 1..Len(done) : done[i] = PROVISIONING_STEPS[i]
  PROVE  /\ Remaining(done) = (Len(done) + 1)..6
         /\ Len(done) < 6 => Due(Remaining(done)) = PROVISIONING_STEPS[Len(done) + 1]
<1>1. PICK n \in Nat : n = Len(done)
  OBVIOUS
<1>2. Remaining(done) = (n + 1)..6
  BY <1>1, ProvisioningSteps DEF Remaining
<1>3. ASSUME n < 6 PROVE Min((n + 1)..6) = n + 1
  <2>1. n + 1 \in (n + 1)..6 /\ \A y \in (n + 1)..6 : n + 1 <= y
    BY <1>3
  <2>2. \A x \in (n + 1)..6 : (\A y \in (n + 1)..6 : x <= y) => x = n + 1
    BY <1>3
  <2> QED
    BY <2>1, <2>2 DEF Min
<1> QED
  BY <1>1, <1>2, <1>3 DEF Due

(* Advancing a job whose steps are in order completes the next one. *)
LEMMA AdvancedInOrder ==
  ASSUME NEW j \in TenantProvisioningJob, StepsInOrder(j), Len(j.completed_steps) < 6
  PROVE  /\ Advanced(j) \in TenantProvisioningJob /\ StepsInOrder(Advanced(j))
         /\ Len(Advanced(j).completed_steps) = Len(j.completed_steps) + 1
         /\ Completes(Advanced(j)) <=> Len(j.completed_steps) = 5
<1>1. PICK done, n : done = j.completed_steps /\ n = Len(done)
  OBVIOUS
<1>2. done \in Seq(Steps) /\ n \in Nat /\ n < 6
  BY <1>1 DEF TenantProvisioningJob
<1>3. \A i \in 1..n : done[i] = PROVISIONING_STEPS[i]
  BY <1>1, <1>2, PrefixElements DEF StepsInOrder
<1>4. PICK step : step = PROVISIONING_STEPS[n + 1]
  OBVIOUS
<1>5. Due(Remaining(done)) = step /\ step \in Steps
  BY <1>1, <1>2, <1>3, <1>4, RemainingAfterPrefix, ProvisioningSteps
<1>6. PICK more : more = Append(done, step)
  OBVIOUS
<1>7. /\ more \in Seq(Steps) /\ Len(more) = n + 1
      /\ \A i \in 1..(n + 1) : more[i] = PROVISIONING_STEPS[i]
  BY <1>1, <1>2, <1>3, <1>4, <1>5, <1>6
<1>8. Remaining(more) = (n + 2)..6
  <2>1. Remaining(more) = (Len(more) + 1)..6
    BY <1>2, <1>7, RemainingAfterPrefix
  <2> QED
    BY <1>2, <1>7, <2>1
<1>9. PICK x : x = IF n = 5 THEN NULL ELSE PROVISIONING_STEPS[n + 2]
  OBVIOUS
<1>10. /\ Remaining(more) = {} <=> n = 5
       /\ x = IF Remaining(more) = {} THEN NULL ELSE Due(Remaining(more))
  <2>1. Remaining(more) = {} <=> n = 5
    BY <1>2, <1>8
  <2>2. ASSUME n # 5 PROVE Due(Remaining(more)) = PROVISIONING_STEPS[n + 2]
    <3>1. Len(more) <= 6 /\ Len(more) < 6 /\ Len(more) + 1 = n + 2
      BY <1>2, <1>7, <2>2
    <3>2. \A i \in 1..Len(more) : more[i] = PROVISIONING_STEPS[i]
      BY <1>7
    <3>3. Due(Remaining(more)) = PROVISIONING_STEPS[Len(more) + 1]
      BY <1>7, <3>1, <3>2, RemainingAfterPrefix
    <3> QED
      BY <3>1, <3>3
  <2> QED
    BY <1>9, <2>1, <2>2
<1>11. x \in {NULL} \cup Steps
  BY <1>2, <1>9, ProvisioningSteps
<1>12. Advanced(j) = [j EXCEPT !.completed_steps = more, !.current_step = x]
  BY <1>1, <1>5, <1>6, <1>10 DEF Advanced
<1>13. /\ Advanced(j) \in TenantProvisioningJob
       /\ Advanced(j).completed_steps = more /\ Advanced(j).current_step = x
  BY <1>7, <1>11, <1>12 DEF TenantProvisioningJob
<1>14. more = SubSeq(PROVISIONING_STEPS, 1, Len(more))
  BY <1>2, <1>7, PrefixElements
<1>15. StepsInOrder(Advanced(j))
  <2>1. n + 1 <= 6 /\ (n + 1) + 1 = n + 2 /\ (n + 1 = 6 <=> n = 5)
    BY <1>2
  <2>2. x = IF n + 1 = 6 THEN NULL ELSE PROVISIONING_STEPS[(n + 1) + 1]
    BY <1>9, <2>1
  <2>3. more = SubSeq(PROVISIONING_STEPS, 1, n + 1)
    BY <1>7, <1>14
  <2> QED
    BY <1>7, <1>13, <2>1, <2>2, <2>3, ProvisioningSteps DEF StepsInOrder
<1>16. Completes(Advanced(j)) <=> n = 5
  BY <1>10, <1>13 DEF Completes
<1> QED
  BY <1>1, <1>7, <1>13, <1>15, <1>16

LEMMA TenancyStart == RequestsInit /\ TenancyInit => TenancyInv
<1> SUFFICES ASSUME RequestsInit, TenancyInit PROVE TenancyInv
  OBVIOUS
<1>1. RequestsOf(TenancyRequest) /\ OneRequest /\ \A s \in Sessions : req[s] = Idle
  BY RequestsStart
<1>2. PICK g \in Slugs : tenants = [[t \in TenantIds |-> NULL] EXCEPT
                                     ![1] = [slug |-> g, status |-> "PROVISIONING"]]
  BY DEF TenancyInit
<1>3. PICK row, done : /\ row = [slug |-> g, status |-> "PROVISIONING"]
                       /\ done = <<"org_namespace_created", "network_policy_applied">>
  OBVIOUS
<1>4. PICK j : j = [status |-> "RUNNING", current_step |-> "schema_migration",
                    completed_steps |-> done]
  OBVIOUS
<1>5. /\ row \in Tenant /\ row.status = "PROVISIONING" /\ row # NULL
      /\ 1 \in TenantIds /\ created = 1 /\ created \in 0..MaxTenants
  BY <1>3, TenancyNoRow, TenancyAssumption DEF Tenant, TenantStatus, TenancyInit, TenantIds
<1>6. /\ PROVISIONING_STEPS[1] = "org_namespace_created"
      /\ PROVISIONING_STEPS[2] = "network_policy_applied"
      /\ PROVISIONING_STEPS[3] = "schema_migration"
  BY DEF PROVISIONING_STEPS
<1>7. /\ done \in Seq(Steps) /\ Len(done) = 2
      /\ \A i \in 1..2 : done[i] = PROVISIONING_STEPS[i]
  BY <1>3, <1>6, ProvisioningSteps
<1>8. j \in TenantProvisioningJob /\ j # NULL
  BY <1>4, <1>6, <1>7, ProvisioningSteps, TenancyNoRow DEF TenantProvisioningJob
<1>9. StepsInOrder(j) /\ Len(j.completed_steps) = 2 /\ j.status = "RUNNING"
  <2>1. done = SubSeq(PROVISIONING_STEPS, 1, 2)
    BY <1>7, PrefixElements
  <2> QED
    BY <1>4, <1>6, <1>7, <2>1, ProvisioningSteps DEF StepsInOrder
<1>10. /\ tenants \in [TenantIds -> {NULL} \cup Tenant]
       /\ jobs \in [TenantIds -> {NULL} \cup TenantProvisioningJob]
       /\ tenants[1] = row /\ \A t \in TenantIds \ {1} : tenants[t] = NULL
       /\ jobs[1] = j /\ \A t \in TenantIds \ {1} : jobs[t] = NULL
  BY <1>2, <1>3, <1>4, <1>5, <1>8 DEF TenancyInit
<1>11. /\ members = {} /\ auditRefs = << >>
       /\ \A a \in Alerts : alerts[a].tenant = 1
       /\ alerts \in [Alerts -> BreachAlert]
  <2>1. PICK b \in BOOLEAN : b = FALSE
    OBVIOUS
  <2>2. alerts = [a \in Alerts |-> [tenant |-> 1, dismissed |-> b]]
    BY <2>1 DEF TenancyInit
  <2> HIDE <2>1
  <2>3. PICK x : x = [tenant |-> 1, dismissed |-> b]
    OBVIOUS
  <2>4. x \in BreachAlert /\ x.tenant = 1
    BY <1>5, <2>3 DEF BreachAlert
  <2>5. alerts = [a \in Alerts |-> x]
    BY <2>2, <2>3
  <2>6. alerts \in [Alerts -> BreachAlert] /\ \A a \in Alerts : alerts[a].tenant = 1
    BY <2>4, <2>5
  <2> QED
    BY <2>6 DEF TenancyInit
<1>12. TenancyTypeOK
  BY <1>5, <1>10, <1>11 DEF TenancyTypeOK
<1>13. ProvisioningInOrder
  <2> SUFFICES ASSUME NEW t \in TenantIds, Exists(t)
               PROVE  /\ StepsInOrder(jobs[t]) /\ Len(jobs[t].completed_steps) # 6
                      /\ jobs[t].status # "COMPLETE"
    BY ProvisioningSteps DEF ProvisioningInOrder
  <2>1. jobs[t] = j
    BY <1>10 DEF Exists
  <2> QED
    BY <1>9, <2>1
<1>14. TenantReferencesIntact
  BY <1>5, <1>8, <1>10, <1>11 DEF TenantReferencesIntact, Exists
<1>15. \A t \in TenantIds : Exists(t) => t <= created
  BY <1>5, <1>10 DEF Exists
<1> QED
  BY <1>1, <1>12, <1>13, <1>14, <1>15 DEF TenancyInv

(* Steps that leave tenants, their ids and their jobs alone keep what is     *)
(* said of provisioning.                                                     *)
LEMMA ProvisioningUnchanged ==
  ASSUME ProvisioningInOrder, UNCHANGED <<tenants, jobs>>, overlapped => overlapped'
  PROVE  ProvisioningInOrder'
BY DEF ProvisioningInOrder, Exists

(* What the columns that refer to a tenant can hold. *)
LEMMA ReferenceTypes ==
  ASSUME TenancyTypeOK
  PROVE  /\ Len(auditRefs) \in Nat
         /\ \A i \in 1..Len(auditRefs) : /\ auditRefs[i] \in AuditRef
                                         /\ auditRefs[i].written \in TenantIds
         /\ \A m \in members : m \in TenantMember /\ m.tenant \in TenantIds
         /\ \A a \in Alerts : alerts[a].tenant # NULL => alerts[a].tenant \in TenantIds
<1>1. Len(auditRefs) \in Nat /\ \A i \in 1..Len(auditRefs) : auditRefs[i] \in AuditRef
  BY DEF TenancyTypeOK
<1>2. \A x \in AuditRef : x.written \in TenantIds
  BY DEF AuditRef
<1>3. \A m \in members : m \in TenantMember /\ m.tenant \in TenantIds
  BY DEF TenancyTypeOK, TenantMember
<1>4. \A a \in Alerts : alerts[a] \in BreachAlert
  BY DEF TenancyTypeOK
<1>5. \A x \in BreachAlert : x.tenant # NULL => x.tenant \in TenantIds
  BY DEF BreachAlert
<1> QED
  BY <1>1, <1>2, <1>3, <1>4, <1>5

(* Tenants that stay keep the rows that refer to them intact. *)
LEMMA ReferencesKept ==
  ASSUME TenancyTypeOK, TenantReferencesIntact, UNCHANGED <<members, alerts, auditRefs>>,
         \A t \in TenantIds : tenants[t] # NULL => tenants'[t] # NULL,
         \A t \in TenantIds : tenants'[t] # NULL <=> jobs'[t] # NULL
  PROVE  TenantReferencesIntact'
<1>1. \A i \in 1..Len(auditRefs) : /\ auditRefs[i].tenant_id = auditRefs[i].written
                                   /\ tenants'[auditRefs[i].written] # NULL
  BY ReferenceTypes DEF TenantReferencesIntact, Exists
<1>2. \A m \in members : tenants'[m.tenant] # NULL
  BY ReferenceTypes DEF TenantReferencesIntact, Exists
<1>3. \A a \in Alerts : alerts[a].tenant # NULL => tenants'[alerts[a].tenant] # NULL
  BY ReferenceTypes DEF TenantReferencesIntact, Exists
<1> QED
  BY <1>1, <1>2, <1>3 DEF TenantReferencesIntact, Exists

(* A request that is one step: what was loaded by others is as good as       *)
(* before, unless the step changed the tenant or the job and they overlap.   *)
LEMMA TenancyInstant ==
  ASSUME TenancyInv, NEW s \in Sessions, Instant(s), created' \in Nat, created <= created',
         \A t \in TenantIds : t <= created /\ tenants'[t] # NULL =>
           /\ tenants[t] # NULL
           /\ tenants'[t].status = "PROVISIONING" => tenants[t].status = "PROVISIONING"
  PROVE  /\ RequestsOf(TenancyRequest)' /\ OneRequest'
         /\ \A u \in Sessions : req'[u] # Idle => AdvanceLoaded(u)'
         /\ overlapped => overlapped'
<1>1. /\ RequestsOf(TenancyRequest)' /\ OneRequest' /\ req' = req
      /\ ~overlapped' => ~overlapped /\ \A t \in Sessions : req[t] = Idle
  BY Instants DEF TenancyInv
<1>2. ASSUME NEW u \in Sessions, req[u] # Idle PROVE AdvanceLoaded(u)'
  <2>1. req[u] \in TenancyRequest /\ req[u].tenant \in TenantIds /\ AdvanceLoaded(u)
    BY <1>2 DEF TenancyInv, RequestsOf, TenancyRequest
  <2>2. req[u].tenant <= created'
    BY <2>1 DEF AdvanceLoaded, TenancyInv, TenancyTypeOK, TenantIds
  <2>3. overlapped'
    BY <1>1, <1>2
  <2> QED
    BY <1>1, <2>1, <2>2, <2>3 DEF AdvanceLoaded, Exists
<1> QED
  BY <1>1, <1>2

LEMMA create_tenant_keeps ==
  ASSUME TenancyInv, NEW s \in Sessions, NEW slug \in Slugs, create_tenant(s, slug)
  PROVE  TenancyInv'
<1>1. PICK row, j, n : /\ row = [slug |-> slug, status |-> "PROVISIONING"]
                       /\ j = [status |-> "RUNNING", completed_steps |-> << >>,
                               current_step |-> PROVISIONING_STEPS[1]]
                       /\ n = created + 1
  OBVIOUS
<1>2. /\ created' = n /\ tenants' = [tenants EXCEPT ![n] = row]
      /\ jobs' = [jobs EXCEPT ![n] = j] /\ UNCHANGED <<members, alerts, auditRefs>>
      /\ Instant(s)
  BY <1>1 DEF create_tenant
<1>3. created \in Nat /\ n \in TenantIds /\ created < n /\ n \in 0..MaxTenants /\ n \in Nat
  BY <1>1, TenancyAssumption DEF create_tenant, TenancyInv, TenancyTypeOK, TenantIds
<1>4. row \in Tenant /\ row # NULL /\ row.status = "PROVISIONING"
  BY <1>1, TenancyNoRow DEF Tenant, TenantStatus
<1>5. /\ j \in TenantProvisioningJob /\ j # NULL /\ j.status = "RUNNING"
      /\ j.completed_steps = << >>
  <2>1. PICK e, x : e = << >> /\ x = PROVISIONING_STEPS[1]
    OBVIOUS
  <2>2. e \in Seq(Steps) /\ x \in Steps
    BY <2>1, ProvisioningSteps
  <2>3. j = [status |-> "RUNNING", completed_steps |-> e, current_step |-> x]
    BY <1>1, <2>1
  <2>4. j \in TenantProvisioningJob
    BY <2>2, <2>3 DEF TenantProvisioningJob
  <2> QED
    BY <2>1, <2>3, <2>4, TenancyNoRow
<1>6. StepsInOrder(j) /\ Len(j.completed_steps) = 0
  <2>0. << >> \in Seq(Steps)
    OBVIOUS
  <2>1. PICK e : e = << >> /\ e \in Seq(Steps)
    BY <2>0
  <2>2. e = SubSeq(PROVISIONING_STEPS, 1, Len(e)) /\ Len(e) = 0
    BY <2>1, PrefixElements
  <2>3. j.completed_steps = e /\ j.current_step = PROVISIONING_STEPS[0 + 1]
    BY <1>1, <2>1
  <2> QED
    BY <2>2, <2>3, ProvisioningSteps DEF StepsInOrder
<1>7. /\ tenants' \in [TenantIds -> {NULL} \cup Tenant]
      /\ jobs' \in [TenantIds -> {NULL} \cup TenantProvisioningJob]
      /\ tenants'[n] = row /\ jobs'[n] = j
      /\ \A t \in TenantIds \ {n} : tenants'[t] = tenants[t] /\ jobs'[t] = jobs[t]
  BY <1>2, <1>3, <1>4, <1>5 DEF TenancyInv, TenancyTypeOK
<1>8. TenancyTypeOK'
  BY <1>2, <1>3, <1>7 DEF TenancyInv, TenancyTypeOK
<1>9. /\ RequestsOf(TenancyRequest)' /\ OneRequest'
      /\ \A u \in Sessions : req'[u] # Idle => AdvanceLoaded(u)'
      /\ overlapped => overlapped'
  <2>1. \A t \in TenantIds : t <= created => tenants'[t] = tenants[t]
    BY <1>3, <1>7 DEF TenantIds
  <2> QED
    BY <1>2, <1>3, <2>1, TenancyInstant
<1>10. \A t \in TenantIds : Exists(t)' => t <= created'
  BY <1>2, <1>3, <1>7 DEF TenancyInv, Exists, TenantIds
<1>11. ProvisioningInOrder'
  <2>1. ASSUME NEW t \in TenantIds, Exists(t)', t = n
        PROVE  /\ StepsInOrder(jobs'[t]) /\ Len(jobs'[t].completed_steps) # 6
               /\ jobs'[t].status # "COMPLETE"
    BY <1>5, <1>6, <1>7, <2>1
  <2>2. ASSUME NEW t \in TenantIds, Exists(t)', t # n
        PROVE  tenants'[t] = tenants[t] /\ jobs'[t] = jobs[t] /\ Exists(t)
    BY <1>7, <2>2 DEF Exists
  <2> QED
    BY <1>9, <2>1, <2>2, ProvisioningSteps DEF TenancyInv, ProvisioningInOrder
<1>12. TenantReferencesIntact'
  <2>1. \A t \in TenantIds : Exists(t) => Exists(t)'
    BY <1>4, <1>7 DEF Exists
  <2>2. \A t \in TenantIds : Exists(t)' <=> jobs'[t] # NULL
    BY <1>4, <1>5, <1>7 DEF TenancyInv, TenantReferencesIntact, Exists
  <2> QED
    BY <1>2, <2>1, <2>2, ReferencesKept DEF TenancyInv, Exists
<1> QED
  BY <1>8, <1>9, <1>10, <1>11, <1>12 DEF TenancyInv

(* A job with a step left is loaded as it is. *)
LEMMA advance_provisioning_job_keeps ==
  ASSUME TenancyInv, NEW s \in Sessions, NEW t \in TenantIds, advance_provisioning_job(s, t)
  PROVE  TenancyInv'
<1>1. PICK j, v, r : /\ j = jobs[t] /\ v = tenants[t].status
                     /\ r = [op |-> "advance", tenant |-> t, job |-> j, status |-> v]
  OBVIOUS
<1>2. /\ Exists(t) /\ Begin(s, r) /\ UNCHANGED tenancyTables /\ Remaining(j.completed_steps) # {}
  BY <1>1 DEF advance_provisioning_job
<1>3. tenants' = tenants /\ jobs' = jobs /\ created' = created
  BY <1>2 DEF tenancyTables
<1>4. /\ j \in TenantProvisioningJob /\ StepsInOrder(j) /\ v \in TenantStatus
      /\ t <= created
  <2>1. tenants[t] \in Tenant /\ jobs[t] # NULL
    BY <1>2 DEF TenancyInv, TenancyTypeOK, TenantReferencesIntact, Exists
  <2>2. jobs[t] \in TenantProvisioningJob /\ v \in TenantStatus
    BY <1>1, <2>1 DEF TenancyInv, TenancyTypeOK, Tenant
  <2> QED
    BY <1>1, <1>2, <2>2 DEF TenancyInv, ProvisioningInOrder
<1>5. Len(j.completed_steps) < 6
  <2>1. PICK done : done = j.completed_steps /\ done \in Seq(Steps)
    BY <1>4 DEF TenantProvisioningJob
  <2>2. Len(done) <= 6 /\ done = SubSeq(PROVISIONING_STEPS, 1, Len(done))
    BY <1>4, <2>1, ProvisioningSteps DEF StepsInOrder
  <2>3. \A i \in 1..Len(done) : done[i] = PROVISIONING_STEPS[i]
    BY <2>1, <2>2, PrefixElements
  <2>4. Remaining(done) = (Len(done) + 1)..6
    BY <2>1, <2>2, <2>3, RemainingAfterPrefix
  <2>5. Len(done) \in Nat
    BY <2>1
  <2> QED
    BY <1>2, <2>1, <2>2, <2>4, <2>5
<1>6. r \in TenancyRequest
  BY <1>1, <1>4 DEF TenancyRequest
<1>7. /\ RequestsOf(TenancyRequest)' /\ OneRequest'
      /\ req'[s] = r /\ \A u \in Sessions \ {s} : req'[u] = req[u]
      /\ ~overlapped' => ~overlapped /\ \A u \in Sessions : req[u] = Idle
  BY <1>2, <1>6, Begins DEF TenancyInv
<1>8. ASSUME NEW u \in Sessions, req'[u] # Idle PROVE AdvanceLoaded(u)'
  <2>1. CASE u = s
    <3>1. /\ req'[u].tenant = t /\ req'[u].job = j /\ req'[u].status = v
      BY <1>1, <1>7, <2>1
    <3> QED
      BY <1>1, <1>2, <1>3, <1>4, <1>5, <3>1, ProvisioningSteps DEF AdvanceLoaded, Exists
  <2>2. CASE u # s
    <3>1. req'[u] = req[u] /\ req[u] # Idle /\ overlapped'
      BY <1>7, <1>8, <2>2
    <3> QED
      BY <1>3, <3>1 DEF TenancyInv, AdvanceLoaded, Exists
  <2> QED
    BY <2>1, <2>2
<1>9. TenancyTypeOK' /\ \A x \in TenantIds : Exists(x)' => x <= created'
  BY <1>2 DEF TenancyInv, TenancyTypeOK, tenancyTables, Exists
<1>10. ProvisioningInOrder'
  BY <1>3, <1>7, ProvisioningUnchanged DEF TenancyInv
<1>11. TenantReferencesIntact'
  BY <1>2 DEF TenancyInv, TenantReferencesIntact, tenancyTables, Exists
<1> QED
  BY <1>7, <1>8, <1>9, <1>10, <1>11 DEF TenancyInv

(* A commit that leaves the tables as they are: a request that fails. *)
LEMMA TenancyAbortKeeps ==
  ASSUME TenancyInv, NEW s \in Sessions, Abort(s), UNCHANGED tenancyTables
  PROVE  TenancyInv'
<1>1. /\ RequestsOf(TenancyRequest)' /\ OneRequest'
      /\ req'[s] = Idle /\ \A u \in Sessions \ {s} : req'[u] = req[u]
      /\ overlapped' = overlapped
  BY Continues DEF TenancyInv, Abort, Finish
<1>2. TenancyTypeOK' /\ \A x \in TenantIds : Exists(x)' => x <= created'
  BY DEF TenancyInv, TenancyTypeOK, tenancyTables, Exists
<1>3. \A u \in Sessions : req'[u] # Idle => AdvanceLoaded(u)'
  BY <1>1 DEF TenancyInv, AdvanceLoaded, Exists, tenancyTables
<1>4. ProvisioningInOrder'
  BY <1>1, ProvisioningUnchanged DEF TenancyInv, tenancyTables
<1>5. TenantReferencesIntact'
  BY DEF TenancyInv, TenantReferencesIntact, tenancyTables, Exists
<1> QED
  BY <1>1, <1>2, <1>3, <1>4, <1>5 DEF TenancyInv

(* The job and the tenant as an advance writes them. *)
LEMMA AdvanceCommitKeeps ==
  ASSUME TenancyInv, NEW s \in Sessions, AdvanceCommit(s)
  PROVE  TenancyInv'
<1>1. PICK t, j, new : t = req[s].tenant /\ j = req[s].job /\ new = Advanced(j)
  OBVIOUS
<1>2. /\ req[s] # Idle /\ req[s] \in TenancyRequest /\ AdvanceLoaded(s)
      /\ t \in TenantIds /\ j \in TenantProvisioningJob /\ req[s].status \in TenantStatus
  <2>1. req[s] # Idle
    BY DEF AdvanceCommit, Idle
  <2>2. req[s] \in TenancyRequest
    BY <2>1 DEF TenancyInv, RequestsOf
  <2> QED
    BY <1>1, <2>1, <2>2 DEF TenancyInv, TenancyRequest
<1>3. /\ StepsInOrder(j) /\ Len(j.completed_steps) < 6 /\ Len(j.completed_steps) \in Nat
      /\ Exists(t) /\ t <= created
  BY <1>1, <1>2, ProvisioningSteps DEF AdvanceLoaded, AdvanceCommit, TenantProvisioningJob
<1>4. /\ new \in TenantProvisioningJob /\ StepsInOrder(new)
      /\ Len(new.completed_steps) = Len(j.completed_steps) + 1
      /\ Completes(new) <=> Len(new.completed_steps) = 6
  <2>1. /\ new \in TenantProvisioningJob /\ StepsInOrder(new)
        /\ Len(new.completed_steps) = Len(j.completed_steps) + 1
        /\ Completes(new) <=> Len(j.completed_steps) = 5
    <3>1. j \in TenantProvisioningJob /\ StepsInOrder(j) /\ Len(j.completed_steps) < 6
      BY <1>2, <1>3
    <3>2. /\ Advanced(j) \in TenantProvisioningJob /\ StepsInOrder(Advanced(j))
          /\ Len(Advanced(j).completed_steps) = Len(j.completed_steps) + 1
          /\ Completes(Advanced(j)) <=> Len(j.completed_steps) = 5
      BY <3>1, AdvancedInOrder
    <3> QED
      BY <1>1, <3>2
  <2>2. Len(j.completed_steps) + 1 = 6 <=> Len(j.completed_steps) = 5
    <3>1. \A n : n \in Nat /\ n < 6 => (n + 1 = 6 <=> n = 5)
      OBVIOUS
    <3>2. PICK n : n = Len(j.completed_steps) /\ n \in Nat /\ n < 6
      BY <1>3
    <3> QED
      BY <3>1, <3>2
  <2> QED
    BY <2>1, <2>2
<1>5. /\ tenants[t] \in Tenant /\ jobs[t] \in TenantProvisioningJob
  BY <1>2, <1>3 DEF TenancyInv, TenancyTypeOK, TenantReferencesIntact, Exists
<1>6. PICK w : w = IF Completes(new) THEN "COMPLETE" ELSE jobs[t].status
  OBVIOUS
<1>7. PICK x : x = [jobs[t] EXCEPT !.completed_steps = new.completed_steps,
                                   !.current_step = new.current_step, !.status = w]
  OBVIOUS
<1>8. /\ x \in TenantProvisioningJob /\ x.completed_steps = new.completed_steps
      /\ x.current_step = new.current_step /\ x.status = w
  BY <1>4, <1>5, <1>6, <1>7 DEF TenantProvisioningJob
<1>9. StepsInOrder(x)
  BY <1>4, <1>8 DEF StepsInOrder
<1>10. PICK row : row = IF Completes(new) /\ req[s].status # "ACTIVE"
                        THEN [tenants[t] EXCEPT !.status = "ACTIVE"] ELSE tenants[t]
  OBVIOUS
<1>11. /\ row \in Tenant /\ row.status = IF Completes(new) /\ req[s].status # "ACTIVE"
                                         THEN "ACTIVE" ELSE tenants[t].status
  BY <1>5, <1>10 DEF Tenant, TenantStatus
<1>12. jobs' = [jobs EXCEPT ![t] = x]
  BY <1>1, <1>2, <1>6, <1>7 DEF AdvanceCommit, TenancyInv, TenancyTypeOK
<1>13. tenants' = [tenants EXCEPT ![t] = row]
  BY <1>1, <1>2, <1>10 DEF AdvanceCommit, TenancyInv, TenancyTypeOK
<1>14. /\ Finish(s) /\ UNCHANGED <<created, members, alerts, auditRefs>>
  BY DEF AdvanceCommit
<1>15. /\ jobs'[t] = x /\ tenants'[t] = row /\ x # NULL /\ row # NULL
       /\ \A u \in TenantIds \ {t} : jobs'[u] = jobs[u] /\ tenants'[u] = tenants[u]
       /\ jobs' \in [TenantIds -> {NULL} \cup TenantProvisioningJob]
       /\ tenants' \in [TenantIds -> {NULL} \cup Tenant]
  BY <1>2, <1>8, <1>11, <1>12, <1>13, TenancyNoRow DEF TenancyInv, TenancyTypeOK
<1>16. /\ RequestsOf(TenancyRequest)' /\ OneRequest'
       /\ req'[s] = Idle /\ \A u \in Sessions \ {s} : req'[u] = req[u]
       /\ overlapped' = overlapped
       /\ ~overlapped => \A u \in Sessions \ {s} : req[u] = Idle
  BY <1>2, <1>14, Continues DEF TenancyInv, Finish
<1>17. /\ TenancyTypeOK'
       /\ \A u \in TenantIds : /\ tenants[u] # NULL <=> tenants'[u] # NULL
                               /\ tenants'[u] # NULL => u <= created'
  BY <1>3, <1>14, <1>15 DEF TenancyInv, TenancyTypeOK, Exists
<1>18. ASSUME NEW u \in TenantIds, tenants'[u].status = "PROVISIONING"
       PROVE  tenants[u].status = "PROVISIONING"
  BY <1>11, <1>15, <1>18
<1>19. ASSUME NEW u \in Sessions, req'[u] # Idle PROVE AdvanceLoaded(u)'
  <2>1. /\ u # s /\ req'[u] = req[u] /\ req[u] # Idle /\ AdvanceLoaded(u) /\ overlapped'
        /\ req[u].tenant \in TenantIds
    BY <1>16, <1>19 DEF TenancyInv, RequestsOf, TenancyRequest
  <2> QED
    BY <1>14, <1>17, <1>18, <2>1 DEF AdvanceLoaded, Exists
<1>20. ProvisioningInOrder'
  <2>1. /\ Len(x.completed_steps) = 6 => x.status = "COMPLETE"
    BY <1>4, <1>6, <1>8
  <2>2. x.status = "COMPLETE" => row.status # "PROVISIONING"
    <3>1. CASE Completes(new) /\ req[s].status # "ACTIVE"
      BY <3>1, <1>11
    <3>2. CASE Completes(new) /\ req[s].status = "ACTIVE"
      BY <3>2, <1>1, <1>2, <1>3, <1>11 DEF AdvanceLoaded
    <3>3. CASE ~Completes(new)
      BY <3>3, <1>2, <1>3, <1>6, <1>8, <1>11 DEF TenancyInv, ProvisioningInOrder
    <3> QED
      BY <3>1, <3>2, <3>3
  <2>3. ~overlapped /\ x.status = "COMPLETE" => Len(x.completed_steps) = 6
    <3> SUFFICES ASSUME ~overlapped, ~Completes(new), x.status = "COMPLETE" PROVE FALSE
      BY <1>4, <1>8
    <3>1. jobs[t] = j /\ jobs[t].status = "COMPLETE"
      BY <1>1, <1>2, <1>6, <1>8 DEF AdvanceLoaded
    <3>2. Len(jobs[t].completed_steps) = 6
      BY <1>2, <1>3, <3>1, ProvisioningSteps DEF TenancyInv, ProvisioningInOrder
    <3> QED
      BY <1>3, <3>1, <3>2
  <2> SUFFICES ASSUME NEW u \in TenantIds, tenants'[u] # NULL
               PROVE  /\ StepsInOrder(jobs'[u])
                      /\ Len(jobs'[u].completed_steps) = 6 => jobs'[u].status = "COMPLETE"
                      /\ jobs'[u].status = "COMPLETE" => tenants'[u].status # "PROVISIONING"
                      /\ ~overlapped /\ jobs'[u].status = "COMPLETE" =>
                           Len(jobs'[u].completed_steps) = 6
    BY <1>16, ProvisioningSteps DEF ProvisioningInOrder, Exists
  <2>4. CASE u = t
    BY <1>9, <1>15, <2>1, <2>2, <2>3, <2>4
  <2>5. CASE u # t
    BY <1>15, <2>5, ProvisioningSteps DEF TenancyInv, ProvisioningInOrder, Exists
  <2> QED
    BY <2>4, <2>5
<1>21. TenantReferencesIntact'
  <2>1. \A u \in TenantIds : tenants'[u] # NULL <=> jobs'[u] # NULL
    BY <1>15 DEF TenancyInv, TenantReferencesIntact, Exists
  <2> QED
    BY <1>14, <1>17, <2>1, ReferencesKept DEF TenancyInv
<1> QED
  BY <1>16, <1>17, <1>19, <1>20, <1>21 DEF TenancyInv, Exists

(* The status of a tenant is set to ACTIVE or SUSPENDED. *)
LEMMA set_tenant_status_keeps ==
  ASSUME TenancyInv, NEW s \in Sessions, NEW t \in TenantIds,
         NEW v \in {"ACTIVE", "SUSPENDED"}, set_tenant_status(s, t, v)
  PROVE  TenancyInv'
<1>1. PICK row : row = [tenants[t] EXCEPT !.status = v]
  OBVIOUS
<1>2. /\ Exists(t) /\ Instant(s) /\ tenants' = [tenants EXCEPT ![t] = row]
      /\ UNCHANGED <<created, jobs, members, alerts, auditRefs>>
  BY <1>1 DEF set_tenant_status, TenancyInv, TenancyTypeOK
<1>3. tenants[t] \in Tenant
  BY <1>2 DEF TenancyInv, TenancyTypeOK, Exists
<1>4. row \in Tenant /\ row.status = v /\ row # NULL /\ v # "PROVISIONING"
  BY <1>1, <1>3, TenancyNoRow DEF Tenant, TenantStatus
<1>5. /\ tenants' \in [TenantIds -> {NULL} \cup Tenant]
      /\ tenants'[t] = row /\ \A u \in TenantIds \ {t} : tenants'[u] = tenants[u]
  BY <1>2, <1>4 DEF TenancyInv, TenancyTypeOK
<1>6. \A u \in TenantIds : tenants'[u] # NULL <=> tenants[u] # NULL
  BY <1>2, <1>4, <1>5 DEF Exists
<1>7. TenancyTypeOK' /\ \A u \in TenantIds : Exists(u)' => u <= created'
  BY <1>2, <1>5, <1>6 DEF TenancyInv, TenancyTypeOK, Exists
<1>8. /\ RequestsOf(TenancyRequest)' /\ OneRequest'
      /\ \A u \in Sessions : req'[u] # Idle => AdvanceLoaded(u)'
      /\ overlapped => overlapped'
  <2>1. created' \in Nat /\ created <= created'
    BY <1>2 DEF TenancyInv, TenancyTypeOK
  <2>2. \A u \in TenantIds :
          tenants'[u].status = "PROVISIONING" => tenants[u].status = "PROVISIONING"
    BY <1>4, <1>5
  <2> QED
    BY <1>2, <1>6, <2>1, <2>2, TenancyInstant
<1>9. ProvisioningInOrder'
  <2> SUFFICES ASSUME NEW u \in TenantIds, tenants'[u] # NULL
               PROVE  /\ StepsInOrder(jobs[u])
                      /\ Len(jobs[u].completed_steps) = 6 => jobs[u].status = "COMPLETE"
                      /\ jobs[u].status = "COMPLETE" => tenants'[u].status # "PROVISIONING"
                      /\ ~overlapped /\ jobs[u].status = "COMPLETE" =>
                           Len(jobs[u].completed_steps) = 6
    BY <1>2, <1>8, ProvisioningSteps DEF ProvisioningInOrder, Exists
  <2>1. Exists(u) /\ (tenants'[u].status = tenants[u].status \/ tenants'[u].status = v)
    BY <1>4, <1>5, <1>6 DEF Exists
  <2> QED
    BY <1>4, <2>1, ProvisioningSteps DEF TenancyInv, ProvisioningInOrder
<1>10. TenantReferencesIntact'
  <2>1. \A u \in TenantIds : tenants'[u] # NULL <=> jobs'[u] # NULL
    BY <1>2, <1>6 DEF TenancyInv, TenantReferencesIntact, Exists
  <2> QED
    BY <1>2, <1>6, <2>1, ReferencesKept DEF TenancyInv
<1> QED
  BY <1>7, <1>8, <1>9, <1>10 DEF TenancyInv

(* delete_tenant goes through only if no audit entry names the tenant. *)
LEMMA DeletedIsUnnamed ==
  ASSUME TenancyInv, NEW t \in TenantIds, SetNull(t) = auditRefs
  PROVE  \A i \in 1..Len(auditRefs) : auditRefs[i].written # t
<1> SUFFICES ASSUME NEW i \in 1..Len(auditRefs), auditRefs[i].written = t PROVE FALSE
  OBVIOUS
<1>1. auditRefs[i] \in AuditRef /\ auditRefs[i].tenant_id = t
  BY ReferenceTypes DEF TenancyInv, TenantReferencesIntact
<1>2. PICK x : x = auditRefs[i]
  OBVIOUS
<1>3. SetNull(t)[i] = [x EXCEPT !.tenant_id = NULL]
  BY <1>1, <1>2 DEF SetNull
<1>4. x = [x EXCEPT !.tenant_id = NULL] /\ x \in AuditRef /\ x.tenant_id = t
  BY <1>1, <1>2, <1>3
<1>5. [x EXCEPT !.tenant_id = NULL].tenant_id = NULL
  BY <1>4 DEF AuditRef
<1> QED
  BY <1>4, <1>5, TenancyNoRow

LEMMA delete_tenant_keeps ==
  ASSUME TenancyInv, NEW s \in Sessions, NEW t \in TenantIds, delete_tenant(s, t)
  PROVE  TenancyInv'
<1>1. /\ Instant(s) /\ tenants' = [tenants EXCEPT ![t] = NULL]
      /\ jobs' = [jobs EXCEPT ![t] = NULL] /\ members' = {m \in members : m.tenant # t}
      /\ auditRefs' = auditRefs /\ SetNull(t) = auditRefs /\ created' = created
  BY DEF delete_tenant, reject_audit_log_mutation
<1>2. /\ alerts' \in [Alerts -> BreachAlert]
      /\ \A a \in Alerts : /\ alerts'[a].tenant # t
                           /\ alerts'[a].tenant # NULL => alerts'[a].tenant = alerts[a].tenant
  <2>1. ASSUME NEW x \in BreachAlert
        PROVE  LET y == [x EXCEPT !.tenant = IF @ = t THEN NULL ELSE @]
               IN  /\ y \in BreachAlert /\ y.tenant # t
                   /\ y.tenant # NULL => y.tenant = x.tenant
    BY TenancyNoRow DEF BreachAlert
  <2>2. \A a \in Alerts : alerts[a] \in BreachAlert
    BY DEF TenancyInv, TenancyTypeOK
  <2>3. alerts' = [a \in Alerts |-> [alerts[a] EXCEPT !.tenant = IF @ = t THEN NULL ELSE @]]
    BY DEF delete_tenant
  <2> QED
    BY <2>1, <2>2, <2>3
<1>3. /\ tenants' \in [TenantIds -> {NULL} \cup Tenant]
      /\ jobs' \in [TenantIds -> {NULL} \cup TenantProvisioningJob]
      /\ tenants'[t] = NULL /\ jobs'[t] = NULL
      /\ \A u \in TenantIds \ {t} : tenants'[u] = tenants[u] /\ jobs'[u] = jobs[u]
  BY <1>1 DEF TenancyInv, TenancyTypeOK
<1>4. TenancyTypeOK' /\ \A u \in TenantIds : Exists(u)' => u <= created'
  BY <1>1, <1>2, <1>3 DEF TenancyInv, TenancyTypeOK, Exists
<1>5. /\ RequestsOf(TenancyRequest)' /\ OneRequest'
      /\ \A u \in Sessions : req'[u] # Idle => AdvanceLoaded(u)'
      /\ overlapped => overlapped'
  <2>1. created' \in Nat /\ created <= created'
    BY <1>1 DEF TenancyInv, TenancyTypeOK
  <2> QED
    BY <1>1, <1>3, <2>1, TenancyInstant
<1>6. ProvisioningInOrder'
  <2>1. \A u \in TenantIds : tenants'[u] # NULL =>
          tenants[u] # NULL /\ tenants'[u] = tenants[u] /\ jobs'[u] = jobs[u]
    BY <1>3
  <2> QED
    BY <1>5, <2>1 DEF TenancyInv, ProvisioningInOrder, Exists
<1>7. TenantReferencesIntact'
  <2>1. \A i \in 1..Len(auditRefs) : /\ auditRefs[i].tenant_id = auditRefs[i].written
                                     /\ tenants'[auditRefs[i].written] # NULL
    BY <1>1, <1>3, DeletedIsUnnamed, ReferenceTypes
       DEF TenancyInv, TenantReferencesIntact, Exists
  <2>2. \A m \in members' : tenants'[m.tenant] # NULL
    BY <1>1, <1>3, ReferenceTypes DEF TenancyInv, TenantReferencesIntact, Exists
  <2>3. \A a \in Alerts : alerts'[a].tenant # NULL => tenants'[alerts'[a].tenant] # NULL
    BY <1>2, <1>3, ReferenceTypes DEF TenancyInv, TenantReferencesIntact, Exists
  <2>4. \A u \in TenantIds : tenants'[u] # NULL <=> jobs'[u] # NULL
    BY <1>3 DEF TenancyInv, TenantReferencesIntact, Exists
  <2> QED
    BY <1>1, <2>1, <2>2, <2>3, <2>4 DEF TenantReferencesIntact, Exists
<1> QED
  BY <1>4, <1>5, <1>6, <1>7 DEF TenancyInv

(* Requests that leave tenants and jobs alone. *)
LEMMA TenantsKept ==
  ASSUME TenancyInv, NEW s \in Sessions, Instant(s), UNCHANGED <<tenants, created, jobs>>,
         TenancyTypeOK', TenantReferencesIntact'
  PROVE  TenancyInv'
<1>1. /\ RequestsOf(TenancyRequest)' /\ OneRequest'
      /\ \A u \in Sessions : req'[u] # Idle => AdvanceLoaded(u)'
      /\ overlapped => overlapped'
  <2>1. created' \in Nat /\ created <= created'
    BY DEF TenancyInv, TenancyTypeOK
  <2> QED
    BY <2>1, TenancyInstant
<1>2. ProvisioningInOrder' /\ \A u \in TenantIds : Exists(u)' => u <= created'
  BY <1>1, ProvisioningUnchanged DEF TenancyInv, Exists
<1> QED
  BY <1>1, <1>2 DEF TenancyInv

LEMMA MembersKeep ==
  ASSUME TenancyInv, NEW s \in Sessions,
         \/ \E t \in TenantIds, u \in Members : add_tenant_member(s, t, u)
         \/ \E m \in members : remove_tenant_member(s, m)
  PROVE  TenancyInv'
<1>1. /\ Instant(s) /\ UNCHANGED <<tenants, created, jobs, alerts, auditRefs>>
      /\ \/ members' \subseteq members
         \/ \E t \in TenantIds, u \in Members :
              tenants[t] # NULL /\ members' = members \cup {[tenant |-> t, user |-> u]}
  <2>1. CASE \E t \in TenantIds, u \in Members : add_tenant_member(s, t, u)
    BY <2>1 DEF add_tenant_member, Exists
  <2>2. CASE \E m \in members : remove_tenant_member(s, m)
    BY <2>2 DEF remove_tenant_member
  <2> QED
    BY <2>1, <2>2
<1>2. \A m \in members' : m \in members \/ (m \in TenantMember /\ tenants[m.tenant] # NULL)
  <2>1. CASE members' \subseteq members
    BY <2>1
  <2>2. ASSUME NEW t \in TenantIds, NEW u \in Members, tenants[t] # NULL,
               members' = members \cup {[tenant |-> t, user |-> u]}
        PROVE  \A m \in members' :
                 m \in members \/ (m \in TenantMember /\ tenants[m.tenant] # NULL)
    <3>1. PICK x : x = [tenant |-> t, user |-> u]
      OBVIOUS
    <3>2. x \in TenantMember /\ x.tenant = t
      BY <3>1 DEF TenantMember
    <3> QED
      BY <2>2, <3>1, <3>2
  <2> QED
    BY <1>1, <2>1, <2>2
<1>3. TenancyTypeOK'
  BY <1>1, <1>2 DEF TenancyInv, TenancyTypeOK
<1>4. TenantReferencesIntact'
  BY <1>1, <1>2 DEF TenancyInv, TenantReferencesIntact, Exists
<1> QED
  BY <1>1, <1>3, <1>4, TenantsKept

LEMMA dismiss_breach_alert_keeps ==
  ASSUME TenancyInv, NEW s \in Sessions, NEW a \in Alerts, dismiss_breach_alert(s, a)
  PROVE  TenancyInv'
<1>1. PICK b \in BOOLEAN : b = TRUE
  OBVIOUS
<1>2. /\ Instant(s) /\ UNCHANGED <<tenants, created, jobs, members, auditRefs>>
      /\ alerts' = [alerts EXCEPT ![a].dismissed = b]
  BY <1>1 DEF dismiss_breach_alert
<1> HIDE <1>1
<1>3. PICK x : x = [alerts[a] EXCEPT !.dismissed = b]
  OBVIOUS
<1>4. alerts[a] \in BreachAlert
  BY DEF TenancyInv, TenancyTypeOK
<1>5. x \in BreachAlert /\ x.tenant = alerts[a].tenant
  BY <1>3, <1>4 DEF BreachAlert
<1>6. alerts' = [alerts EXCEPT ![a] = x]
  BY <1>2, <1>3 DEF TenancyInv, TenancyTypeOK
<1>7. /\ alerts' \in [Alerts -> BreachAlert]
      /\ \A c \in Alerts : alerts'[c].tenant = alerts[c].tenant
  BY <1>5, <1>6 DEF TenancyInv, TenancyTypeOK
<1>8. TenancyTypeOK'
  BY <1>2, <1>7 DEF TenancyInv, TenancyTypeOK
<1>9. TenantReferencesIntact'
  BY <1>2, <1>7 DEF TenancyInv, TenantReferencesIntact, Exists
<1> QED
  BY <1>2, <1>8, <1>9, TenantsKept

LEMMA AuditNamesTenantKeeps ==
  ASSUME TenancyInv, NEW s \in Sessions, NEW t \in TenantIds, AuditNamesTenant(s, t)
  PROVE  TenancyInv'
<1>1. PICK x : x = [tenant_id |-> t, written |-> t]
  OBVIOUS
<1>2. /\ Instant(s) /\ UNCHANGED <<tenants, created, jobs, members, alerts>>
      /\ auditRefs' = Append(auditRefs, x) /\ tenants[t] # NULL
  BY <1>1 DEF AuditNamesTenant, Exists
<1>3. x \in AuditRef /\ x.tenant_id = t /\ x.written = t
  BY <1>1 DEF AuditRef
<1>4. /\ auditRefs' \in Seq(AuditRef)
      /\ \A i \in 1..Len(auditRefs') : (i \in 1..Len(auditRefs) /\ auditRefs'[i] = auditRefs[i])
                                       \/ auditRefs'[i] = x
  BY <1>2, <1>3 DEF TenancyInv, TenancyTypeOK
<1>5. TenancyTypeOK'
  BY <1>2, <1>4 DEF TenancyInv, TenancyTypeOK
<1>6. \A i \in 1..Len(auditRefs') : /\ auditRefs'[i].tenant_id = auditRefs'[i].written
                                    /\ tenants[auditRefs'[i].written] # NULL
  BY <1>2, <1>3, <1>4 DEF TenancyInv, TenantReferencesIntact, Exists
<1>7. TenantReferencesIntact'
  BY <1>2, <1>6 DEF TenancyInv, TenantReferencesIntact, Exists
<1> QED
  BY <1>2, <1>5, <1>7, TenantsKept

(* Every step of every handler keeps the invariant of tenancy. *)
LEMMA TenancyStep ==
  ASSUME TenancyInv, [TenancyNext]_<<reqVars, tenancyTables>>
  PROVE  TenancyInv'
<1>1. CASE UNCHANGED <<reqVars, tenancyTables>>
  <2>1. req' = req /\ overlapped' = overlapped /\ UNCHANGED tenancyTables
    BY <1>1 DEF reqVars
  <2>2. TenancyTypeOK' /\ RequestsOf(TenancyRequest)' /\ OneRequest'
    BY <2>1 DEF TenancyInv, TenancyTypeOK, tenancyTables, RequestsOf, OneRequest
  <2>3. \A s \in Sessions : req'[s] # Idle => AdvanceLoaded(s)'
    BY <2>1 DEF TenancyInv, AdvanceLoaded, tenancyTables, Exists
  <2>4. ProvisioningInOrder' /\ TenantReferencesIntact'
        /\ \A t \in TenantIds : Exists(t)' => t <= created'
    BY <2>1 DEF TenancyInv, ProvisioningInOrder, TenantReferencesIntact, tenancyTables, Exists
  <2> QED
    BY <2>2, <2>3, <2>4 DEF TenancyInv
<1>2. CASE TenancyNext
  BY <1>2, create_tenant_keeps, advance_provisioning_job_keeps, delete_tenant_keeps,
     AuditNamesTenantKeeps, set_tenant_status_keeps, MembersKeep,
     dismiss_breach_alert_keeps, AdvanceCommitKeeps, TenancyAbortKeeps DEF TenancyNext
<1> QED
  BY <1>1, <1>2

(* Whatever requests overlap, advance_provisioning_job completes the steps   *)
(* in order and without repetition, and a tenant with a COMPLETE job has     *)
(* left PROVISIONING; until they overlap a COMPLETE job has all its steps.   *)
THEOREM ProvisioningFollowsSteps == TenancySpec => []ProvisioningInOrder
<1>1. TenancyInv => ProvisioningInOrder
  BY DEF TenancyInv
<1> QED
  BY <1>1, TenancyStart, TenancyStep, PTL DEF TenancySpec

(* No sequence of requests clears or dangles the tenant_id of an audit       *)
(* entry: the append-only trigger makes delete_tenant fail as a whole when   *)
(* an entry names the tenant.                                                *)
THEOREM TenantReferencesStay == TenancySpec => []TenantReferencesIntact
<1>1. TenancyInv => TenantReferencesIntact
  BY DEF TenancyInv
<1> QED
  BY <1>1, TenancyStart, TenancyStep, PTL DEF TenancySpec

-----------------------------------------------------------------------------
(* Part 3: notifications are read once. *)

(* A row that is marked read. *)
LEMMA MarkedRow ==
  ASSUME NEW r \in Notification, NEW at \in Nat, NEW x, x = Marked(r, at)
  PROVE  x \in Notification /\ x.user_id = r.user_id /\ x.is_read /\ x.read_at = at
<1>1. PICK b \in BOOLEAN : b = TRUE
  OBVIOUS
<1>2. x = [r EXCEPT !.is_read = b, !.read_at = at]
  BY <1>1 DEF Marked
<1>3. b
  BY <1>1
<1> HIDE <1>1
<1>4. x \in Notification /\ x.user_id = r.user_id /\ x.is_read = b /\ x.read_at = at
  BY <1>2 DEF Notification
<1> QED
  BY <1>3, <1>4

(* Marking one notification leaves the others. *)
LEMMA MarkedNote ==
  ASSUME NEW f \in [Inbox -> Notification], NEW n \in Inbox, NEW at \in Nat, NEW g,
         g = [f EXCEPT ![n] = Marked(f[n], at)]
  PROVE  /\ g \in [Inbox -> Notification]
         /\ g[n].is_read /\ g[n].read_at = at /\ g[n].user_id = f[n].user_id
         /\ \A m \in Inbox \ {n} : g[m] = f[m]
<1>1. PICK x : x = Marked(f[n], at)
  OBVIOUS
<1>2. g = [f EXCEPT ![n] = x]
  BY <1>1
<1>3. x \in Notification /\ x.user_id = f[n].user_id /\ x.is_read /\ x.read_at = at
  BY <1>1, MarkedRow
<1> HIDE <1>1
<1>4. g \in [Inbox -> Notification] /\ g[n] = x /\ \A m \in Inbox \ {n} : g[m] = f[m]
  BY <1>2, <1>3
<1> QED
  BY <1>3, <1>4

(* When notes are only ever marked, by their owners' requests, what was read *)
(* stays read, and nobody's unread count grows.                              *)
LEMMA UnreadShrinks ==
  ASSUME NotesTypeOK,
         \A n \in Inbox : /\ notes'[n].user_id = notes[n].user_id
                          /\ notes[n].is_read => notes'[n].is_read,
         NEW u \in Recipients
  PROVE  get_unread_count(u)' <= get_unread_count(u)
<1> DEFINE Before == {n \in Inbox : notes[n].user_id = u /\ ~notes[n].is_read}
           After  == {n \in Inbox : notes'[n].user_id = u /\ ~notes'[n].is_read}
<1>1. After \subseteq Before /\ Before \subseteq Inbox
  OBVIOUS
<1>2. IsFiniteSet(Before)
  BY <1>1, NotificationsAssumption, FS_Subset
<1>3. get_unread_count(u)' = Cardinality(After) /\ get_unread_count(u) = Cardinality(Before)
  BY DEF get_unread_count
<1> HIDE DEF Before, After
<1>4. Cardinality(After) <= Cardinality(Before)
  BY <1>1, <1>2, FS_Subset
<1> QED
  BY <1>3, <1>4

LEMMA NotesStart ==
  ASSUME RequestsInit, NotesInit
  PROVE  NotesInv
<1>1. RequestsOf(NotesRequest) /\ OneRequest /\ \A s \in Sessions : req[s] = Idle
  BY RequestsStart
<1>2. notes \in [Inbox -> Notification] /\ \A n \in Inbox : ~notes[n].is_read
  <2>1. PICK b \in BOOLEAN : b = FALSE
    OBVIOUS
  <2>2. notes \in [Inbox -> [user_id : Recipients, is_read : {b}, read_at : {0}]]
    BY <2>1 DEF NotesInit, Unread
  <2>3. ~b
    BY <2>1
  <2> HIDE <2>1
  <2> QED
    BY <2>2, <2>3 DEF Notification
<1>3. NotesTypeOK
  BY <1>2 DEF NotesInit, NotesTypeOK
<1>4. ReadAtSet /\ \A s \in Sessions : MarkLoaded(s)
  BY <1>1, <1>2 DEF ReadAtSet, MarkLoaded, Idle
<1> QED
  BY <1>1, <1>3, <1>4 DEF NotesInv

(* What a step of notifications has to keep when it leaves notes alone. *)
LEMMA NotesLeftAlone ==
  ASSUME NotesInv, notes' = notes, NotesTypeOK', RequestsOf(NotesRequest)', OneRequest',
         ~overlapped' => ~overlapped,
         \A s \in Sessions : req'[s] = req[s] \/ MarkLoaded(s)'
  PROVE  NotesInv' /\ ReadOnce
<1>1. ReadAtSet'
  BY DEF NotesInv, ReadAtSet
<1>2. \A s \in Sessions : MarkLoaded(s)'
  BY DEF NotesInv, MarkLoaded
<1>3. \A u \in Recipients : get_unread_count(u)' <= get_unread_count(u)
  BY UnreadShrinks DEF NotesInv
<1>4. ReadOnce
  BY <1>3 DEF ReadOnce, NotesInv, ReadAtSet
<1> QED
  BY <1>1, <1>2, <1>4 DEF NotesInv

(* The commit of a mark: the time of the first reading is kept while         *)
(* requests do not overlap, since the mark loaded an unread notification.    *)
LEMMA MarkReadKeeps ==
  ASSUME NotesInv, NEW s \in Sessions, MarkReadCommit(s)
  PROVE  NotesInv' /\ ReadOnce
<1>1. req[s] # Idle /\ Finish(s) /\ Idle \in NotesRequest \cup {Idle}
  BY DEF MarkReadCommit, Idle
<1>2. /\ RequestsOf(NotesRequest)' /\ OneRequest' /\ req'[s] = Idle
      /\ \A t \in Sessions \ {s} : req'[t] = req[t]
      /\ overlapped' = overlapped
      /\ ~overlapped => \A t \in Sessions \ {s} : req[t] = Idle
  BY <1>1, Continues DEF NotesInv, Finish
<1>3. req[s] \in NotesRequest /\ req[s].op = "mark_read"
  BY <1>1 DEF NotesInv, RequestsOf, MarkReadCommit
<1>4. PICK n \in Inbox, at \in Nat : req[s] = [op |-> "mark_read", note |-> n, at |-> at]
  BY <1>3 DEF NotesRequest
<1>5. at # 0 /\ (~overlapped => ~notes[n].is_read)
  BY <1>4 DEF NotesInv, MarkLoaded
<1>6. PICK f, g : f = notes /\ g = notes'
  OBVIOUS
<1>7. f \in [Inbox -> Notification] /\ g = [f EXCEPT ![n] = Marked(f[n], at)]
  <2>1. req[s].note = n /\ req[s].at = at
    BY <1>4
  <2>2. notes' = [notes EXCEPT ![n] = Marked(notes[n], at)]
    BY <2>1 DEF MarkReadCommit
  <2> QED
    BY <1>6, <2>2 DEF NotesInv, NotesTypeOK
<1>8. /\ g \in [Inbox -> Notification]
      /\ g[n].is_read /\ g[n].read_at = at /\ g[n].user_id = f[n].user_id
      /\ \A m \in Inbox \ {n} : g[m] = f[m]
  BY <1>7, MarkedNote
<1> HIDE <1>7
<1>9. /\ notes' \in [Inbox -> Notification]
      /\ notes'[n].is_read /\ notes'[n].read_at # 0 /\ notes'[n].user_id = notes[n].user_id
      /\ \A m \in Inbox \ {n} : notes'[m] = notes[m]
  BY <1>5, <1>6, <1>8
<1>10. NotesTypeOK'
  BY <1>9 DEF NotesInv, NotesTypeOK, MarkReadCommit
<1>11. ReadAtSet'
  BY <1>9 DEF NotesInv, ReadAtSet
<1>12. \A t \in Sessions : MarkLoaded(t)'
  <2>1. CASE ~overlapped
    BY <1>2, <2>1 DEF MarkLoaded, Idle
  <2>2. CASE overlapped
    BY <1>2, <2>2 DEF NotesInv, MarkLoaded, Idle
  <2> QED
    BY <2>1, <2>2
<1>13. \A u \in Recipients : get_unread_count(u)' <= get_unread_count(u)
  <2>1. \A m \in Inbox : /\ notes'[m].user_id = notes[m].user_id
                         /\ notes[m].is_read => notes'[m].is_read
    BY <1>9
  <2> QED
    BY <2>1, UnreadShrinks DEF NotesInv
<1>14. ReadOnce
  BY <1>2, <1>5, <1>9, <1>11, <1>13 DEF ReadOnce, ReadAtSet, NotesInv
<1> QED
  BY <1>2, <1>10, <1>11, <1>12, <1>14 DEF NotesInv

(* mark_all_read only writes to what is unread. *)
LEMMA mark_all_read_keeps ==
  ASSUME NotesInv, NEW s \in Sessions, NEW u \in Recipients, mark_all_read(s, u)
  PROVE  NotesInv' /\ ReadOnce
<1>1. /\ RequestsOf(NotesRequest)' /\ OneRequest' /\ req' = req
      /\ ~overlapped' => ~overlapped /\ \A t \in Sessions : req[t] = Idle
  BY Instants DEF NotesInv, mark_all_read
<1>2. clock \in Nat /\ clock' = clock + 1
  BY DEF NotesInv, NotesTypeOK, mark_all_read, Tick
<1>3. /\ notes \in [Inbox -> Notification] /\ notes' = [n \in Inbox |-> notes'[n]]
      /\ \A n \in Inbox : \/ notes'[n] = notes[n]
                          \/ ~notes[n].is_read /\ notes'[n] = Marked(notes[n], clock + 1)
  <2>1. notes \in [Inbox -> Notification]
    BY DEF NotesInv, NotesTypeOK
  <2>2. notes' = [n \in Inbox |-> IF notes[n].user_id = u /\ ~notes[n].is_read
                                  THEN Marked(notes[n], clock + 1) ELSE notes[n]]
    BY DEF mark_all_read
  <2>3. ASSUME NEW n \in Inbox
        PROVE  \/ notes'[n] = notes[n]
               \/ ~notes[n].is_read /\ notes'[n] = Marked(notes[n], clock + 1)
    BY <2>2
  <2>4. notes' = [n \in Inbox |-> notes'[n]]
    BY <2>2
  <2> HIDE <2>2
  <2> QED
    BY <2>1, <2>3, <2>4
<1>4. ASSUME NEW n \in Inbox
      PROVE  /\ notes'[n] \in Notification /\ notes'[n].user_id = notes[n].user_id
             /\ notes[n].is_read => notes'[n] = notes[n]
             /\ notes'[n] = notes[n] \/ notes'[n].read_at # 0
  <2>1. CASE notes'[n] = notes[n]
    BY <1>3, <2>1
  <2>2. CASE ~notes[n].is_read /\ notes'[n] = Marked(notes[n], clock + 1)
    <3>1. PICK r \in Notification, at \in Nat : r = notes[n] /\ at = clock + 1
      BY <1>2, <1>3
    <3>4. PICK x : x = Marked(r, at)
      OBVIOUS
    <3>2. /\ x \in Notification /\ x.user_id = r.user_id /\ x.read_at = at
      BY <3>4, MarkedRow
    <3>3. x = notes'[n] /\ at # 0
      BY <1>2, <2>2, <3>1, <3>4
    <3> QED
      BY <2>2, <3>1, <3>2, <3>3
  <2> QED
    BY <1>3, <2>1, <2>2
<1>7. /\ notes' \in [Inbox -> Notification]
      /\ \A n \in Inbox : /\ notes'[n].user_id = notes[n].user_id
                          /\ notes[n].is_read => notes'[n] = notes[n]
                          /\ notes'[n] = notes[n] \/ notes'[n].read_at # 0
  BY <1>3, <1>4
<1>8. NotesTypeOK'
  BY <1>2, <1>7 DEF NotesInv, NotesTypeOK, mark_all_read
<1>9. ReadAtSet'
  BY <1>7 DEF NotesInv, ReadAtSet
<1>10. \A t \in Sessions : MarkLoaded(t)'
  BY <1>1 DEF NotesInv, MarkLoaded, Idle
<1>11. \A v \in Recipients : get_unread_count(v)' <= get_unread_count(v)
  <2>1. \A m \in Inbox : /\ notes'[m].user_id = notes[m].user_id
                         /\ notes[m].is_read => notes'[m].is_read
    BY <1>7
  <2> QED
    BY <2>1, UnreadShrinks DEF NotesInv
<1>12. ReadOnce
  BY <1>7, <1>9, <1>11 DEF ReadOnce, ReadAtSet, NotesInv
<1> QED
  BY <1>1, <1>8, <1>9, <1>10, <1>12 DEF NotesInv

(* A request that begins, or fails, leaves notes alone. *)
LEMMA mark_notification_read_keeps ==
  ASSUME NotesInv, NEW s \in Sessions, NEW u \in Recipients, NEW n \in Inbox,
         mark_notification_read(s, u, n)
  PROVE  NotesInv' /\ ReadOnce
<1>1. clock \in Nat /\ clock' = clock + 1 /\ UNCHANGED <<notes, rules, ruleIds>>
  BY DEF NotesInv, NotesTypeOK, mark_notification_read, Tick
<1>2. PICK r : r = [op |-> "mark_read", note |-> n, at |-> clock + 1]
  OBVIOUS
<1>3. r \in NotesRequest /\ Begin(s, r)
  BY <1>1, <1>2 DEF NotesRequest, mark_notification_read
<1>4. /\ RequestsOf(NotesRequest)' /\ OneRequest'
      /\ req'[s] = r /\ \A t \in Sessions \ {s} : req'[t] = req[t]
      /\ ~overlapped' => ~overlapped /\ \A t \in Sessions : req[t] = Idle
  BY <1>3, Begins DEF NotesInv
<1>5. MarkLoaded(s)'
  <2>1. r.note = n /\ r.at = clock + 1 /\ ~notes[n].is_read
    BY <1>2 DEF mark_notification_read, Markable
  <2> QED
    BY <1>1, <1>4, <2>1 DEF MarkLoaded
<1>6. NotesTypeOK'
  BY <1>1 DEF NotesInv, NotesTypeOK
<1>7. \A t \in Sessions : req'[t] = req[t] \/ MarkLoaded(t)'
  BY <1>4, <1>5
<1> QED
  BY <1>1, <1>4, <1>6, <1>7, NotesLeftAlone

LEMMA RuleRequestBegins ==
  ASSUME NotesInv, NEW s \in Sessions, NEW r \in NotesRequest, r.op # "mark_read",
         Begin(s, r), UNCHANGED notesTables
  PROVE  NotesInv' /\ ReadOnce
<1>1. /\ RequestsOf(NotesRequest)' /\ OneRequest'
      /\ req'[s] = r /\ \A t \in Sessions \ {s} : req'[t] = req[t]
      /\ ~overlapped' => ~overlapped
  BY Begins DEF NotesInv
<1>2. NotesTypeOK' /\ notes' = notes
  BY DEF NotesInv, NotesTypeOK, notesTables
<1>3. \A t \in Sessions : req'[t] = req[t] \/ MarkLoaded(t)'
  BY <1>1 DEF MarkLoaded
<1> QED
  BY <1>1, <1>2, <1>3, NotesLeftAlone

LEMMA NotesRequestEnds ==
  ASSUME NotesInv, NEW s \in Sessions, req[s] # Idle, Finish(s), notes' = notes, NotesTypeOK'
  PROVE  NotesInv' /\ ReadOnce
<1>1. /\ RequestsOf(NotesRequest)' /\ OneRequest' /\ req'[s] = Idle
      /\ \A t \in Sessions \ {s} : req'[t] = req[t]
      /\ overlapped' = overlapped
  <2>1. Idle \in NotesRequest \cup {Idle}
    OBVIOUS
  <2> QED
    BY <2>1, Continues DEF NotesInv, Finish
<1>2. \A t \in Sessions : req'[t] = req[t] \/ MarkLoaded(t)'
  BY <1>1 DEF MarkLoaded, Idle
<1> QED
  BY <1>1, <1>2, NotesLeftAlone

(* The handlers of alert rules. *)
LEMMA AlertRulesKeep ==
  ASSUME NotesInv, NEW s \in Sessions,
         \/ \E n \in RuleNames, e \in BOOLEAN : create_alert_rule(s, n, e)
         \/ \E r \in rules, n \in RuleNames, e \in BOOLEAN : update_alert_rule(s, r, n, e)
         \/ \E r \in rules : delete_alert_rule(s, r)
  PROVE  NotesInv' /\ ReadOnce
<1>1. rules \subseteq AlertRule
  BY DEF NotesInv, NotesTypeOK
<1>2. ASSUME NEW n \in RuleNames, NEW e \in BOOLEAN, create_alert_rule(s, n, e)
      PROVE  NotesInv' /\ ReadOnce
  <2>1. PICK r : r = [op |-> "create_rule", name |-> n, is_enabled |-> e]
    OBVIOUS
  <2>2. r \in NotesRequest /\ r.op # "mark_read"
    BY <2>1 DEF NotesRequest
  <2> QED
    BY <1>2, <2>1, <2>2, RuleRequestBegins DEF create_alert_rule
<1>3. ASSUME NEW x \in rules, NEW n \in RuleNames, NEW e \in BOOLEAN, update_alert_rule(s, x, n, e)
      PROVE  NotesInv' /\ ReadOnce
  <2>1. PICK r : r = [op |-> "update_rule", rule |-> x, name |-> n, is_enabled |-> e]
    OBVIOUS
  <2>2. r \in NotesRequest /\ r.op # "mark_read"
    BY <1>1, <2>1 DEF NotesRequest
  <2> QED
    BY <1>3, <2>1, <2>2, RuleRequestBegins DEF update_alert_rule
<1>4. ASSUME NEW x \in rules, delete_alert_rule(s, x)
      PROVE  NotesInv' /\ ReadOnce
  <2>1. PICK r : r = [op |-> "delete_rule", rule |-> x]
    OBVIOUS
  <2>2. r \in NotesRequest /\ r.op # "mark_read"
    BY <1>1, <2>1 DEF NotesRequest
  <2> QED
    BY <1>4, <2>1, <2>2, RuleRequestBegins DEF delete_alert_rule
<1> QED
  BY <1>2, <1>3, <1>4

LEMMA WrittenRule ==
  ASSUME NEW r \in AlertRule,
         NEW q \in [op : {"update_rule"}, rule : AlertRule, name : RuleNames, is_enabled : BOOLEAN]
  PROVE  UpdatedRule(r, q) \in AlertRule
<1>1. /\ r.name \in RuleNames /\ r.is_enabled \in BOOLEAN
      /\ q.name \in RuleNames /\ q.is_enabled \in BOOLEAN
  BY DEF AlertRule
<1>2. PICK m \in RuleNames : m = IF q.name = q.rule.name THEN r.name ELSE q.name
  BY <1>1
<1>3. PICK d \in BOOLEAN : d = IF q.is_enabled = q.rule.is_enabled THEN r.is_enabled
                               ELSE q.is_enabled
  BY <1>1
<1>4. UpdatedRule(r, q) = [r EXCEPT !.name = m, !.is_enabled = d]
  BY <1>2, <1>3 DEF UpdatedRule
<1> HIDE <1>2, <1>3
<1> QED
  BY <1>4 DEF AlertRule

LEMMA AlertRuleCommitsKeep ==
  ASSUME NotesInv, NEW s \in Sessions,
         \/ CreateRuleCommit(s) \/ UpdateRuleCommit(s) \/ DeleteRuleCommit(s)
         \/ Abort(s) /\ UNCHANGED notesTables
  PROVE  NotesInv' /\ ReadOnce
<1>1. NotesTypeOK /\ (req[s] # Idle => req[s] \in NotesRequest)
  BY DEF NotesInv, RequestsOf
<1>2. CASE CreateRuleCommit(s)
  <2>1. req[s] # Idle
    BY <1>2 DEF CreateRuleCommit, Idle
  <2>2. PICK n \in RuleNames, e \in BOOLEAN :
          req[s] = [op |-> "create_rule", name |-> n, is_enabled |-> e]
    BY <1>1, <1>2, <2>1 DEF NotesRequest, CreateRuleCommit
  <2>3. rules' = rules \cup {[id |-> ruleIds + 1, name |-> n, is_enabled |-> e]}
    BY <1>2, <2>2 DEF CreateRuleCommit
  <2>4. [id |-> ruleIds + 1, name |-> n, is_enabled |-> e] \in AlertRule
    BY <1>1 DEF AlertRule, NotesTypeOK
  <2>5. NotesTypeOK' /\ notes' = notes
    BY <1>1, <1>2, <2>3, <2>4 DEF NotesTypeOK, CreateRuleCommit
  <2> QED
    BY <1>2, <2>1, <2>5, NotesRequestEnds DEF CreateRuleCommit
<1>3. CASE UpdateRuleCommit(s)
  <2>1. req[s] # Idle
    BY <1>3 DEF UpdateRuleCommit, Idle
  <2>2. PICK q : q = req[s]
    OBVIOUS
  <2>3. q \in [op : {"update_rule"}, rule : AlertRule, name : RuleNames, is_enabled : BOOLEAN]
    BY <1>1, <1>3, <2>1, <2>2 DEF NotesRequest, UpdateRuleCommit
  <2>4. PICK r \in rules : rules' = (rules \ {r}) \cup {UpdatedRule(r, q)}
    BY <1>3, <2>2 DEF UpdateRuleCommit
  <2>5. UpdatedRule(r, q) \in AlertRule
    BY <1>1, <2>3, WrittenRule DEF NotesTypeOK
  <2>6. NotesTypeOK' /\ notes' = notes
    BY <1>1, <1>3, <2>4, <2>5 DEF NotesTypeOK, UpdateRuleCommit
  <2> QED
    BY <1>3, <2>1, <2>6, NotesRequestEnds DEF UpdateRuleCommit
<1>4. CASE DeleteRuleCommit(s)
  <2>1. req[s] # Idle
    BY <1>4 DEF DeleteRuleCommit, Idle
  <2>2. NotesTypeOK' /\ notes' = notes
    BY <1>1, <1>4 DEF NotesTypeOK, DeleteRuleCommit
  <2> QED
    BY <1>4, <2>1, <2>2, NotesRequestEnds DEF DeleteRuleCommit
<1>5. CASE Abort(s) /\ UNCHANGED notesTables
  <2>1. NotesTypeOK' /\ notes' = notes
    BY <1>1, <1>5 DEF NotesTypeOK, notesTables
  <2> QED
    BY <1>5, <2>1, NotesRequestEnds DEF Abort
<1> QED
  BY <1>2, <1>3, <1>4, <1>5

(* Every step of the notification service keeps the invariant and reads once. *)
LEMMA NotesStep ==
  ASSUME NotesInv, NotesNext
  PROVE  NotesInv' /\ ReadOnce
BY MarkReadKeeps, mark_all_read_keeps, mark_notification_read_keeps, AlertRulesKeep,
   AlertRuleCommitsKeep DEF NotesNext

(* So does a step that is not one of it. *)
LEMMA ReadOnceElsewhere ==
  ASSUME NotesTypeOK, ReadAtSet, UNCHANGED notesTables
  PROVE  NotesTypeOK' /\ ReadAtSet' /\ ReadOnce
<1>1. notes' = notes /\ NotesTypeOK' /\ ReadAtSet'
  BY DEF NotesTypeOK, ReadAtSet, notesTables
<1>2. \A u \in Recipients : get_unread_count(u)' <= get_unread_count(u)
  BY <1>1, UnreadShrinks
<1> QED
  BY <1>1, <1>2 DEF ReadOnce, ReadAtSet

-----------------------------------------------------------------------------
(* Part 4: assessments, and what the compliance endpoints report. *)

(* round() is monotone enough: a quotient of at most k is rounded to at most *)
(* k, a quotient that is k to k, and one more than half below k to less.     *)
LEMMA RoundedBounds ==
  ASSUME NEW num \in Nat, NEW den \in Nat \ {0}, NEW k \in Nat
  PROVE  /\ Rounded(num, den) \in Nat
         /\ num <= k * den => Rounded(num, den) <= k
         /\ num = k * den => Rounded(num, den) = k
         /\ 2 * num < (2 * k - 1) * den => Rounded(num, den) < k
<1>1. PICK q, r : q = num \div den /\ r = num % den
  OBVIOUS
<1>2. q \in Nat /\ r \in Nat /\ num = q * den + r /\ r < den
  BY <1>1
<1>3. Rounded(num, den) = IF 2 * r > den \/ (2 * r = den /\ q % 2 = 1) THEN q + 1 ELSE q
  BY <1>1 DEF Rounded
<1> HIDE <1>1
<1>4. Rounded(num, den) \in {q, q + 1} /\ (2 * r < den => Rounded(num, den) = q)
  BY <1>2, <1>3
<1> HIDE <1>3
<1>5. ASSUME num <= k * den PROVE q <= k /\ (q = k => r = 0)
  <2>1. q * den <= k * den
    BY <1>2, <1>5
  <2>2. ASSUME q >= k + 1 PROVE FALSE
    <3>1. q * den >= (k + 1) * den
      BY <1>2, <2>2
    <3>2. (k + 1) * den = k * den + den
      BY <1>2
    <3> QED
      BY <1>2, <2>1, <3>1, <3>2
  <2>3. ASSUME q = k PROVE r = 0
    BY <1>2, <1>5, <2>3
  <2> QED
    BY <1>2, <2>2, <2>3
<1>6. num <= k * den => Rounded(num, den) <= k
  BY <1>2, <1>4, <1>5
<1>7. ASSUME num = k * den PROVE Rounded(num, den) = k
  <2>1. q <= k
    BY <1>5, <1>7
  <2>2. ASSUME q + 1 <= k PROVE FALSE
    <3>1. (q + 1) * den <= k * den
      BY <1>2, <2>2
    <3>2. (q + 1) * den = q * den + den
      BY <1>2
    <3> QED
      BY <1>2, <1>7, <3>1, <3>2
  <2>3. q = k
    BY <1>2, <2>1, <2>2
  <2>4. r = 0 /\ 2 * r < den
    BY <1>2, <1>5, <1>7, <2>3
  <2> QED
    BY <1>4, <2>3, <2>4
<1>8. ASSUME 2 * num < (2 * k - 1) * den PROVE Rounded(num, den) < k
  <2>1. (2 * k - 1) * den = 2 * (k * den) - den
    OBVIOUS
  <2>2. num <= k * den /\ 2 * (q * den) + 2 * r < 2 * (k * den) - den
    BY <1>2, <1>8, <2>1
  <2>3. q <= k /\ q # k
    BY <1>2, <1>5, <2>2
  <2>4. CASE q = k - 1
    <3>1. q * den = k * den - den
      BY <2>4
    <3>2. 2 * r < den
      BY <1>2, <2>2, <3>1
    <3> QED
      BY <1>2, <1>4, <2>4, <3>2
  <2>5. CASE q < k - 1
    BY <1>2, <1>4, <2>5
  <2> QED
    BY <1>2, <2>3, <2>4, <2>5
<1> QED
  BY <1>2, <1>4, <1>6, <1>7, <1>8

(* The rows a report counts are rows of the table. *)
LEMMA ControlsFinite ==
  ASSUME NEW fs \in SUBSET Frameworks, NEW statuses
  PROVE  /\ Controls(fs, statuses) \subseteq Frameworks \X Domains
         /\ IsFiniteSet(Controls(fs, statuses))
         /\ Cardinality(Controls(fs, statuses)) \in Nat
<1>1. Controls(fs, statuses) \subseteq Frameworks \X Domains
  BY DEF Controls
<1>2. IsFiniteSet(Frameworks \X Domains)
  BY ComplianceAssumption, FS_Product
<1>3. IsFiniteSet(Controls(fs, statuses))
  BY <1>1, <1>2, FS_Subset
<1> QED
  BY <1>1, <1>3, FS_CardinalityType

(* The rows of one domain are no more than the frameworks, those of one      *)
(* framework no more than the domains.                                       *)
LEMMA RowsOfDomain ==
  ASSUME NEW d, NEW rows, rows \subseteq Frameworks \X {d}
  PROVE  IsFiniteSet(rows) /\ Cardinality(rows) \in Nat /\ Cardinality(rows) < 100
<1>1. IsFiniteSet({d}) /\ Cardinality({d}) = 1
  BY FS_Singleton
<1>2. IsFiniteSet(Frameworks) /\ Cardinality(Frameworks) < 100 /\ Cardinality(Frameworks) \in Nat
  BY ComplianceAssumption, FS_CardinalityType
<1>3. /\ IsFiniteSet(Frameworks \X {d})
      /\ Cardinality(Frameworks \X {d}) = Cardinality(Frameworks) * Cardinality({d})
  BY <1>1, <1>2, FS_Product
<1>4. Cardinality(Frameworks \X {d}) = Cardinality(Frameworks)
  BY <1>1, <1>2, <1>3
<1>5. IsFiniteSet(rows) /\ Cardinality(rows) <= Cardinality(Frameworks \X {d})
  BY <1>3, FS_Subset
<1>6. Cardinality(rows) \in Nat
  BY <1>5, FS_CardinalityType
<1> QED
  BY <1>2, <1>4, <1>5, <1>6

LEMMA RowsOfFramework ==
  ASSUME NEW f, NEW rows, rows \subseteq {f} \X Domains
  PROVE  IsFiniteSet(rows) /\ Cardinality(rows) \in Nat /\ Cardinality(rows) < 1000
<1>1. IsFiniteSet({f}) /\ Cardinality({f}) = 1
  BY FS_Singleton
<1>2. IsFiniteSet(Domains) /\ Cardinality(Domains) < 1000 /\ Cardinality(Domains) \in Nat
  BY ComplianceAssumption, FS_CardinalityType
<1>3. /\ IsFiniteSet({f} \X Domains)
      /\ Cardinality({f} \X Domains) = Cardinality({f}) * Cardinality(Domains)
  BY <1>1, <1>2, FS_Product
<1>4. Cardinality({f} \X Domains) = Cardinality(Domains)
  BY <1>1, <1>2, <1>3
<1>5. IsFiniteSet(rows) /\ Cardinality(rows) <= Cardinality({f} \X Domains)
  BY <1>3, FS_Subset
<1>6. Cardinality(rows) \in Nat
  BY <1>5, FS_CardinalityType
<1> QED
  BY <1>2, <1>4, <1>5, <1>6

(* Disjoint sets are counted apart. *)
LEMMA CountedApart ==
  ASSUME NEW S, NEW T, IsFiniteSet(S), IsFiniteSet(T), S \cap T = {}
  PROVE  /\ IsFiniteSet(S \cup T)
         /\ Cardinality(S) \in Nat /\ Cardinality(T) \in Nat
         /\ Cardinality(S \cup T) = Cardinality(S) + Cardinality(T)
<1>1. /\ IsFiniteSet(S \cup T)
      /\ Cardinality(S \cup T) = Cardinality(S) + Cardinality(T) - Cardinality(S \cap T)
  BY FS_Union
<1>2. Cardinality(S \cap T) = 0
  BY FS_EmptySet
<1>3. Cardinality(S) \in Nat /\ Cardinality(T) \in Nat
  BY FS_CardinalityType
<1> QED
  BY <1>1, <1>2, <1>3

(* The weight of rows that apply, in halves, is at most two a row, and less  *)
(* exactly when one of them is a gap or partial.                             *)
LEMMA WeightOfRows ==
  ASSUME ComplianceTypeOK, NEW rows, IsFiniteSet(rows), rows \subseteq applicable(Frameworks)
  PROVE  /\ weighted(rows) \in Nat /\ Cardinality(rows) \in Nat
         /\ weighted(rows) <= 2 * Cardinality(rows)
         /\ IF rows \cap get_gaps(Frameworks) = {} THEN weighted(rows) = 2 * Cardinality(rows)
            ELSE weighted(rows) <= 2 * Cardinality(rows) - 1
<1> DEFINE Of(v) == {c \in rows : mappings[c[1]][c[2]] = v}
           Less  == rows \ Of("MAPPED")
<1>1. /\ IsFiniteSet(Of("MAPPED")) /\ IsFiniteSet(Less) /\ IsFiniteSet(Of("PARTIAL"))
      /\ Cardinality(Of("PARTIAL")) <= Cardinality(Less)
  <2>1. Of("MAPPED") \subseteq rows /\ Less \subseteq rows /\ Of("PARTIAL") \subseteq Less
    OBVIOUS
  <2> HIDE DEF Of, Less
  <2> QED
    BY <2>1, FS_Subset
<1>2. Of("MAPPED") \cap Less = {} /\ Of("MAPPED") \cup Less = rows
  OBVIOUS
<1>3. Less = rows \cap get_gaps(Frameworks)
  BY DEF applicable, get_gaps, Controls, ControlStatus
<1>4. weighted(rows) = 2 * Cardinality(Of("MAPPED")) + Cardinality(Of("PARTIAL"))
  BY DEF weighted
<1> HIDE DEF Of, Less
<1>5. /\ Cardinality(Of("MAPPED")) \in Nat /\ Cardinality(Less) \in Nat
      /\ Cardinality(rows) = Cardinality(Of("MAPPED")) + Cardinality(Less)
  BY <1>1, <1>2, CountedApart
<1>6. Cardinality(Of("PARTIAL")) \in Nat
  BY <1>1, FS_CardinalityType
<1>7. Cardinality(Less) = 0 <=> Less = {}
  BY <1>1, FS_EmptySet
<1> QED
  BY <1>1, <1>3, <1>4, <1>5, <1>6, <1>7

(* Coverage, or a score, of k is reached exactly by rows without a gap, as   *)
(* long as the rows are fewer than k.                                        *)
LEMMA FullScore ==
  ASSUME ComplianceTypeOK, NEW rows, IsFiniteSet(rows), rows \subseteq applicable(Frameworks),
         rows # {}, NEW k \in Nat \ {0}, Cardinality(rows) < k
  PROVE  /\ Rounded(k * weighted(rows), 2 * Cardinality(rows)) \in 0..k
         /\ Rounded(k * weighted(rows), 2 * Cardinality(rows)) = k
              <=> rows \cap get_gaps(Frameworks) = {}
<1>1. PICK n, w : n = Cardinality(rows) /\ w = weighted(rows)
  OBVIOUS
<1>2. /\ n \in Nat /\ w \in Nat /\ w <= 2 * n /\ n < k
      /\ IF rows \cap get_gaps(Frameworks) = {} THEN w = 2 * n ELSE w <= 2 * n - 1
  BY <1>1, WeightOfRows
<1>3. n # 0
  BY <1>1, FS_EmptySet
<1>4. PICK num, den : num = k * w /\ den = 2 * n
  OBVIOUS
<1>5. num \in Nat /\ den \in Nat \ {0} /\ k \in Nat
  BY <1>2, <1>3, <1>4
<1>6. /\ Rounded(num, den) \in Nat
      /\ num <= k * den => Rounded(num, den) <= k
      /\ num = k * den => Rounded(num, den) = k
      /\ 2 * num < (2 * k - 1) * den => Rounded(num, den) < k
  BY <1>5, RoundedBounds
<1>7. num <= k * den
  BY <1>2, <1>4
<1>8. CASE rows \cap get_gaps(Frameworks) = {}
  <2>1. num = k * den
    BY <1>2, <1>4, <1>8
  <2> QED
    BY <1>1, <1>4, <1>6, <1>8, <2>1
<1>9. CASE rows \cap get_gaps(Frameworks) # {}
  <2>1. w <= 2 * n - 1
    BY <1>2, <1>9
  <2>2. k * w <= k * (2 * n - 1)
    BY <1>2, <2>1
  <2>3. k * (2 * n - 1) = 2 * (k * n) - k /\ (2 * k - 1) * den = 4 * (k * n) - 2 * n
    BY <1>2, <1>4
  <2>4. 2 * num < (2 * k - 1) * den
    BY <1>2, <1>4, <2>2, <2>3
  <2> QED
    BY <1>1, <1>4, <1>6, <1>7, <1>9, <2>4
<1> QED
  BY <1>8, <1>9

(* What completing an assessment records is an outcome. *)
LEMMA AssessedOutcome ==
  ASSUME ComplianceTypeOK, NEW f \in Frameworks
  PROVE  Assessed(f) \in Outcome
<1>1. PICK a, b, c : /\ a = Cardinality(Controls({f}, ControlStatus))
                     /\ b = Cardinality(Controls({f}, {"MAPPED"}))
                     /\ c = Cardinality(Controls({f}, {"GAP"}))
  OBVIOUS
<1>2. a \in Nat /\ b \in Nat /\ c \in Nat
  BY <1>1, ControlsFinite
<1>3. PICK rows : rows = applicable({f})
  OBVIOUS
<1>4. PICK n, z : /\ n = Cardinality(rows)
                  /\ z = IF n = 0 THEN 0 ELSE Rounded(1000 * weighted(rows), 2 * n)
  OBVIOUS
<1>5. /\ rows \subseteq applicable(Frameworks) /\ rows \subseteq {f} \X Domains
  BY <1>3 DEF applicable, Controls
<1>6. IsFiniteSet(rows) /\ Cardinality(rows) \in Nat /\ Cardinality(rows) < 1000
  BY <1>5, RowsOfFramework
<1>7. z \in 0..1000
  <2>1. CASE n = 0
    BY <1>4, <2>1
  <2>2. CASE n # 0
    <3>1. rows # {}
      BY <1>4, <2>2, FS_EmptySet
    <3>2. Rounded(1000 * weighted(rows), 2 * Cardinality(rows)) \in 0..1000
      <4>1. PICK k \in Nat \ {0} : k = 1000
        OBVIOUS
      <4>3. Cardinality(rows) < k
        BY <1>6, <4>1
      <4> HIDE <1>3, <1>4, <4>1
      <4>2. Rounded(k * weighted(rows), 2 * Cardinality(rows)) \in 0..k
        BY <1>5, <1>6, <3>1, <4>3, FullScore
      <4> QED
        BY <4>1, <4>2
    <3> QED
      BY <1>4, <2>2, <3>2
  <2> QED
    BY <2>1, <2>2
<1>8. Assessed(f) = [total_controls |-> a, mapped_controls |-> b, gap_controls |-> c, score |-> z]
  BY <1>1, <1>3, <1>4 DEF Assessed
<1> HIDE <1>1, <1>3, <1>4
<1> QED
  BY <1>2, <1>7, <1>8 DEF Outcome

(* The mappings are seed data, so what an assessment finds does not change. *)
LEMMA AssessedAgain ==
  ASSUME mappings' = mappings
  PROVE  \A f : Assessed(f)' = Assessed(f)
BY DEF Assessed, Controls, applicable, weighted

LEMMA ComplianceStart ==
  ASSUME RequestsInit, ComplianceInit
  PROVE  ComplianceInv
<1>1. RequestsOf(ComplianceRequest) /\ OneRequest /\ \A s \in Sessions : req[s] = Idle
  BY RequestsStart
<1>2. ComplianceTypeOK
  BY DEF ComplianceInit, ComplianceTypeOK
<1>3. OutcomesRecorded
  BY DEF ComplianceInit, OutcomesRecorded, Completed
<1> QED
  BY <1>1, <1>2, <1>3 DEF ComplianceInv

(* A row of an assessment that is started. *)
LEMMA start_assessment_keeps ==
  ASSUME ComplianceInv, NEW s \in Sessions, NEW f \in Frameworks, start_assessment(s, f)
  PROVE  ComplianceInv' /\ CompletedOnce
<1>1. PICK i \in AssessmentIds :
        /\ assessments[i] = NULL /\ Instant(s)
        /\ assessments' = [assessments EXCEPT ![i] =
                             [framework |-> f, status |-> "IN_PROGRESS",
                              completed_at |-> 0, outcome |-> NULL]]
        /\ UNCHANGED <<mappings, completions>>
  BY DEF start_assessment
<1>2. PICK row : row = [framework |-> f, status |-> "IN_PROGRESS",
                        completed_at |-> 0, outcome |-> NULL]
  OBVIOUS
<1>3. row \in ComplianceAssessment /\ row.status # "COMPLETED" /\ row # NULL
  BY <1>2, ComplianceNoRow DEF ComplianceAssessment
<1>4. assessments \in [AssessmentIds -> {NULL} \cup ComplianceAssessment]
  BY DEF ComplianceInv, ComplianceTypeOK
<1>5. assessments' = [assessments EXCEPT ![i] = row]
  BY <1>1, <1>2
<1> HIDE <1>2
<1>6. /\ assessments' \in [AssessmentIds -> {NULL} \cup ComplianceAssessment]
      /\ assessments'[i] = row
      /\ \A j \in AssessmentIds \ {i} : assessments'[j] = assessments[j]
  BY <1>3, <1>4, <1>5
<1>7. ComplianceTypeOK'
  BY <1>1, <1>6 DEF ComplianceInv, ComplianceTypeOK
<1>8. /\ RequestsOf(ComplianceRequest)' /\ OneRequest' /\ req' = req
      /\ ~overlapped' => ~overlapped
  BY <1>1, Instants DEF ComplianceInv
<1>9. Completed' = Completed /\ \A j \in Completed : assessments'[j] = assessments[j]
  BY <1>1, <1>3, <1>6 DEF Completed
<1>10. OutcomesRecorded'
  BY <1>1, <1>9, AssessedAgain DEF ComplianceInv, OutcomesRecorded
<1>11. ASSUME NEW t \in Sessions, req'[t] # Idle PROVE CompletionLoaded(t)'
  <2>1. req[t] \in ComplianceRequest /\ req[t] # Idle
    BY <1>8, <1>11 DEF ComplianceInv, RequestsOf
  <2>2. CompletionLoaded(t) /\ req[t].assessment \in AssessmentIds
    BY <2>1 DEF ComplianceInv, ComplianceRequest
  <2>3. req[t].assessment # i
    BY <1>1, <2>2 DEF CompletionLoaded
  <2>4. assessments'[req[t].assessment] = assessments[req[t].assessment]
    BY <1>6, <2>2, <2>3
  <2> QED
    BY <1>1, <1>8, <2>2, <2>4, AssessedAgain DEF CompletionLoaded
<1>12. CompletedOnce
  BY <1>9 DEF CompletedOnce, Completed
<1> QED
  BY <1>7, <1>8, <1>10, <1>11, <1>12 DEF ComplianceInv

(* Until requests overlap, an assessment under way is not completed twice. *)
LEMMA complete_assessment_keeps ==
  ASSUME ComplianceInv, NEW s \in Sessions, NEW i \in AssessmentIds, complete_assessment(s, i)
  PROVE  ComplianceInv' /\ CompletedOnce
<1>1. /\ UNCHANGED <<mappings, assessments>> /\ completions' = completions + 1
      /\ completions \in Nat
      /\ assessments[i] # NULL /\ assessments[i].status # "COMPLETED"
  BY DEF complete_assessment, Completable, ComplianceInv, ComplianceTypeOK
<1>2. PICK f \in Frameworks : f = assessments[i].framework
  BY <1>1 DEF ComplianceInv, ComplianceTypeOK, ComplianceAssessment
<1>3. Assessed(f) \in Outcome
  BY AssessedOutcome DEF ComplianceInv
<1>4. PICK out, at, r : /\ out = Assessed(f) /\ at = completions + 1
                        /\ r = [op |-> "complete", assessment |-> i, at |-> at, outcome |-> out]
  OBVIOUS
<1>5. out \in Outcome /\ at \in Nat /\ at # 0
  BY <1>1, <1>3, <1>4
<1>6. r \in ComplianceRequest
  BY <1>4, <1>5 DEF ComplianceRequest
<1>7. Begin(s, r)
  BY <1>2, <1>4 DEF complete_assessment
<1>8. /\ RequestsOf(ComplianceRequest)' /\ OneRequest'
      /\ req'[s] = r /\ \A t \in Sessions \ {s} : req'[t] = req[t]
      /\ ~overlapped' => ~overlapped
  BY <1>6, <1>7, Begins DEF ComplianceInv
<1>9. r.assessment = i /\ r.at = at /\ r.outcome = out
  BY <1>4
<1>10. CompletionLoaded(s)'
  <2>1. Assessed(f)' = Assessed(f)
    BY <1>1, AssessedAgain
  <2>2. /\ req'[s].assessment = i /\ req'[s].at = at /\ req'[s].outcome = out
        /\ assessments'[i] = assessments[i] /\ assessments'[i].framework = f
    BY <1>1, <1>2, <1>8, <1>9
  <2>3. req'[s].outcome = Assessed(assessments[req[s].assessment].framework)'
    BY <1>1, <1>2, <1>4, <2>2, AssessedAgain
  <2> QED
    BY <1>1, <1>5, <2>2, <2>3 DEF CompletionLoaded
<1>11. ASSUME NEW t \in Sessions \ {s}, req'[t] # Idle PROVE CompletionLoaded(t)'
  <2>1. CompletionLoaded(t) /\ req'[t] = req[t]
    BY <1>8, <1>11 DEF ComplianceInv
  <2> QED
    BY <1>1, <1>8, <2>1, AssessedAgain DEF CompletionLoaded
<1>12. OutcomesRecorded' /\ CompletedOnce
  BY <1>1, AssessedAgain DEF ComplianceInv, OutcomesRecorded, CompletedOnce, Completed
<1>13. ComplianceTypeOK'
  BY <1>1 DEF ComplianceInv, ComplianceTypeOK
<1> QED
  BY <1>8, <1>10, <1>11, <1>12, <1>13 DEF ComplianceInv

(* The commit records what the mappings say, for the first time or again. *)
LEMMA CompleteCommitKeeps ==
  ASSUME ComplianceInv, NEW s \in Sessions, CompleteCommit(s)
  PROVE  ComplianceInv' /\ CompletedOnce
<1>1. req[s] # Idle /\ Idle \in ComplianceRequest \cup {Idle} /\ Finish(s)
  BY DEF CompleteCommit, Idle
<1>2. /\ RequestsOf(ComplianceRequest)' /\ OneRequest' /\ req'[s] = Idle
      /\ \A t \in Sessions \ {s} : req'[t] = req[t]
      /\ overlapped' = overlapped
      /\ ~overlapped => \A t \in Sessions \ {s} : req[t] = Idle
  BY <1>1, Continues DEF ComplianceInv, Finish
<1>3. req[s] \in ComplianceRequest /\ CompletionLoaded(s)
  BY <1>1 DEF ComplianceInv, RequestsOf
<1>4. PICK i \in AssessmentIds, at \in Nat, out \in Outcome :
        req[s].assessment = i /\ req[s].at = at /\ req[s].outcome = out
  BY <1>3 DEF ComplianceRequest
<1>5. PICK old \in ComplianceAssessment : old = assessments[i]
  BY <1>3, <1>4 DEF ComplianceInv, ComplianceTypeOK, CompletionLoaded
<1>6. /\ at # 0 /\ out = Assessed(old.framework)
      /\ ~overlapped => old.status # "COMPLETED"
  BY <1>3, <1>4, <1>5 DEF CompletionLoaded
<1>7. PICK row : row = [old EXCEPT !.status = "COMPLETED", !.completed_at = at, !.outcome = out]
  OBVIOUS
<1>8. /\ row \in ComplianceAssessment /\ row.framework = old.framework
      /\ row.status = "COMPLETED" /\ row.completed_at = at /\ row.outcome = out
  BY <1>7 DEF ComplianceAssessment
<1>9. assessments' = [assessments EXCEPT ![i] = row]
  BY <1>4, <1>5, <1>7 DEF CompleteCommit
<1> HIDE <1>7
<1>10. assessments \in [AssessmentIds -> {NULL} \cup ComplianceAssessment]
  BY DEF ComplianceInv, ComplianceTypeOK
<1>11. /\ assessments' \in [AssessmentIds -> {NULL} \cup ComplianceAssessment]
       /\ assessments'[i] = row
       /\ \A j \in AssessmentIds \ {i} : assessments'[j] = assessments[j]
  BY <1>8, <1>9, <1>10
<1>12. UNCHANGED <<mappings, completions>>
  BY DEF CompleteCommit
<1>13. ComplianceTypeOK'
  BY <1>11, <1>12 DEF ComplianceInv, ComplianceTypeOK
<1>14. row # NULL
  BY <1>8, ComplianceNoRow
<1>15. OutcomesRecorded'
  <2>1. ASSUME NEW j \in Completed'
        PROVE  (assessments[j].completed_at # 0
                /\ assessments[j].outcome = Assessed(assessments[j].framework))'
    <3>1. CASE j = i
      <4>1. assessments'[j].framework = old.framework
        BY <1>8, <1>11, <3>1
      <4>2. Assessed(assessments[j].framework)' = Assessed(old.framework)
        BY <1>12, <4>1, AssessedAgain
      <4> QED
        BY <1>6, <1>8, <1>11, <3>1, <4>2
    <3>2. CASE j # i
      <4>1. j \in Completed /\ assessments'[j] = assessments[j]
        BY <1>11, <3>2 DEF Completed
      <4>2. Assessed(assessments[j].framework)' = Assessed(assessments[j].framework)
        BY <1>12, <4>1, AssessedAgain
      <4>3. /\ assessments[j].completed_at # 0
            /\ assessments[j].outcome = Assessed(assessments[j].framework)
        BY <4>1 DEF ComplianceInv, OutcomesRecorded
      <4> QED
        BY <4>1, <4>2, <4>3
    <3> QED
      BY <3>1, <3>2
  <2> QED
    BY <2>1 DEF OutcomesRecorded
<1>16. ASSUME NEW t \in Sessions, req'[t] # Idle PROVE CompletionLoaded(t)'
  <2>1. t # s /\ req'[t] = req[t] /\ overlapped
    BY <1>2, <1>16
  <2>2. CompletionLoaded(t) /\ req[t].assessment \in AssessmentIds
    <3>1. req[t] \in ComplianceRequest
      BY <1>16, <2>1 DEF ComplianceInv, RequestsOf
    <3> QED
      BY <1>16, <2>1, <3>1 DEF ComplianceInv, ComplianceRequest
  <2>3. /\ assessments'[req[t].assessment] # NULL
        /\ assessments'[req[t].assessment].framework = assessments[req[t].assessment].framework
    BY <1>5, <1>8, <1>11, <1>14, <2>2 DEF CompletionLoaded
  <2> QED
    BY <1>2, <1>12, <2>1, <2>2, <2>3, AssessedAgain DEF CompletionLoaded
<1>17. CompletedOnce
  <2> SUFFICES ASSUME NEW j \in Completed
               PROVE  /\ assessments'[j].status = "COMPLETED"
                      /\ assessments'[j].outcome = assessments[j].outcome
                      /\ ~overlapped' => assessments'[j] = assessments[j]
    BY DEF CompletedOnce
  <2>1. CASE j = i
    BY <1>2, <1>5, <1>6, <1>8, <1>11, <2>1 DEF ComplianceInv, OutcomesRecorded, Completed
  <2>2. CASE j # i
    BY <1>11, <2>2 DEF Completed
  <2> QED
    BY <2>1, <2>2
<1> QED
  BY <1>2, <1>13, <1>15, <1>16, <1>17 DEF ComplianceInv

LEMMA ComplianceAborts ==
  ASSUME ComplianceInv, NEW s \in Sessions, Abort(s), UNCHANGED complianceTables
  PROVE  ComplianceInv' /\ CompletedOnce
<1>1. /\ RequestsOf(ComplianceRequest)' /\ OneRequest' /\ req'[s] = Idle
      /\ \A t \in Sessions \ {s} : req'[t] = req[t]
      /\ overlapped' = overlapped
  <2>1. Idle \in ComplianceRequest \cup {Idle}
    OBVIOUS
  <2> QED
    BY <2>1, Continues DEF ComplianceInv, Abort, Finish
<1>2. mappings' = mappings /\ assessments' = assessments /\ completions' = completions
  BY DEF complianceTables
<1>3. ASSUME NEW t \in Sessions, req'[t] # Idle PROVE CompletionLoaded(t)'
  <2>1. CompletionLoaded(t) /\ req'[t] = req[t]
    BY <1>1, <1>3 DEF ComplianceInv
  <2> QED
    BY <1>1, <1>2, <2>1, AssessedAgain DEF CompletionLoaded
<1>4. OutcomesRecorded' /\ CompletedOnce
  BY <1>2, AssessedAgain DEF ComplianceInv, OutcomesRecorded, CompletedOnce, Completed
<1>5. ComplianceTypeOK'
  BY <1>2 DEF ComplianceInv, ComplianceTypeOK
<1> QED
  BY <1>1, <1>3, <1>4, <1>5 DEF ComplianceInv

(* Every step of the compliance service keeps its invariant and completes    *)
(* assessments once.                                                         *)
LEMMA ComplianceStep ==
  ASSUME ComplianceInv, ComplianceNext
  PROVE  ComplianceInv' /\ CompletedOnce
BY start_assessment_keeps, complete_assessment_keeps, CompleteCommitKeeps, ComplianceAborts
   DEF ComplianceNext

LEMMA CompletedOnceElsewhere ==
  ASSUME ComplianceTypeOK, UNCHANGED complianceTables
  PROVE  ComplianceTypeOK' /\ CompletedOnce
BY DEF ComplianceTypeOK, complianceTables, CompletedOnce, Completed

(* The gap list is empty exactly when every domain is covered to 100%. *)
LEMMA GapsUncover ==
  ASSUME ComplianceTypeOK
  PROVE  get_gaps(Frameworks) = {} <=>
           \A c \in applicable(Frameworks) : control_coverage(Frameworks, c[2]) = 100
<1>1. ASSUME NEW c \in applicable(Frameworks)
      PROVE  control_coverage(Frameworks, c[2]) = 100
               <=> {e \in applicable(Frameworks) : e[2] = c[2]} \cap get_gaps(Frameworks) = {}
  <2>1. PICK rows : rows = {e \in applicable(Frameworks) : e[2] = c[2]}
    OBVIOUS
  <2>2. c \in rows /\ rows \subseteq applicable(Frameworks)
    BY <2>1
  <2>3. rows \subseteq Frameworks \X {c[2]}
    BY <2>1 DEF applicable, Controls
  <2>4. IsFiniteSet(rows) /\ Cardinality(rows) < 100
    BY <2>3, RowsOfDomain
  <2>5. control_coverage(Frameworks, c[2]) = Rounded(100 * weighted(rows), 2 * Cardinality(rows))
    BY <2>1, <2>2 DEF control_coverage
  <2>6. PICK k \in Nat \ {0} : k = 100
    OBVIOUS
  <2>7. Cardinality(rows) < k /\ rows # {}
    BY <2>2, <2>4, <2>6
  <2>8. Rounded(k * weighted(rows), 2 * Cardinality(rows)) = k
          <=> rows \cap get_gaps(Frameworks) = {}
    <3> HIDE <2>1, <2>6
    <3> QED
      BY <2>2, <2>4, <2>7, FullScore
  <2>9. control_coverage(Frameworks, c[2]) = 100 <=> rows \cap get_gaps(Frameworks) = {}
    BY <2>5, <2>6, <2>8
  <2> QED
    BY <2>1, <2>9
<1>2. get_gaps(Frameworks) \subseteq applicable(Frameworks)
  BY DEF get_gaps, applicable, Controls, ControlStatus
<1>3. ASSUME NEW c \in get_gaps(Frameworks)
      PROVE  c \in {e \in applicable(Frameworks) : e[2] = c[2]} \cap get_gaps(Frameworks)
  BY <1>2
<1> QED
  BY <1>1, <1>2, <1>3

(* The summary counts the rows of the gap list. *)
LEMMA SummaryCountsGaps ==
  ASSUME ComplianceTypeOK
  PROVE  get_compliance_summary.partial_controls + get_compliance_summary.gap_controls
           = Cardinality(get_gaps(Frameworks))
<1>1. PICK P, G : P = Controls(Frameworks, {"PARTIAL"}) /\ G = Controls(Frameworks, {"GAP"})
  OBVIOUS
<1>2. IsFiniteSet(P) /\ IsFiniteSet(G)
  BY <1>1, ControlsFinite
<1>3. P \cap G = {} /\ P \cup G = get_gaps(Frameworks)
  BY <1>1 DEF get_gaps, Controls
<1>4. Cardinality(P \cup G) = Cardinality(P) + Cardinality(G)
  BY <1>2, <1>3, CountedApart
<1>5. /\ get_compliance_summary.partial_controls = Cardinality(P)
      /\ get_compliance_summary.gap_controls = Cardinality(G)
  BY <1>1 DEF get_compliance_summary
<1> QED
  BY <1>3, <1>4, <1>5

(* One framework covers a domain by its one row: to 100, 50 or 0 percent. *)
LEMMA CoverageOfOne ==
  ASSUME ComplianceTypeOK, NEW f \in Frameworks, NEW c \in applicable({f})
  PROVE  control_coverage({f}, c[2]) = CASE mappings[c[1]][c[2]] = "MAPPED" -> 100
                                         [] mappings[c[1]][c[2]] = "PARTIAL" -> 50
                                         [] mappings[c[1]][c[2]] = "GAP" -> 0
<1>1. PICK rows, d : rows = {e \in applicable({f}) : e[2] = c[2]} /\ d = c[2]
  OBVIOUS
<1>2. c \in {f} \X Domains /\ mappings[c[1]][c[2]] \in {"MAPPED", "PARTIAL", "GAP"}
  BY DEF applicable, Controls, ControlStatus
<1>3. c = <<f, d>> /\ rows \subseteq {<<f, d>>} /\ c \in rows
  <2>1. c = <<f, d>> /\ c \in rows
    BY <1>1, <1>2
  <2>2. ASSUME NEW e \in rows PROVE e = <<f, d>>
    BY <1>1 DEF applicable, Controls
  <2> QED
    BY <2>1, <2>2
<1>4. rows = {c}
  BY <1>3
<1>5. Cardinality({c}) = 1 /\ Cardinality({}) = 0
  BY FS_Singleton, FS_EmptySet
<1>6. control_coverage({f}, c[2]) = Rounded(100 * weighted({c}), 2)
  <2>1. control_coverage({f}, c[2]) = Rounded(100 * weighted(rows), 2 * Cardinality(rows))
    BY <1>1, <1>3 DEF control_coverage
  <2>2. 2 * Cardinality(rows) = 2
    BY <1>4, <1>5
  <2> QED
    BY <1>4, <2>1, <2>2
<1> DEFINE Of(v) == {e \in {c} : mappings[e[1]][e[2]] = v}
<1>7. weighted({c}) = 2 * Cardinality(Of("MAPPED")) + Cardinality(Of("PARTIAL"))
  BY DEF weighted
<1>8. \A v : Of(v) = IF mappings[c[1]][c[2]] = v THEN {c} ELSE {}
  OBVIOUS
<1> HIDE DEF Of
<1>9. \A v : Cardinality(Of(v)) = IF mappings[c[1]][c[2]] = v THEN 1 ELSE 0
  BY <1>5, <1>8
<1>10. weighted({c}) = CASE mappings[c[1]][c[2]] = "MAPPED" -> 2
                         [] mappings[c[1]][c[2]] = "PARTIAL" -> 1
                         [] mappings[c[1]][c[2]] = "GAP" -> 0
  BY <1>2, <1>7, <1>9
<1>11. Rounded(100 * 2, 2) = 100 /\ Rounded(100 * 1, 2) = 50 /\ Rounded(100 * 0, 2) = 0
  BY DEF Rounded
<1> QED
  BY <1>2, <1>6, <1>10, <1>11

\* What the outcome of an assessment of f has to do with the other views.
Mirrors(f, out) ==
    /\ out.score = 1000 <=> applicable({f}) # {} /\ get_gaps({f}) = {}
    /\ out.gap_controls <= Cardinality(get_gaps({f}))
    /\ \A c \in applicable({f}) : control_coverage({f}, c[2]) \in {0, 50, 100}
    /\ applicable({f}) # {} =>
         out.score = Rounded(1000 * (2 * At(f, 100) + At(f, 50)), 2 * Cardinality(applicable({f})))

(* A completed assessment agrees with the gap list and with the overview. *)
LEMMA AssessmentAgrees ==
  ASSUME ComplianceTypeOK, NEW f \in Frameworks
  PROVE  Mirrors(f, Assessed(f))
<1>0. PICK out : out = Assessed(f)
  OBVIOUS
<1>1. PICK app : app = applicable({f})
  OBVIOUS
<1>2. app \subseteq applicable(Frameworks) /\ app \subseteq {f} \X Domains
  BY <1>1 DEF applicable, Controls
<1>3. IsFiniteSet(app) /\ Cardinality(app) \in Nat /\ Cardinality(app) < 1000
  BY <1>2, RowsOfFramework
<1>4. /\ out.gap_controls = Cardinality(Controls({f}, {"GAP"}))
      /\ out.score = IF Cardinality(app) = 0 THEN 0
                     ELSE Rounded(1000 * weighted(app), 2 * Cardinality(app))
  BY <1>0, <1>1 DEF Assessed
<1>5. out.gap_controls <= Cardinality(get_gaps({f}))
  <2>1. Controls({f}, {"GAP"}) \subseteq get_gaps({f}) /\ IsFiniteSet(get_gaps({f}))
    <3>1. IsFiniteSet(get_gaps({f}))
      BY ControlsFinite DEF get_gaps
    <3> QED
      BY <3>1 DEF get_gaps, Controls
  <2>2. PICK S, T : S = get_gaps({f}) /\ T = Controls({f}, {"GAP"})
    OBVIOUS
  <2>3. IsFiniteSet(S) /\ T \subseteq S
    BY <2>1, <2>2
  <2>4. Cardinality(T) <= Cardinality(S)
    BY <2>3, FS_Subset
  <2> QED
    BY <1>4, <2>2, <2>4
<1>6. app = {} <=> Cardinality(app) = 0
  BY <1>3, FS_EmptySet
<1>7. app \cap get_gaps(Frameworks) = get_gaps({f})
  BY <1>1 DEF applicable, get_gaps, Controls, ControlStatus
<1>8. out.score = 1000 <=> app # {} /\ get_gaps({f}) = {}
  <2>1. CASE app = {}
    BY <1>4, <1>6, <2>1
  <2>2. CASE app # {}
    <3>1. PICK k \in Nat \ {0} : k = 1000
      OBVIOUS
    <3>2. Cardinality(app) < k
      BY <1>3, <3>1
    <3>3. Rounded(k * weighted(app), 2 * Cardinality(app)) = k
            <=> app \cap get_gaps(Frameworks) = {}
      <4> HIDE <1>1, <1>4, <3>1
      <4> QED
        BY <1>2, <1>3, <2>2, <3>2, FullScore
    <3> QED
      BY <1>4, <1>6, <1>7, <2>2, <3>1, <3>3
  <2> QED
    BY <2>1, <2>2
<1>9. ASSUME NEW c \in app
      PROVE  /\ control_coverage({f}, c[2]) \in {0, 50, 100}
             /\ control_coverage({f}, c[2]) = 100 <=> mappings[c[1]][c[2]] = "MAPPED"
             /\ control_coverage({f}, c[2]) = 50 <=> mappings[c[1]][c[2]] = "PARTIAL"
  <2>1. mappings[c[1]][c[2]] \in {"MAPPED", "PARTIAL", "GAP"}
    BY <1>1 DEF applicable, Controls, ControlStatus
  <2>2. control_coverage({f}, c[2]) = CASE mappings[c[1]][c[2]] = "MAPPED" -> 100
                                         [] mappings[c[1]][c[2]] = "PARTIAL" -> 50
                                         [] mappings[c[1]][c[2]] = "GAP" -> 0
    BY <1>1, CoverageOfOne
  <2> QED
    BY <2>1, <2>2
<1>10. weighted(app) = 2 * At(f, 100) + At(f, 50)
  <2> DEFINE Cov(p) == {c \in app : control_coverage({f}, c[2]) = p}
             Of(v)  == {c \in app : mappings[c[1]][c[2]] = v}
  <2>1. Cov(100) = Of("MAPPED")
    <3>1. \A c \in app : control_coverage({f}, c[2]) = 100 <=> mappings[c[1]][c[2]] = "MAPPED"
      BY <1>9
    <3> QED
      BY <3>1, Zenon
  <2>2. Cov(50) = Of("PARTIAL")
    <3>1. \A c \in app : control_coverage({f}, c[2]) = 50 <=> mappings[c[1]][c[2]] = "PARTIAL"
      BY <1>9
    <3> QED
      BY <3>1, Zenon
  <2>3. weighted(app) = 2 * Cardinality(Of("MAPPED")) + Cardinality(Of("PARTIAL"))
    BY DEF weighted
  <2>4. At(f, 100) = Cardinality(Cov(100)) /\ At(f, 50) = Cardinality(Cov(50))
    BY <1>1 DEF At
  <2> HIDE DEF Cov, Of
  <2> QED
    BY <2>1, <2>2, <2>3, <2>4
<1> QED
  BY <1>0, <1>1, <1>4, <1>5, <1>6, <1>8, <1>9, <1>10 DEF Mirrors

(* The compliance endpoints agree in every state of the invariant. *)
LEMMA ComplianceAgrees ==
  ASSUME ComplianceInv
  PROVE  ComplianceViewsAgree
<1>1. ComplianceTypeOK
  BY DEF ComplianceInv
<1>2. ASSUME NEW i \in Completed
      PROVE  LET f   == assessments[i].framework
                 out == assessments[i].outcome
                 app == applicable({f})
             IN  /\ assessments[i].completed_at # 0 /\ out # NULL
                 /\ out.score = 1000 <=> app # {} /\ get_gaps({f}) = {}
                 /\ out.gap_controls <= Cardinality(get_gaps({f}))
                 /\ \A c \in app : control_coverage({f}, c[2]) \in {0, 50, 100}
                 /\ app # {} =>
                      out.score = Rounded(1000 * (2 * At(f, 100) + At(f, 50)),
                                          2 * Cardinality(app))
  <2>1. assessments[i] \in ComplianceAssessment
    BY <1>1 DEF ComplianceTypeOK, Completed
  <2>2. PICK f \in Frameworks : f = assessments[i].framework
    BY <2>1 DEF ComplianceAssessment
  <2>3. PICK out : out = assessments[i].outcome
    OBVIOUS
  <2>4. out = Assessed(f) /\ assessments[i].completed_at # 0
    BY <2>2, <2>3 DEF ComplianceInv, OutcomesRecorded
  <2>5. out # NULL
    BY <1>1, <2>4, AssessedOutcome, ComplianceNoRow
  <2>6. Mirrors(f, out)
    BY <1>1, <2>4, AssessmentAgrees
  <2> QED
    BY <2>2, <2>3, <2>4, <2>5, <2>6 DEF Mirrors
<1>3. get_gaps(Frameworks) = {} <=>
        \A c \in applicable(Frameworks) : control_coverage(Frameworks, c[2]) = 100
  BY <1>1, GapsUncover
<1>4. get_compliance_summary.partial_controls + get_compliance_summary.gap_controls
        = Cardinality(get_gaps(Frameworks))
  BY <1>1, SummaryCountsGaps
<1> QED
  BY <1>2, <1>3, <1>4 DEF ComplianceViewsAgree

-----------------------------------------------------------------------------
(* Part 5: what the HSM and the tenancy endpoints report. *)

(* Naturals are well founded. *)
LEMMA LeastNumber ==
  ASSUME NEW T, T \subseteq Nat, T # {}
  PROVE  \E m \in T : \A k \in T : m <= k
<1>1. PICK m \in T : \A k \in T : ~(<<k, m>> \in OpToRel(<, Nat))
  BY WFMin, NatLessThanWellFounded
<1>2. \A k \in T : ~(k < m)
  BY <1>1 DEF OpToRel
<1> QED
  BY <1>2

(* A nonempty finite set of integers has a least element: a counterexample   *)
(* of least cardinality would leave a smaller one without one of its         *)
(* elements.                                                                 *)
LEMMA FiniteMinimum ==
  ASSUME NEW S, IsFiniteSet(S), S \subseteq Int, S # {}
  PROVE  \E m \in S : \A k \in S : m <= k
<1> DEFINE Has(U) == \E m \in U : \A k \in U : m <= k
           Bad == {n \in Nat : \E U \in SUBSET S : U # {} /\ Cardinality(U) = n /\ ~Has(U)}
<1>1. ASSUME Bad # {} PROVE FALSE
  <2>1. Bad \subseteq Nat
    OBVIOUS
  <2>2. PICK n \in Bad : \A k \in Bad : n <= k
    <3> HIDE DEF Bad
    <3> QED
      BY <1>1, <2>1, LeastNumber
  <2>3. PICK U \in SUBSET S : U # {} /\ Cardinality(U) = n /\ ~Has(U)
    OBVIOUS
  <2>4. PICK x \in U : TRUE
    BY <2>3
  <2>5. IsFiniteSet(U) /\ x \in Int /\ U \subseteq Int
    BY FS_Subset
  <2>6. Cardinality(U \ {x}) = n - 1 /\ IsFiniteSet(U \ {x})
    BY <2>3, <2>5, FS_RemoveElement
  <2>7. n - 1 \in Nat
    BY <2>6, FS_CardinalityType
  <2>8. U \ {x} # {}
    BY <2>3, <2>5
  <2>9. Has(U \ {x})
    <3>1. n - 1 \notin Bad
      BY <2>2, <2>7
    <3> QED
      BY <2>6, <2>7, <2>8, <3>1
  <2>10. PICK m \in U \ {x} : \A k \in U \ {x} : m <= k
    BY <2>9
  <2>11. CASE m <= x
    BY <2>3, <2>5, <2>10, <2>11
  <2>12. CASE x <= m
    <3>1. \A k \in U : x <= k
      BY <2>5, <2>10, <2>12
    <3> QED
      BY <2>3, <3>1
  <2> QED
    BY <2>5, <2>11, <2>12
<1>2. Cardinality(S) \in Nat
  BY FS_CardinalityType
<1> QED
  BY <1>1, <1>2

LEMMA PostureStart ==
  ASSUME PostureInit
  PROVE  PostureTypeOK
<1>1. runs \in Seq(0..MaxNow)
  <2>1. << >> \in Seq(0..MaxNow) /\ 0 \in 0..MaxNow
    BY PostureAssumption
  <2>2. <<0>> \in Seq(0..MaxNow)
    BY <2>1
  <2> QED
    BY <2>1, <2>2 DEF PostureInit
<1> QED
  BY <1>1, PostureAssumption DEF PostureInit, PostureTypeOK

LEMMA PostureStep ==
  ASSUME PostureTypeOK, PostureNext
  PROVE  PostureTypeOK'
<1>1. CASE TimePasses
  BY <1>1, PostureAssumption DEF PostureTypeOK, TimePasses
<1>2. ASSUME NEW s \in Sessions, run_attestation(s) PROVE PostureTypeOK'
  BY <1>2 DEF PostureTypeOK, run_attestation
<1> QED
  BY <1>1, <1>2 DEF PostureNext

(* Some run is shown exactly when some run was made. *)
LEMMA RunsShown ==
  ASSUME PostureTypeOK, NEW n \in Nat \ {0}
  PROVE  LastRuns(n) = << >> <=> Len(runs) = 0
<1>1. PICK q : q = runs
  OBVIOUS
<1>2. q \in Seq(0..MaxNow) /\ Len(q) \in Nat
  BY <1>1 DEF PostureTypeOK
<1>3. PICK a : a = IF Len(q) > n THEN Len(q) - n + 1 ELSE 1
  OBVIOUS
<1>4. a \in 1..(Len(q) + 1) /\ (Len(q) # 0 => a <= Len(q))
  BY <1>2, <1>3
<1>5. LastRuns(n) = SubSeq(q, a, Len(q))
  BY <1>1, <1>3 DEF LastRuns
<1> HIDE <1>3
<1>6. Len(SubSeq(q, a, Len(q))) = IF a <= Len(q) THEN Len(q) - a + 1 ELSE 0
  BY <1>2, <1>4
<1>7. ASSUME Len(q) # 0 PROVE LastRuns(n) # << >>
  <2>1. Len(SubSeq(q, a, Len(q))) # 0
    BY <1>2, <1>4, <1>6, <1>7
  <2>2. Len(<< >>) = 0
    OBVIOUS
  <2> QED
    BY <1>5, <2>1, <2>2
<1>8. ASSUME Len(q) = 0 PROVE LastRuns(n) = << >>
  <2>1. SubSeq(q, a, Len(q)) \in Seq(0..MaxNow) /\ Len(SubSeq(q, a, Len(q))) = 0
    BY <1>2, <1>4, <1>6, <1>8
  <2> QED
    BY <1>5, <2>1, EmptySeq
<1> QED
  BY <1>1, <1>7, <1>8

(* Keys that are in rotation have an expiry. *)
LEMMA KeysInRotation ==
  ASSUME PostureTypeOK, NEW k \in KeyRows
  PROVE  /\ keys[k].expires_at = NULL \/ keys[k].expires_at \in Int
         /\ keys[k].expires_at # NULL => keys[k].activated_at = 0
         /\ keys[k].status \in {"ACTIVE", "EXPIRING"} => keys[k].expires_at # NULL
         /\ keys[k].status \in {"ACTIVE", "EXPIRING", "RETIRED", "DISABLED", "PENDING"}
         /\ now \in Int
<1>1. keys[k] \in MasterKey /\ now \in 0..MaxNow
  BY DEF PostureTypeOK
<1>2. now \in Int /\ \A e \in Expiries : e \in Int /\ e # NULL
  BY <1>1, PostureAssumption
<1> QED
  BY <1>1, <1>2 DEF MasterKey

(* The next rotation of the summary is at most 30 days away exactly when     *)
(* some key is listed as expiring.                                           *)
LEMMA NextRotation ==
  ASSUME PostureTypeOK
  PROVE  (\E k \in KeyRows : effective_key_status(k) = "EXPIRING") <=>
           next_rotation_days # NULL /\ next_rotation_days <= EXPIRING_WITHIN_DAYS
<1> DEFINE S == {x \in KeyRows : keys[x].status \in {"ACTIVE", "EXPIRING"} /\ keys[x].expires_at # NULL}
           D(k) == days(keys[k].expires_at - now)
<1>1. rotation_candidates = {D(k) : k \in S}
  BY DEF rotation_candidates
<1>2. ASSUME NEW k \in S PROVE D(k) \in Int
  BY KeysInRotation DEF days
<1>3. ASSUME NEW k \in KeyRows
      PROVE  effective_key_status(k) = "EXPIRING" <=> k \in S /\ D(k) <= 30
  <2>1. keys[k].status \in {"ACTIVE", "EXPIRING"} => keys[k].expires_at # NULL
    BY KeysInRotation
  <2>2. keys[k].status \in {"ACTIVE", "EXPIRING", "RETIRED", "DISABLED", "PENDING"}
    BY KeysInRotation
  <2> QED
    BY <2>1, <2>2 DEF effective_key_status, EXPIRING_WITHIN_DAYS
<1>4. rotation_candidates \subseteq Int /\ S \subseteq KeyRows
  BY <1>1, <1>2
<1>5. IsFiniteSet(rotation_candidates)
  <2>1. PICK g : g = [k \in S |-> D(k)]
    OBVIOUS
  <2>2. g \in Surjection(S, rotation_candidates)
    BY <1>1, <2>1 DEF Surjection
  <2>3. IsFiniteSet(S)
    <3>1. IsFiniteSet(KeyRows)
      BY PostureAssumption
    <3> HIDE DEF S
    <3> QED
      BY <1>4, <3>1, FS_Subset
  <2> HIDE DEF S
  <2> QED
    BY <2>2, <2>3, FS_Surjection
<1>6. CASE rotation_candidates = {}
  <2>1. next_rotation_days = NULL
    BY <1>6 DEF next_rotation_days
  <2>2. S = {}
    BY <1>1, <1>6
  <2> QED
    BY <1>3, <2>1, <2>2
<1>7. CASE rotation_candidates # {}
  <2>1. \E d \in rotation_candidates : \A e \in rotation_candidates : d <= e
    BY <1>4, <1>5, <1>7, FiniteMinimum
  <2>2. PICK m \in rotation_candidates :
          /\ \A e \in rotation_candidates : m <= e
          /\ m = CHOOSE d \in rotation_candidates : \A e \in rotation_candidates : d <= e
    BY <2>1
  <2>3. next_rotation_days = IF m < 0 THEN 0 ELSE m
    BY <1>7, <2>2 DEF next_rotation_days
  <2>4. m \in Int /\ NULL \notin Int
    BY <1>4, PostureAssumption
  <2>5. next_rotation_days # NULL /\ (next_rotation_days <= 30 <=> m <= 30)
    BY <2>3, <2>4
  <2>6. m <= 30 <=> \E k \in S : D(k) <= 30
    <3>1. PICK k \in S : m = D(k)
      BY <1>1
    <3>2. ASSUME NEW j \in S, D(j) <= 30 PROVE m <= 30
      <4>1. D(j) \in rotation_candidates /\ D(j) \in Int
        BY <1>1, <1>2
      <4>2. m <= D(j)
        BY <2>2, <4>1
      <4> HIDE DEF D, S
      <4> QED
        BY <2>4, <3>2, <4>1, <4>2
    <3> HIDE DEF D, S
    <3> QED
      BY <3>1, <3>2
  <2> QED
    BY <1>3, <2>5, <2>6 DEF EXPIRING_WITHIN_DAYS
<1> QED
  BY <1>6, <1>7

(* The certificates the summary counts are those with 30 days or less. *)
LEMMA ExpiringCertificates ==
  ASSUME PostureTypeOK
  PROVE  CertsIn({"expiring", "expired"}) = {c \in CertRows : days_left(c) <= EXPIRING_WITHIN_DAYS}
<1>1. ASSUME NEW c \in CertRows
      PROVE  certificate_status(c) \in {"expiring", "expired"} <=> days_left(c) <= 30
  <2>1. certs[c] \in Int /\ now \in Int
    <3>1. certs \in [CertRows -> Expiries] /\ now \in 0..MaxNow
      BY DEF PostureTypeOK
    <3>2. Expiries \subseteq Int /\ MaxNow \in Nat
      BY PostureAssumption
    <3>3. certs[c] \in Expiries
      BY <3>1
    <3>4. now \in Int
      BY <3>1, <3>2
    <3> QED
      BY <3>2, <3>3, <3>4
  <2>2. PICK e \in Int, n \in Int : e = certs[c] /\ n = now
    BY <2>1
  <2>3. PICK d \in Int : d = (e - n) \div 2
    OBVIOUS
  <2>4. e <= n => d <= 0
    BY <2>3
  <2>5. certificate_status(c) = IF e <= n THEN "expired" ELSE IF d <= 30 THEN "expiring" ELSE "valid"
    BY <2>2, <2>3 DEF certificate_status, days, EXPIRING_WITHIN_DAYS
  <2>6. days_left(c) = IF d < 0 THEN 0 ELSE d
    BY <2>2, <2>3 DEF days_left, days
  <2> HIDE <2>2, <2>3
  <2> QED
    BY <2>4, <2>5, <2>6
<1> QED
  BY <1>1 DEF CertsIn, EXPIRING_WITHIN_DAYS

(* What the health report's checks look at. *)
LEMMA HealthChecks ==
  /\ "database" \in get_security_health
  /\ "providers" \in get_security_health <=> \E p \in ProviderRows : providers[p].is_active
  /\ "attestation" \in get_security_health <=> LastRuns(1) # << >>
  /\ "slot_capacity" \in get_security_health <=> Critical = {}
  /\ "certificates" \in get_security_health <=> CertsIn({"expired"}) = {}
<1>1. PICK a, b, c, d : /\ a = (\E p \in ProviderRows : providers[p].is_active)
                        /\ b = (LastRuns(1) # << >>)
                        /\ c = (Critical = {})
                        /\ d = (CertsIn({"expired"}) = {})
  OBVIOUS
<1>2. get_security_health =
        {"database"} \cup (IF a THEN {"providers"} ELSE {})
                     \cup (IF b THEN {"attestation"} ELSE {})
                     \cup (IF c THEN {"slot_capacity"} ELSE {})
                     \cup (IF d THEN {"certificates"} ELSE {})
  BY <1>1 DEF get_security_health
<1>3. /\ "database" \in get_security_health
      /\ "providers" \in get_security_health <=> a
      /\ "attestation" \in get_security_health <=> b
      /\ "slot_capacity" \in get_security_health <=> c
      /\ "certificates" \in get_security_health <=> d
  <2> HIDE <1>1
  <2> QED
    BY <1>2
<1> QED
  BY <1>1, <1>3

(* What is counted and not empty is positive. *)
LEMMA SomeCounted ==
  ASSUME NEW S, NEW T, IsFiniteSet(S), T \subseteq S, NEW x \in T
  PROVE  Cardinality(T) > 0
<1>1. IsFiniteSet(T)
  BY FS_Subset
<1>2. Cardinality(T) \in Nat /\ Cardinality(T) # 0
  BY <1>1, FS_CardinalityType, FS_EmptySet
<1> QED
  BY <1>2

(* The HSM endpoints agree in every state of the tables. *)
LEMMA SecurityAgrees ==
  ASSUME PostureTypeOK
  PROVE  SecurityViewsAgree
<1>1. PICK s, h : s = get_security_summary /\ h = get_security_health
  OBVIOUS
<1>2. /\ s.overall_status = IF \/ \E p \in ProviderRows : ~providers[p].is_active
                               \/ Critical # {}
                               \/ \E k \in KeyRows : keys[k].status = "DISABLED"
                            THEN "attention" ELSE "healthy"
      /\ s.near_capacity_slots = Cardinality({l \in SlotRows :
                                                capacity_percent(l) >= NEAR_CAPACITY_PERCENT})
      /\ s.expiring_certificates = Cardinality(CertsIn({"expiring", "expired"}))
      /\ s.next_rotation_days = next_rotation_days
      /\ s.latest_attestation_passed = IF LastRuns(HistoryLimit) = << >> THEN NULL ELSE TRUE
  BY <1>1 DEF get_security_summary
<1>3. /\ "database" \in h
      /\ "providers" \in h <=> \E p \in ProviderRows : providers[p].is_active
      /\ "attestation" \in h <=> LastRuns(1) # << >>
      /\ "slot_capacity" \in h <=> Critical = {}
      /\ "certificates" \in h <=> CertsIn({"expired"}) = {}
  BY <1>1, HealthChecks
<1> HIDE <1>1
<1>4. (\E k \in KeyRows : effective_key_status(k) = "EXPIRING") <=>
        s.next_rotation_days # NULL /\ s.next_rotation_days <= EXPIRING_WITHIN_DAYS
  BY <1>2, NextRotation
<1>5. ASSUME NEW k \in KeyRows, keys[k].expires_at # NULL, now >= keys[k].expires_at
      PROVE  rotation_percent(k) = 1000
  <2>1. /\ keys[k].expires_at \in Int /\ keys[k].activated_at = 0 /\ now \in Int
    BY <1>5, KeysInRotation
  <2>2. 0 # NULL
    BY PostureAssumption
  <2> QED
    BY <1>5, <2>1, <2>2 DEF rotation_percent, Percent10
<1>6. s.expiring_certificates = Cardinality({c \in CertRows : days_left(c) <= EXPIRING_WITHIN_DAYS})
  BY <1>2, ExpiringCertificates
<1>7. ASSUME "certificates" \notin h PROVE s.expiring_certificates > 0
  <2>1. PICK c : c \in CertsIn({"expired"})
    BY <1>3, <1>7
  <2>2. PICK T : T = CertsIn({"expiring", "expired"})
    OBVIOUS
  <2>3. c \in T /\ T \subseteq CertRows /\ IsFiniteSet(CertRows)
    BY <2>1, <2>2, PostureAssumption DEF CertsIn
  <2>4. Cardinality(T) > 0
    BY <2>3, SomeCounted
  <2> QED
    BY <1>2, <2>2, <2>4
<1>8. s.latest_attestation_passed = TRUE <=> Len(runs) # 0
  <2>1. LastRuns(HistoryLimit) = << >> <=> Len(runs) = 0
    BY RunsShown, PostureAssumption
  <2>2. NULL # TRUE
    BY PostureAssumption
  <2> QED
    BY <1>2, <2>1, <2>2
<1>9. latest_attestation # NULL => Len(runs) # 0
  BY DEF latest_attestation
<1>10. "attestation" \in h <=> Len(runs) # 0
  BY <1>3, RunsShown
<1>11. "providers" \notin h <=> \A p \in ProviderRows : provider_status(p) = "offline"
  <2>1. \A p \in ProviderRows : provider_status(p) = "offline" <=> ~providers[p].is_active
    BY DEF provider_status
  <2> QED
    BY <1>3, <2>1
<1>12. ASSUME "slot_capacity" \notin h PROVE s.near_capacity_slots > 0
  <2>1. PICK l : l \in Critical
    BY <1>3, <1>12
  <2>2. PICK T : T = {x \in SlotRows : capacity_percent(x) >= NEAR_CAPACITY_PERCENT}
    OBVIOUS
  <2>3. capacity_percent(l) \in Int
    <3>1. slots[l] \in Nat /\ CapacityMax \in Nat \ {0}
      BY <2>1, PostureAssumption DEF PostureTypeOK, Critical
    <3> QED
      BY <3>1 DEF capacity_percent, Percent10
  <2>4. l \in T /\ T \subseteq SlotRows /\ IsFiniteSet(SlotRows)
    BY <2>1, <2>2, <2>3, PostureAssumption
       DEF Critical, CAPACITY_CRITICAL_PERCENT, NEAR_CAPACITY_PERCENT
  <2>5. Cardinality(T) > 0
    BY <2>4, SomeCounted
  <2> QED
    BY <1>2, <2>2, <2>5
<1>13. ASSUME s.overall_status = "healthy", runs # << >>, ProviderRows # {}
       PROVE  {"database", "providers", "attestation", "slot_capacity"} \subseteq h
  <2>1. /\ \A p \in ProviderRows : providers[p].is_active
        /\ Critical = {}
    BY <1>2, <1>13
  <2>2. Len(runs) # 0
    <3>1. runs \in Seq(0..MaxNow)
      BY DEF PostureTypeOK
    <3> QED
      BY <1>13, <3>1, EmptySeq
  <2> QED
    BY <1>3, <1>10, <1>13, <2>1, <2>2
<1> QED
  BY <1>1, <1>4, <1>5, <1>6, <1>7, <1>8, <1>9, <1>10, <1>11, <1>12, <1>13 DEF SecurityViewsAgree

(* The columns an update leaves. *)
LEMMA update_tenant_keeps ==
  ASSUME TenantPostureTypeOK, NEW s \in Sessions, NEW t \in TenantRows,
         NEW fields \in SUBSET Fields, NEW values \in Columns, update_tenant(s, t, fields, values)
  PROVE  TenantPostureTypeOK'
<1>1. PICK old \in Columns, v \in {"ACTIVE", "PROVISIONING", "SUSPENDED"} :
        posture[t] = [status |-> v, columns |-> old]
  BY DEF TenantPostureTypeOK, TenantRow
<1>2. PICK new : new = [f \in Fields |-> IF f \in fields THEN values[f] ELSE old[f]]
  OBVIOUS
<1>3. new \in Columns
  BY <1>2 DEF Columns
<1>4. posture' = [posture EXCEPT ![t] = [status |-> v, columns |-> new]]
  <2>1. posture[t].columns = old
    BY <1>1
  <2>2. posture' = [posture EXCEPT ![t].columns = new]
    BY <1>2, <2>1 DEF update_tenant
  <2> HIDE <1>2
  <2>3. posture' = [posture EXCEPT ![t] = [posture[t] EXCEPT !.columns = new]]
    BY <2>2
  <2>4. [posture[t] EXCEPT !.columns = new] = [status |-> v, columns |-> new]
    BY <1>1
  <2> QED
    BY <2>3, <2>4
<1> HIDE <1>2
<1>5. [status |-> v, columns |-> new] \in TenantRow
  BY <1>3 DEF TenantRow
<1>6. posture' \in [TenantRows -> TenantRow]
  BY <1>4, <1>5 DEF TenantPostureTypeOK
<1> QED
  BY <1>6 DEF TenantPostureTypeOK, update_tenant

LEMMA TenantPostureStep ==
  ASSUME TenantPostureTypeOK, TenantPostureNext
  PROVE  TenantPostureTypeOK'
<1>1. CASE HourPasses
  BY <1>1 DEF TenantPostureTypeOK, HourPasses
<1> QED
  BY <1>1, update_tenant_keeps DEF TenantPostureNext

(* Python and SQL agree on which backups are current, at the 24th hour too. *)
LEMMA BackupsAgree ==
  ASSUME TenantPostureTypeOK, NEW t \in TenantRows
  PROVE  get_tenant_usage(t) = Cardinality({x \in Snapshots :
           snapshots[x].tenant = t /\ effective_snapshot_status(x) = "CURRENT"})
<1> DEFINE Sql == {x \in Snapshots : /\ snapshots[x].tenant = t
                                     /\ snapshots[x].status # "PENDING"
                                     /\ \/ snapshots[x].taken_at = NULL
                                        \/ snapshots[x].taken_at >= hour - 24}
           Python == {x \in Snapshots : /\ snapshots[x].tenant = t
                                        /\ effective_snapshot_status(x) = "CURRENT"}
<1>1. ASSUME NEW x \in Snapshots PROVE x \in Sql <=> x \in Python
  <2>1. /\ snapshots[x].taken_at = NULL \/ snapshots[x].taken_at \in Int
        /\ hour \in Int
    BY TenantPostureAssumption DEF TenantPostureTypeOK, TenantBackupSnapshot
  <2> QED
    BY <2>1 DEF effective_snapshot_status, STALE_SNAPSHOT_AFTER_HOURS
<1>2. Sql \subseteq Snapshots /\ Python \subseteq Snapshots
  OBVIOUS
<1>3. get_tenant_usage(t) = Cardinality(Sql)
  BY DEF get_tenant_usage, STALE_SNAPSHOT_AFTER_HOURS
<1>4. Sql = Python
  <2> HIDE DEF Sql, Python
  <2> QED
    BY <1>1, <1>2
<1> QED
  BY <1>3, <1>4

(* The level of a tenant can be read off its score. *)
LEMMA LevelOfScore ==
  ASSUME TenantPostureTypeOK, NEW t \in TenantRows
  PROVE  /\ isolation_level(t) \in {"strict", "partial", "breach", "pending"}
         /\ posture[t].status # "PROVISIONING" =>
              isolation_level(t) = CASE isolation_score(t) = 100 -> "strict"
                                     [] isolation_score(t) = 80 -> "partial"
                                     [] isolation_score(t) <= 60 -> "breach"
<1>1. PICK a, b, c : /\ a = posture[t].columns["db_schema_valid"]
                     /\ b = posture[t].columns["network_shared"]
                     /\ c = posture[t].columns["encryption_valid"]
  OBVIOUS
<1>2. isolation_score(t) = (IF a THEN 40 ELSE 0) + (IF ~b THEN 20 ELSE 0) + (IF c THEN 40 ELSE 0)
  BY <1>1 DEF isolation_score
<1>3. isolation_level(t) = IF posture[t].status = "PROVISIONING" THEN "pending"
                           ELSE IF ~a \/ ~c THEN "breach"
                           ELSE IF b THEN "partial" ELSE "strict"
  BY <1>1 DEF isolation_level
<1> HIDE <1>1
<1> QED
  BY <1>2, <1>3

(* Every tenant has one level. *)
LEMMA LevelsCounted ==
  ASSUME TenantPostureTypeOK
  PROVE  isolation_summary("strict") + isolation_summary("partial") + isolation_summary("breach")
           + isolation_summary("pending") = Cardinality(TenantRows)
<1> DEFINE L(v) == {t \in TenantRows : isolation_level(t) = v}
<1>1. \A v : isolation_summary(v) = Cardinality(L(v))
  BY DEF isolation_summary
<1>2. \A v, w : L(v) \subseteq TenantRows /\ (v # w => L(v) \cap L(w) = {})
  OBVIOUS
<1>3. L("strict") \cup L("partial") \cup L("breach") \cup L("pending") = TenantRows
  <2>1. \A t \in TenantRows : isolation_level(t) \in {"strict", "partial", "breach", "pending"}
    BY LevelOfScore
  <2> QED
    BY <2>1
<1> HIDE DEF L
<1>4. \A v : IsFiniteSet(L(v))
  BY <1>2, TenantPostureAssumption, FS_Subset
<1>5. PICK A, B, C, E : A = L("strict") /\ B = L("partial") /\ C = L("breach") /\ E = L("pending")
  OBVIOUS
<1>6. /\ IsFiniteSet(A) /\ IsFiniteSet(B) /\ IsFiniteSet(C) /\ IsFiniteSet(E)
      /\ A \cap B = {} /\ (A \cup B) \cap C = {} /\ (A \cup B \cup C) \cap E = {}
  <2>1. IsFiniteSet(A) /\ IsFiniteSet(B) /\ IsFiniteSet(C) /\ IsFiniteSet(E)
    BY <1>4, <1>5
  <2>2. /\ A \cap B = {} /\ A \cap C = {} /\ B \cap C = {}
        /\ A \cap E = {} /\ B \cap E = {} /\ C \cap E = {}
    BY <1>2, <1>5
  <2> QED
    BY <2>1, <2>2
<1>7. /\ IsFiniteSet(A \cup B) /\ Cardinality(A) \in Nat /\ Cardinality(B) \in Nat
      /\ Cardinality(A \cup B) = Cardinality(A) + Cardinality(B)
  BY <1>6, CountedApart
<1>8. /\ IsFiniteSet(A \cup B \cup C) /\ Cardinality(C) \in Nat
      /\ Cardinality(A \cup B \cup C) = Cardinality(A \cup B) + Cardinality(C)
  BY <1>6, <1>7, CountedApart
<1>9. /\ Cardinality(E) \in Nat
      /\ Cardinality(A \cup B \cup C \cup E) = Cardinality(A \cup B \cup C) + Cardinality(E)
  BY <1>6, <1>8, CountedApart
<1>10. A \cup B \cup C \cup E = TenantRows
  BY <1>3, <1>5
<1> QED
  BY <1>1, <1>5, <1>7, <1>8, <1>9, <1>10

(* The tenancy endpoints agree in every state of the tables. *)
LEMMA TenantsAgree ==
  ASSUME TenantPostureTypeOK
  PROVE  TenantViewsAgree
BY BackupsAgree, LevelOfScore, LevelsCounted DEF TenantViewsAgree

-----------------------------------------------------------------------------
(* Part 6: the services together. *)

LEMMA ServicesStart ==
  ASSUME Init
  PROVE  ServicesInv
<1>1. /\ service \in {"auth", "rbac", "notifications", "tenancy",
                      "compliance", "security", "posture"}
      /\ RequestsInit /\ AuthInit /\ RbacInit /\ TenancyInit
      /\ NotesInit /\ ComplianceInit /\ PostureInit /\ TenantPostureInit
  BY DEF Init
<1>2. RotationInv /\ RbacInv /\ TenancyInv /\ NotesInv /\ ComplianceInv
  BY <1>1, RotationStart, RbacStart, TenancyStart, NotesStart, ComplianceStart
<1>3. AuthTypeOK /\ RbacTypeOK /\ NotesTypeOK /\ ReadAtSet /\ TenancyTypeOK /\ ComplianceTypeOK
  BY <1>2 DEF RotationInv, RbacInv, TenancyInv, NotesInv, ComplianceInv
<1>4. PostureTypeOK
  BY <1>1, PostureStart
<1>5. TenantPostureTypeOK
  BY <1>1 DEF TenantPostureInit, TenantPostureTypeOK, STALE_SNAPSHOT_AFTER_HOURS
<1>6. RequestsOf({}) /\ OneRequest
  BY <1>1, RequestsStart
<1> QED
  BY <1>1, <1>2, <1>3, <1>4, <1>5, <1>6 DEF ServicesInv

(* Tables that a step leaves alone keep their types. *)
LEMMA AdministrationElsewhere ==
  /\ AuthTypeOK /\ UNCHANGED authTables => AuthTypeOK'
  /\ RbacTypeOK /\ UNCHANGED rbacTables => RbacTypeOK'
  /\ TenancyTypeOK /\ UNCHANGED tenancyTables => TenancyTypeOK'
<1>1. AuthTypeOK /\ UNCHANGED authTables => AuthTypeOK'
  BY DEF AuthTypeOK, authTables
<1>2. RbacTypeOK /\ UNCHANGED rbacTables => RbacTypeOK'
  BY DEF RbacTypeOK, rbacTables
<1>3. TenancyTypeOK /\ UNCHANGED tenancyTables => TenancyTypeOK'
  BY DEF TenancyTypeOK, tenancyTables
<1> QED
  BY <1>1, <1>2, <1>3

LEMMA ReportsElsewhere ==
  /\ PostureTypeOK /\ UNCHANGED postureTables => PostureTypeOK'
  /\ TenantPostureTypeOK /\ UNCHANGED tenantPostureTables => TenantPostureTypeOK'
<1>1. PostureTypeOK /\ UNCHANGED postureTables => PostureTypeOK'
  BY DEF PostureTypeOK, postureTables
<1>2. TenantPostureTypeOK /\ UNCHANGED tenantPostureTables => TenantPostureTypeOK'
  BY DEF TenantPostureTypeOK, tenantPostureTables
<1> QED
  BY <1>1, <1>2

(* Attestation and the update of a tenant begin and end in one step. *)
LEMMA PostureRequests ==
  ASSUME RequestsOf({}), OneRequest, PostureNext \/ TenantPostureNext
  PROVE  RequestsOf({})' /\ OneRequest'
<1>1. ASSUME UNCHANGED reqVars PROVE RequestsOf({})' /\ OneRequest'
  BY <1>1 DEF reqVars, RequestsOf, OneRequest
<1>2. ASSUME NEW s \in Sessions, Instant(s) PROVE RequestsOf({})' /\ OneRequest'
  BY <1>2, Instants
<1>3. CASE PostureNext
  <2>1. CASE TimePasses
    BY <1>1, <2>1 DEF TimePasses, reqVars
  <2>2. CASE \E s \in Sessions : run_attestation(s)
    BY <1>2, <2>2 DEF run_attestation
  <2> QED
    BY <1>3, <2>1, <2>2 DEF PostureNext
<1>4. CASE TenantPostureNext
  <2>1. CASE HourPasses
    BY <1>1, <2>1 DEF HourPasses, reqVars
  <2>2. CASE ~HourPasses
    <3>1. PICK s \in Sessions : Instant(s)
      BY <1>4, <2>2 DEF TenantPostureNext, update_tenant
    <3> QED
      BY <1>2, <3>1
  <2> QED
    BY <2>1, <2>2
<1> QED
  BY <1>3, <1>4

(* A step of an administration service. *)
LEMMA AdministrationStep ==
  ASSUME ServicesInv, service' = service, AdministrationNext, UNCHANGED reportTables
  PROVE  ServicesInv' /\ ReadOnce /\ CompletedOnce
<1>1. /\ PostureTypeOK' /\ TenantPostureTypeOK' /\ ComplianceTypeOK' /\ CompletedOnce
  BY ReportsElsewhere, CompletedOnceElsewhere DEF ServicesInv, reportTables
<1>2. CASE /\ service = "auth" /\ AuthNext
           /\ UNCHANGED <<rbacTables, notesTables, tenancyTables>>
  <2>1. RotationInv'
    BY <1>2, RotationStep DEF ServicesInv
  <2>2. AuthTypeOK' /\ RbacTypeOK' /\ TenancyTypeOK' /\ NotesTypeOK' /\ ReadAtSet' /\ ReadOnce
    BY <1>2, <2>1, AdministrationElsewhere, ReadOnceElsewhere DEF ServicesInv, RotationInv
  <2> QED
    BY <1>1, <1>2, <2>1, <2>2 DEF ServicesInv
<1>3. CASE /\ service = "rbac" /\ RbacNext
           /\ UNCHANGED <<authTables, notesTables, tenancyTables>>
  <2>1. RbacInv'
    BY <1>3, RbacStep DEF ServicesInv
  <2>2. AuthTypeOK' /\ RbacTypeOK' /\ TenancyTypeOK' /\ NotesTypeOK' /\ ReadAtSet' /\ ReadOnce
    BY <1>3, <2>1, AdministrationElsewhere, ReadOnceElsewhere DEF ServicesInv, RbacInv
  <2> QED
    BY <1>1, <1>3, <2>1, <2>2 DEF ServicesInv
<1>4. CASE /\ service = "notifications" /\ NotesNext
           /\ UNCHANGED <<authTables, rbacTables, tenancyTables>>
  <2>1. NotesInv' /\ ReadOnce
    BY <1>4, NotesStep DEF ServicesInv
  <2>2. AuthTypeOK' /\ RbacTypeOK' /\ TenancyTypeOK' /\ NotesTypeOK' /\ ReadAtSet'
    BY <1>4, <2>1, AdministrationElsewhere DEF ServicesInv, NotesInv
  <2> QED
    BY <1>1, <1>4, <2>1, <2>2 DEF ServicesInv
<1>5. CASE /\ service = "tenancy" /\ TenancyNext
           /\ UNCHANGED <<authTables, rbacTables, notesTables>>
  <2>1. TenancyInv'
    BY <1>5, TenancyStep DEF ServicesInv
  <2>2. AuthTypeOK' /\ RbacTypeOK' /\ TenancyTypeOK' /\ NotesTypeOK' /\ ReadAtSet' /\ ReadOnce
    BY <1>5, <2>1, AdministrationElsewhere, ReadOnceElsewhere DEF ServicesInv, TenancyInv
  <2> QED
    BY <1>1, <1>5, <2>1, <2>2 DEF ServicesInv
<1> QED
  BY <1>2, <1>3, <1>4, <1>5 DEF AdministrationNext

(* A step of a service with reports. *)
LEMMA ReportsStep ==
  ASSUME ServicesInv, service' = service, ReportsNext, UNCHANGED administrationTables
  PROVE  ServicesInv' /\ ReadOnce /\ CompletedOnce
<1>1. AuthTypeOK' /\ RbacTypeOK' /\ TenancyTypeOK' /\ NotesTypeOK' /\ ReadAtSet' /\ ReadOnce
  BY AdministrationElsewhere, ReadOnceElsewhere DEF ServicesInv, administrationTables
<1>2. CASE /\ service = "compliance" /\ ComplianceNext
           /\ UNCHANGED <<postureTables, tenantPostureTables>>
  <2>1. ComplianceInv' /\ CompletedOnce
    BY <1>2, ComplianceStep DEF ServicesInv
  <2>2. ComplianceTypeOK' /\ PostureTypeOK' /\ TenantPostureTypeOK'
    BY <1>2, <2>1, ReportsElsewhere DEF ServicesInv, ComplianceInv
  <2> QED
    BY <1>1, <1>2, <2>1, <2>2 DEF ServicesInv
<1>3. CASE /\ service = "security" /\ PostureNext
           /\ UNCHANGED <<complianceTables, tenantPostureTables>>
  <2>1. ComplianceTypeOK' /\ PostureTypeOK' /\ TenantPostureTypeOK' /\ CompletedOnce
    BY <1>3, PostureStep, ReportsElsewhere, CompletedOnceElsewhere DEF ServicesInv
  <2>2. RequestsOf({})' /\ OneRequest'
    BY <1>3, PostureRequests DEF ServicesInv
  <2> QED
    BY <1>1, <1>3, <2>1, <2>2 DEF ServicesInv
<1>4. CASE /\ service = "posture" /\ TenantPostureNext
           /\ UNCHANGED <<complianceTables, postureTables>>
  <2>1. ComplianceTypeOK' /\ PostureTypeOK' /\ TenantPostureTypeOK' /\ CompletedOnce
    BY <1>4, TenantPostureStep, ReportsElsewhere, CompletedOnceElsewhere DEF ServicesInv
  <2>2. RequestsOf({})' /\ OneRequest'
    BY <1>4, PostureRequests DEF ServicesInv
  <2> QED
    BY <1>1, <1>4, <2>1, <2>2 DEF ServicesInv
<1> QED
  BY <1>2, <1>3, <1>4 DEF ReportsNext

(* A step of none of them. *)
LEMMA ServicesStutter ==
  ASSUME ServicesInv, UNCHANGED vars
  PROVE  ServicesInv' /\ ReadOnce /\ CompletedOnce
<1>1. /\ service' = service /\ UNCHANGED reqVars
      /\ UNCHANGED authTables /\ UNCHANGED rbacTables /\ UNCHANGED notesTables
      /\ UNCHANGED tenancyTables /\ UNCHANGED complianceTables
      /\ UNCHANGED postureTables /\ UNCHANGED tenantPostureTables
  BY DEF vars, administrationTables, reportTables
<1>2. AuthTypeOK' /\ RbacTypeOK' /\ TenancyTypeOK' /\ NotesTypeOK' /\ ReadAtSet' /\ ReadOnce
  BY <1>1, AdministrationElsewhere, ReadOnceElsewhere DEF ServicesInv
<1>3. ComplianceTypeOK' /\ PostureTypeOK' /\ TenantPostureTypeOK' /\ CompletedOnce
  BY <1>1, ReportsElsewhere, CompletedOnceElsewhere DEF ServicesInv
<1>4. service = "auth" => RotationInv'
  BY <1>1, RotationStep DEF ServicesInv
<1>5. service = "rbac" => RbacInv'
  BY <1>1, RbacStep DEF ServicesInv
<1>6. service = "tenancy" => TenancyInv'
  BY <1>1, TenancyStep DEF ServicesInv
<1>7. req' = req /\ overlapped' = overlapped /\ notes' = notes
  BY <1>1 DEF reqVars, notesTables
<1>8. service = "notifications" => NotesInv'
  BY <1>2, <1>7 DEF ServicesInv, NotesInv, RequestsOf, OneRequest, MarkLoaded
<1>9. service = "compliance" => ComplianceInv'
  <2> SUFFICES ASSUME ComplianceInv PROVE ComplianceInv'
    BY DEF ServicesInv
  <2>1. mappings' = mappings /\ assessments' = assessments
    BY <1>1 DEF complianceTables
  <2>2. OutcomesRecorded'
    BY <2>1, AssessedAgain DEF ComplianceInv, OutcomesRecorded, Completed
  <2>3. ASSUME NEW s \in Sessions, req'[s] # Idle PROVE CompletionLoaded(s)'
    <3>1. CompletionLoaded(s)
      BY <1>7, <2>3 DEF ComplianceInv
    <3> QED
      BY <1>7, <2>1, <3>1, AssessedAgain DEF CompletionLoaded
  <2> QED
    BY <1>3, <1>7, <2>2, <2>3 DEF ComplianceInv, RequestsOf, OneRequest
<1>10. service \in {"security", "posture"} => RequestsOf({})' /\ OneRequest'
  BY <1>7 DEF ServicesInv, RequestsOf, OneRequest
<1> QED
  BY <1>1, <1>2, <1>3, <1>4, <1>5, <1>6, <1>8, <1>9, <1>10 DEF ServicesInv

LEMMA ServicesStep ==
  ASSUME ServicesInv, [Next]_vars
  PROVE  ServicesInv' /\ ReadOnce /\ CompletedOnce
BY AdministrationStep, ReportsStep, ServicesStutter DEF Next

(* The invariant of the services types their tables and requests. *)
LEMMA ServicesTyped ==
  ASSUME ServicesInv
  PROVE  TypeOK
<1>1. ASSUME NEW R, RequestsOf(R)
      PROVE  overlapped \in BOOLEAN /\ \A s \in Sessions : req[s] = Idle \/ req[s] \in R
  BY <1>1 DEF RequestsOf
<1> DEFINE Requests(v) == CASE v = "auth" -> AuthRequest
                            [] v = "rbac" -> RbacRequest
                            [] v = "notifications" -> NotesRequest
                            [] v = "tenancy" -> TenancyRequest
                            [] v = "compliance" -> ComplianceRequest
<1>2. /\ Requests("auth") = AuthRequest /\ Requests("rbac") = RbacRequest
      /\ Requests("notifications") = NotesRequest /\ Requests("tenancy") = TenancyRequest
      /\ Requests("compliance") = ComplianceRequest
  OBVIOUS
<1>3. /\ overlapped \in BOOLEAN
      /\ \A s \in Sessions : req[s] = Idle \/ req[s] \in Requests(service)
  <2> HIDE DEF Requests
  <2>1. CASE service = "auth"
    BY <1>1, <1>2, <2>1 DEF ServicesInv, RotationInv
  <2>2. CASE service = "rbac"
    BY <1>1, <1>2, <2>2 DEF ServicesInv, RbacInv
  <2>3. CASE service = "notifications"
    BY <1>1, <1>2, <2>3 DEF ServicesInv, NotesInv
  <2>4. CASE service = "tenancy"
    BY <1>1, <1>2, <2>4 DEF ServicesInv, TenancyInv
  <2>5. CASE service = "compliance"
    BY <1>1, <1>2, <2>5 DEF ServicesInv, ComplianceInv
  <2>6. CASE service \in {"security", "posture"}
    BY <1>1, <2>6 DEF ServicesInv
  <2> QED
    BY <2>1, <2>2, <2>3, <2>4, <2>5, <2>6 DEF ServicesInv
<1> QED
  BY <1>3 DEF TypeOK, ServicesInv

(* The tables and the requests in flight of every service keep their types:  *)
(* whatever requests interleave, fail or read stale rows, no handler writes  *)
(* what the columns cannot hold.  A completed assessment scores at most 100  *)
(* percent.                                                                  *)
THEOREM ServicesTypeCorrect == Spec => []TypeOK
BY ServicesStart, ServicesStep, ServicesTyped, PTL DEF Spec

(* Endpoints that report the same facts agree: the compliance overview, the  *)
(* summary, the gap list and the completed assessments; the HSM overview,    *)
(* summary and health report; the tenancy overview and the usage report.     *)
THEOREM EndpointsAgree == Spec => []ViewsAgree
<1>1. ServicesInv => ViewsAgree
  BY ComplianceAgrees, SecurityAgrees, TenantsAgree DEF ServicesInv, ViewsAgree
<1> QED
  BY <1>1, ServicesStart, ServicesStep, PTL DEF Spec

(* What is read stays read and what is completed stays completed, and until  *)
(* requests overlap neither time is overwritten: mark_notification_read,     *)
(* mark_all_read and complete_assessment write only what they find unread or *)
(* in progress.                                                              *)
THEOREM TimesStampedOnce == Spec => StampedOnce
<1>1. ServicesInv /\ [Next]_vars => [ReadOnce /\ CompletedOnce]_<<notes, assessments, reqVars>>
  BY ServicesStep
<1> QED
  BY <1>1, ServicesStart, ServicesStep, PTL DEF Spec, StampedOnce

=============================================================================
