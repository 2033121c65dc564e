------------------------------- MODULE Roles --------------------------------
(***************************************************************************)
(* RolesService as its routes reach it: creation and removal of roles, the *)
(* assignment of roles and of single permissions to users, and what a user *)
(* may do.  A request is one action per query.  The body of a creation     *)
(* lists permissions under a name the service does not read, and the route *)
(* of the update refuses every id, so that the permissions of a role are   *)
(* those the seed gave it.                                                 *)
(***************************************************************************)
EXTENDS Naturals, Sequences, FiniteSets

CONSTANTS
  User, Permission, Client,
  Name,        \* names of roles
  InitRoles,   \* the roles at the start, with their permissions
  InitHolders, \* InitHolders[u] is the set of roles of u at the start
  RoleLists,   \* the lists of role ids clients assign, as sets of positions
  Operations,  \* what the clients do: a subset of AllOperations
  MaxRoles     \* bound: roles ever created

AllOperations == {"create", "delete", "assignRoles", "assignPermission"}
RoleRow == [name : Name, isDeleted : BOOLEAN, granted : SUBSET Permission]

OperationAssumption == Operations \subseteq AllOperations
RoleAssumption == InitRoles \in Seq(RoleRow)
HolderAssumption == InitHolders \in [User -> SUBSET DOMAIN InitRoles]
ListAssumption == RoleLists \subseteq SUBSET (1..MaxRoles)
BoundAssumption == MaxRoles \in Nat

VARIABLES
  roles,     \* the table, in the order of creation
  hasRoles,  \* the roles of each user
  own,       \* the permissions assigned to each user itself
  req        \* the request each client has in flight

vars == <<roles, hasRoles, own, req>>

Ids == DOMAIN roles
Live == {r \in Ids : ~roles[r].isDeleted}

Idle == [pc |-> "idle", name |-> "", user |-> "", roles |-> {}, permissions |-> {},
         known |-> {}, before |-> {}]

Init ==
  /\ roles = InitRoles
  /\ hasRoles = InitHolders
  /\ own = [u \in User |-> {}]
  /\ req = [c \in Client |-> Idle]

AtPc(c, pc) == req[c].pc = pc
Send(c, request) == req' = [req EXCEPT ![c] = request]
Answer(c) == Send(c, Idle)

-----------------------------------------------------------------------------
(* What a user may do *)

\* getUserRoles leaves deleted roles out, getUserPermissions does not.
RolesOf(u) == hasRoles[u] \intersect Live

PermissionsOfLiveRoles(u) == UNION {roles[r].granted : r \in RolesOf(u)} \* faulty
RolePermissions(u) == UNION {roles[r].granted : r \in hasRoles[u]}
UserPermissions(u) == RolePermissions(u) \union own[u]
UserHasPermissions(u, permissions) == permissions \subseteq UserPermissions(u)

-----------------------------------------------------------------------------
(* Roles *)

NotNamed(n) == \A r \in Live : roles[r].name # n

Create(c, n, permissions) ==
  /\ "create" \in Operations
  /\ AtPc(c, "idle")
  /\ NotNamed(n)
  /\ Send(c, [Idle EXCEPT !.pc = "create", !.name = n, !.permissions = permissions,
                          !.before = Ids])
  /\ UNCHANGED <<roles, hasRoles, own>>

\* The name is unique over deleted roles too.
NameTaken(n) == {r \in Ids : roles[r].name = n}

\* The body has permissionIds, the service reads permissions.
PermissionsRead(permissions) == {}

InsertRole(c) ==
  /\ AtPc(c, "create")
  /\ Len(roles) < MaxRoles
  /\ NameTaken(req[c].name) = {}
  /\ roles' = Append(roles, [name |-> req[c].name, isDeleted |-> FALSE,
                             granted |-> PermissionsRead(req[c].permissions)])
  /\ Answer(c)
  /\ UNCHANGED <<hasRoles, own>>

InsertRoleFails(c) ==
  /\ AtPc(c, "create")
  /\ NameTaken(req[c].name) # {}
  /\ Answer(c)
  /\ UNCHANGED <<roles, hasRoles, own>>

FindToRemove(c, r) ==
  /\ "delete" \in Operations
  /\ AtPc(c, "idle") /\ r \in Live
  /\ Send(c, [Idle EXCEPT !.pc = "remove", !.roles = {r}])
  /\ UNCHANGED <<roles, hasRoles, own>>

Remove(c) ==
  /\ AtPc(c, "remove")
  /\ roles' = [r \in Ids |-> IF r \in req[c].roles THEN [roles[r] EXCEPT !.isDeleted = TRUE]
                             ELSE roles[r]]
  /\ Answer(c)
  /\ UNCHANGED <<hasRoles, own>>

-----------------------------------------------------------------------------
(* Assignments *)

AssignRoles(c, u, list) ==
  /\ "assignRoles" \in Operations
  /\ AtPc(c, "idle")
  /\ list \subseteq Live
  /\ Send(c, [Idle EXCEPT !.pc = "assign", !.user = u, !.roles = list])
  /\ UNCHANGED <<roles, hasRoles, own>>

\* The rows to be created name no column of the table (user_id, role_id):
\* with any role in the list the transaction fails and is rolled back.
AssignRolesAccepted(list) == list = {}

WriteRolesAlone(c) == \* faulty: no transaction, the roles stay cleared
  /\ AtPc(c, "assign")
  /\ hasRoles' = [hasRoles EXCEPT ![req[c].user] = {}]
  /\ Answer(c)
  /\ UNCHANGED <<roles, own>>
WriteRoles(c) ==
  /\ AtPc(c, "assign")
  /\ hasRoles' = IF AssignRolesAccepted(req[c].roles)
                 THEN [hasRoles EXCEPT ![req[c].user] = req[c].roles] ELSE hasRoles
  /\ Answer(c)
  /\ UNCHANGED <<roles, own>>

\* assignPermissionToUser: the permissions of the user's roles, then its own;
\* the missing ones are created in a third statement.
AssignAnyRoles(c, u, permissions) == \* faulty: permissions of anybody's roles
  /\ "assignPermission" \in Operations
  /\ AtPc(c, "idle")
  /\ Send(c, [Idle EXCEPT !.pc = "own", !.user = u, !.permissions = permissions,
                          !.roles = hasRoles[u],
                          !.known = UNION {roles[r].granted : r \in Ids}])
  /\ UNCHANGED <<roles, hasRoles, own>>
AssignPermissions(c, u, permissions) ==
  /\ "assignPermission" \in Operations
  /\ AtPc(c, "idle")
  /\ Send(c, [Idle EXCEPT !.pc = "own", !.user = u, !.permissions = permissions,
                          !.roles = hasRoles[u], !.known = RolePermissions(u)])
  /\ UNCHANGED <<roles, hasRoles, own>>

ReadNothing(c) == \* faulty: reads the roles' permissions only
  /\ AtPc(c, "own")
  /\ Send(c, [req[c] EXCEPT !.pc = "insert", !.before = own[req[c].user]])
  /\ UNCHANGED <<roles, hasRoles, own>>
ReadOwn(c) ==
  /\ AtPc(c, "own")
  /\ Send(c, [req[c] EXCEPT !.pc = "insert", !.known = @ \union own[req[c].user],
                            !.before = own[req[c].user]])
  /\ UNCHANGED <<roles, hasRoles, own>>

Missing(c) == req[c].permissions \ req[c].known

InsertPermissions(c) ==
  /\ AtPc(c, "insert")
  /\ Missing(c) \intersect own[req[c].user] = {}
  /\ own' = [own EXCEPT ![req[c].user] = @ \union Missing(c)]
  /\ Answer(c)
  /\ UNCHANGED <<roles, hasRoles>>

\* One of the rows exists already: none is created.
InsertPermissionsFails(c) ==
  /\ AtPc(c, "insert")
  /\ Missing(c) \intersect own[req[c].user] # {}
  /\ Answer(c)
  /\ UNCHANGED <<roles, hasRoles, own>>

-----------------------------------------------------------------------------
Next ==
  \E c \in Client :
    \/ \E n \in Name, permissions \in SUBSET Permission : Create(c, n, permissions)
    \/ InsertRole(c)
    \/ InsertRoleFails(c)
    \/ \E r \in Ids : FindToRemove(c, r)
    \/ Remove(c)
    \/ \E u \in User, list \in RoleLists : AssignRoles(c, u, list)
    \/ WriteRoles(c)
    \/ \E u \in User, permissions \in SUBSET Permission : AssignPermissions(c, u, permissions)
    \/ ReadOwn(c)
    \/ InsertPermissions(c)
    \/ InsertPermissionsFails(c)

Spec == Init /\ [][Next]_vars

-----------------------------------------------------------------------------
TypeOK ==
  /\ roles \in Seq(RoleRow)
  /\ hasRoles \in [User -> SUBSET Ids]
  /\ own \in [User -> SUBSET Permission]
  /\ \A c \in Client :
       /\ req[c].pc \in {"idle", "create", "remove", "assign", "own", "insert"}
       /\ req[c].roles \subseteq Ids /\ req[c].permissions \subseteq Permission

(* Nothing takes a permission from a user but the empty list of roles: not *)
(* the deletion of a role, nor a list that the database refuses after the  *)
(* roles have been cleared.                                                *)
OnlyEmptyListTakes ==
  [][\A u \in User, permissions \in SUBSET Permission :
       UserHasPermissions(u, permissions) =>
         \/ UserHasPermissions(u, permissions)'
         \/ \E c \in Client : WriteRoles(c) /\ req[c].user = u /\ req[c].roles = {}]_vars

(* When an assignment is answered the user has all its permissions, those  *)
(* included that were not stored because a role had them, whatever was     *)
(* deleted or assigned since they were read (but for the user's roles).    *)
AssignedIsHeld ==
  [][\A c \in Client, u \in User :
       InsertPermissions(c) /\ req[c].user = u /\ req[c].roles = hasRoles[u] =>
         req[c].permissions \subseteq UserPermissions(u)']_vars

(* A request whose look found its way free fails only because of a row     *)
(* created after the look or, for names, of a deleted role.                *)
FailuresAreExplained ==
  [][\A c \in Client :
       /\ InsertPermissionsFails(c) => ~(own[req[c].user] \subseteq req[c].before)
       /\ InsertRoleFails(c) =>
            \E r \in NameTaken(req[c].name) : r \notin req[c].before \/ roles[r].isDeleted]_vars
=============================================================================
