------------------------------ MODULE Seeding -------------------------------
(***************************************************************************)
(* prisma/seed.ts: thirteen tables are emptied and users, permissions and  *)
(* roles created, each by a call of its own and none in a transaction.     *)
(* Meanwhile users register and enqueue jobs; the script fails, is stopped *)
(* and is run again.                                                       *)
(***************************************************************************)
EXTENDS Naturals, Sequences, FiniteSets

CONSTANTS
  Permission,   \* resource and action
  RolesDelete,  \* the one the admin role lacks
  SuperAdmin, Admin, Plain, \* the users the script makes; the roles too
  Newcomer,     \* a user who registers
  Old,          \* what a database in use has in a table
  MayEnqueue,   \* whether jobs may be enqueued
  MaxTrouble    \* bound: stops and registrations together

RolesDeleteAssumption == RolesDelete \in Permission
EnqueueAssumption == MayEnqueue \in BOOLEAN
TroubleAssumption == MaxTrouble \in Nat

VARIABLES
  rows,     \* the tables
  script,   \* "off", "delete", "users", "permissions", "role", "grant" or "link"
  at,       \* the table to be emptied, or the role to be made, by number
  creating, \* what this stage has still to create
  printed,  \* whether the last run has printed "Seed completed."
  trouble

vars == <<rows, script, at, creating, printed, trouble>>

DeleteOrder ==
  <<"userPermissions", "userRoles", "rolePermissions", "userSessions", "refreshTokens",
    "permissions", "roles", "users", "subjects", "tickets", "files", "answers", "questions">>
RoleOrder == <<SuperAdmin, Admin>>
Table == {DeleteOrder[i] : i \in DOMAIN DeleteOrder} \union {"jobs"}

\* The rows of these tables go with those of t (onDelete: Cascade) ...
Cascade(t) ==
  CASE t = "permissions" -> {"rolePermissions", "userPermissions"}
    [] t = "roles" -> {"rolePermissions", "userRoles"}
    [] t = "users" -> {"userRoles", "userPermissions", "userSessions", "refreshTokens"}
    [] t \in {"subjects", "tickets", "files"} -> {"questions", "answers"}
    [] t = "questions" -> {"answers"}
    [] OTHER -> {}
\* ... and those of the table of users cannot while there are jobs of theirs.
Restricted(t) == t = "users" /\ rows["jobs"] # {}

\* A database that has never been seeded, or one in use.
Init ==
  /\ \E old \in {{}, {Old}} :
       rows = [t \in Table |->
                 CASE t = "jobs" -> {}
                   [] t = "users" -> {Plain}
                   [] t \in {"rolePermissions", "userRoles"} -> old \X old
                   [] OTHER -> old]
  /\ script = "off" /\ at = 0 /\ creating = {}
  /\ printed = FALSE
  /\ trouble = 0

Add(t, row) == rows' = [rows EXCEPT ![t] = @ \union {row}]

-----------------------------------------------------------------------------
Run ==
  /\ script = "off"
  /\ script' = "delete" /\ at' = 1
  /\ creating' = {}
  /\ printed' = FALSE
  /\ UNCHANGED <<rows, trouble>>

\* Seeding failed: process.exit(1).
Fail ==
  /\ script' = "off" /\ at' = 0 /\ creating' = {}
  /\ UNCHANGED <<printed, trouble>>

\* What comes after emptying table i.
AfterTable(i) ==
  IF i < Len(DeleteOrder)
  THEN script' = "delete" /\ at' = i + 1 /\ creating' = {}
  ELSE script' = "users" /\ at' = 0 /\ creating' = {SuperAdmin, Admin, Plain}

DeleteManyButRoles == \* faulty: the roles are left out
  /\ script = "delete" /\ ~Restricted(DeleteOrder[at])
  /\ rows' = [t \in Table |->
                IF t # "roles" /\ t \in {DeleteOrder[at]} \union Cascade(DeleteOrder[at])
                THEN {} ELSE rows[t]]
  /\ AfterTable(at)
  /\ UNCHANGED <<printed, trouble>>
DeleteMany ==
  /\ script = "delete"
  /\ IF Restricted(DeleteOrder[at]) THEN Fail /\ UNCHANGED rows
     ELSE /\ rows' = [t \in Table |->
                        IF t \in {DeleteOrder[at]} \union Cascade(DeleteOrder[at])
                        THEN {} ELSE rows[t]]
          /\ AfterTable(at)
          /\ UNCHANGED <<printed, trouble>>

-----------------------------------------------------------------------------
\* The users are created side by side; one whose email a newcomer has taken
\* ends the script, while the calls of the others may go through.
CreateUser(u) ==
  /\ script = "users" /\ u \in creating
  /\ IF u \in rows["users"]
     THEN /\ Fail
          /\ \E s \in SUBSET (creating \ {u}) : rows' = [rows EXCEPT !["users"] = @ \union s]
     ELSE /\ Add("users", u)
          /\ creating' = IF creating = {u} THEN Permission ELSE creating \ {u}
          /\ script' = IF creating = {u} THEN "permissions" ELSE "users"
          /\ UNCHANGED <<at, printed, trouble>>

CreatePermission(p) ==
  /\ script = "permissions" /\ p \in creating
  /\ Add("permissions", p)
  /\ creating' = creating \ {p}
  /\ script' = IF creating = {p} THEN "role" ELSE "permissions"
  /\ at' = 1
  /\ UNCHANGED <<printed, trouble>>

\* roleDefinitions.
PermissionsOfAll(r) == Permission \* faulty: no exception for the admin
PermissionsOf(r) == IF r = SuperAdmin THEN Permission ELSE Permission \ {RolesDelete}

CreateRole ==
  /\ script = "role"
  /\ IF {RoleOrder[at], Old} \cap rows["roles"] # {} THEN Fail /\ UNCHANGED rows
     ELSE /\ Add("roles", RoleOrder[at])
          /\ creating' = PermissionsOf(RoleOrder[at])
          /\ script' = "grant"
          /\ UNCHANGED <<at, printed, trouble>>

Grant(p) ==
  /\ script = "grant" /\ p \in creating
  /\ Add("rolePermissions", <<RoleOrder[at], p>>)
  /\ creating' = creating \ {p}
  /\ script' = IF creating = {p} THEN "link" ELSE "grant"
  /\ UNCHANGED <<at, printed, trouble>>

\* The role's user gets it; the next role, or the end.
Link ==
  /\ script = "link"
  /\ Add("userRoles", <<RoleOrder[at], RoleOrder[at]>>)
  /\ IF at < Len(RoleOrder)
     THEN script' = "role" /\ at' = at + 1 /\ UNCHANGED printed
     ELSE script' = "off" /\ at' = 0 /\ printed' = TRUE
  /\ UNCHANGED <<creating, trouble>>

-----------------------------------------------------------------------------
Trouble == trouble < MaxTrouble /\ trouble' = trouble + 1

Stop ==
  /\ script # "off"
  /\ Trouble
  /\ script' = "off" /\ at' = 0 /\ creating' = {}
  /\ UNCHANGED <<rows, printed>>

\* Somebody registers, under an email of their own or one of the script's.
Register(u) ==
  /\ u \notin rows["users"]
  /\ Trouble
  /\ Add("users", u)
  /\ UNCHANGED <<script, at, creating, printed>>

Enqueue ==
  /\ MayEnqueue /\ rows["users"] # {} /\ rows["jobs"] = {}
  /\ Add("jobs", "job")
  /\ UNCHANGED <<script, at, creating, printed, trouble>>

-----------------------------------------------------------------------------
ScriptStep ==
  \/ DeleteMany
  \/ \E u \in {SuperAdmin, Admin, Plain} : CreateUser(u)
  \/ \E p \in Permission : CreatePermission(p) \/ Grant(p)
  \/ CreateRole
  \/ Link

Next ==
  \/ Run
  \/ ScriptStep
  \/ Stop
  \/ \E u \in {Newcomer, Plain} : Register(u)
  \/ Enqueue

\* Somebody runs the script until it has completed, and its calls return.
Spec ==
  /\ Init /\ [][Next]_vars
  /\ WF_vars(~printed /\ Run) /\ WF_vars(ScriptStep)

-----------------------------------------------------------------------------
TypeOK ==
  /\ rows["users"] \subseteq {SuperAdmin, Admin, Plain, Newcomer}
  /\ rows["permissions"] \subseteq Permission \union {Old}
  /\ rows["roles"] \subseteq {SuperAdmin, Admin, Old}
  /\ rows["rolePermissions"] \subseteq ({SuperAdmin, Admin} \X Permission) \union {<<Old, Old>>}
  /\ script \in {"off", "delete", "users", "permissions", "role", "grant", "link"}
  /\ at \in 0..Len(DeleteOrder)
  /\ creating \subseteq {SuperAdmin, Admin, Plain} \/ creating \subseteq Permission
  /\ printed \in BOOLEAN /\ trouble \in 0..MaxTrouble

(* What the script has printed as completed is there: both roles with      *)
(* their permissions and users, and nothing of what was there before, also *)
(* when earlier runs were stopped half way or somebody has registered.     *)
CompletedIsSeeded ==
  printed /\ script = "off" =>
    /\ {SuperAdmin, Admin, Plain} \subseteq rows["users"]
    /\ rows["permissions"] = Permission
    /\ rows["roles"] = {SuperAdmin, Admin}
    /\ rows["rolePermissions"] =
         {g \in {SuperAdmin, Admin} \X Permission : g[1] = Admin => g[2] # RolesDelete}
    /\ rows["userRoles"] = {<<SuperAdmin, SuperAdmin>>, <<Admin, Admin>>}
    /\ \A t \in {"subjects", "tickets", "questions", "answers", "files"} : rows[t] = {}

(* A run that was stopped or failed can be made good by running it again.  *)
RerunSeeds == <>printed
=============================================================================
