------------------------------- MODULE Roles -------------------------------
(***************************************************************************)
(* Who may do what: the seeded system roles every organization shares, the *)
(* roles an organization makes for itself, the permissions a role grants   *)
(* and the roles a user holds.  Every operation is a request of a caller,  *)
(* whose permission is checked first.                                      *)
(***************************************************************************)
EXTENDS Naturals, FiniteSets

CONSTANTS Users, Organizations,
          OrgOf,         \* the organization of each user
          SystemRoles,   \* seeded roles, organization_id null
          SuperAdmin,    \* the one of them that may do everything, everywhere
          CustomRoles,   \* ids for the roles an organization may make
          Permissions,   \* permission codes; "users.write" and "roles.write" among them
          SystemGrants,  \* what each system role grants (seed_permissions.py)
          Seeded         \* the roles each user starts with

VARIABLES owner,  \* per custom role: its organization, or "none" while it does not exist
          grants, \* per role: the permission codes it grants
          held    \* per user: user_roles

vars == <<owner, grants, held>>

AllRoles == SystemRoles \cup CustomRoles
RoleRows == [CustomRoles -> Organizations \cup {"none"}]
GrantRows == [AllRoles -> SUBSET Permissions]
MemberRows == [Users -> SUBSET AllRoles]

TypeOK == owner \in RoleRows /\ grants \in GrantRows /\ held \in MemberRows

\* Registration grants a starting role: the workspace's administrator, or
\* DEFAULT_SIGNUP_ROLE in an organization joined by its code.
Init ==
  /\ owner = [r \in CustomRoles |-> "none"]
  /\ grants = [r \in AllRoles |-> IF r \in SystemRoles THEN SystemGrants[r] ELSE {}]
  /\ held = Seeded

-----------------------------------------------------------------------------
\* user_has_permission: the query yields a row for each role of the user that
\* grants the code, and scalar_one_or_none raises when there are two.
Granting(u, code) == {r \in held[u] : code \in grants[r]}
Permitted(u, code) == Cardinality(Granting(u, code)) = 1   \* require_permission

IsSuperAdmin(u) == SuperAdmin \in held[u]

\* get_role: a role of the caller's organization, or a system role.
Visible(c, r) == r \in SystemRoles \cup {x \in CustomRoles : owner[x] = OrgOf[c]}

CreateRole(c, r) ==
  /\ Permitted(c, "roles.write") /\ r \in CustomRoles /\ owner[r] = "none"
  /\ owner' = [owner EXCEPT ![r] = OrgOf[c]]
  /\ UNCHANGED <<grants, held>>

\* update_role changes a role's name and description, which nothing here depends
\* on, and never a system role's; so do the operations below.
Changeable(c, r) == Permitted(c, "roles.write") /\ Visible(c, r) /\ r \notin SystemRoles

\* delete_role: its grants and assignments go with it.
DeleteRole(c, r) ==
  /\ Changeable(c, r)
  /\ owner' = [owner EXCEPT ![r] = "none"]
  /\ grants' = [grants EXCEPT ![r] = {}]
  /\ held' = [u \in Users |-> held[u] \ {r}]

AssignPermission(c, r, p) ==
  /\ Changeable(c, r)
  /\ grants' = [grants EXCEPT ![r] = @ \cup {p}]
  /\ UNCHANGED <<owner, held>>

RemovePermission(c, r, p) ==
  /\ Changeable(c, r) /\ p \in grants[r]
  /\ grants' = [grants EXCEPT ![r] = @ \ {p}]
  /\ UNCHANGED <<owner, held>>

\* RoleService.assign_role, alone or as part of approve_user: the user is of the
\* caller's organization, the role is visible from it, and only a Super Admin
\* hands out Super Admin.
AssignRole_NoGuard(c, u, r) ==
  /\ Permitted(c, "users.write")
  /\ OrgOf[u] = OrgOf[c] /\ Visible(c, r)
  /\ held' = [held EXCEPT ![u] = @ \cup {r}]
  /\ UNCHANGED <<owner, grants>>

AssignRole(c, u, r) ==
  /\ Permitted(c, "users.write")
  /\ OrgOf[u] = OrgOf[c] /\ Visible(c, r)
  /\ r = SuperAdmin => IsSuperAdmin(c)
  /\ held' = [held EXCEPT ![u] = @ \cup {r}]
  /\ UNCHANGED <<owner, grants>>

RemoveRole(c, u, r) ==
  /\ Permitted(c, "users.write")
  /\ OrgOf[u] = OrgOf[c] /\ r \in held[u]
  /\ r = SuperAdmin => IsSuperAdmin(c)
  /\ held' = [held EXCEPT ![u] = @ \ {r}]
  /\ UNCHANGED <<owner, grants>>

\* The endpoints of /roles, /roles/{id}/permissions and /users/{id}/roles.
RoleRequest(c, r) == CreateRole(c, r) \/ DeleteRole(c, r)
GrantRequest(c, r) == \E p \in Permissions : AssignPermission(c, r, p) \/ RemovePermission(c, r, p)
MemberRequest(c, r) == \E u \in Users : AssignRole(c, u, r) \/ RemoveRole(c, u, r)

Next ==
  \E c \in Users, r \in AllRoles : RoleRequest(c, r) \/ GrantRequest(c, r) \/ MemberRequest(c, r)

Spec == Init /\ [][Next]_vars

-----------------------------------------------------------------------------
\* However organizations arrange their roles, only a step of a Super Admin makes
\* a Super Admin or ends one (assign_role: "without this, anyone could make
\* themselves the platform's Super Admin").
SuperAdminsChooseSuperAdmins ==
  {u \in Users : IsSuperAdmin(u)}' # {u \in Users : IsSuperAdmin(u)} =>
     \E c \in Users : IsSuperAdmin(c)

\* No user ever holds another organization's role, through creation, deletion
\* and reassignment of roles.
RolesStayInTheirOrganization ==
  \A u \in Users : \A r \in held[u] \ SystemRoles : owner[r] = OrgOf[u]

\* What a user may do never exceeds the seeded grants and what roles of the
\* user's own organization were given: nobody rewrites what a system role means
\* to another organization.
PowerIsLocal ==
  \A u \in Users, p \in Permissions :
    Permitted(u, p) => \E r \in held[u] : r \in CustomRoles \/ p \in SystemGrants[r]

\* A further role never takes away what a user could already do ("Give a newly
\* self-registered account a usable starting role"; approve_user then adds the
\* role the administrator chose).
RolesAddUp ==
  \A u \in Users, p \in Permissions :
    Permitted(u, p) /\ held[u] \subseteq held'[u] /\ grants' = grants => Permitted(u, p)'
=============================================================================
