------------------------------ MODULE Identity ------------------------------
(***************************************************************************)
(* The account tables of api/models.py, the claims a token carries          *)
(* (api/security.py) and the guards the routers consult (api/auth.py and    *)
(* the helpers at the top of api/routers/admin.py).                         *)
(*                                                                          *)
(* A table is a function from its primary keys to rows, Nil where no row    *)
(* has the key.  The two association tables are sets of pairs.  Keys are    *)
(* SQLite rowids without AUTOINCREMENT: a new row takes the largest key in  *)
(* use plus one, so the key of a deleted last row is given out again.       *)
(* SQLite enforces no foreign key here (db.py issues no PRAGMA): a pair may *)
(* name a row that is gone, and ON DELETE CASCADE does nothing.             *)
(***************************************************************************)
EXTENDS Integers, FiniteSets

CONSTANTS
  Names,           (* usernames                                             *)
  RoleNames,       (* names a role can have                                 *)
  PermNames,       (* names a permission can have, "users.write", ...       *)
  Tenants,         (* tenant ids                                            *)
  Groups,          (* ACL groups                                            *)
  DEFAULT_TENANT,  (* the tenant of a self-registered account               *)
  UserIds,         (* bound: the keys of users, 1..n                        *)
  RoleIds,         (* bound: the keys of roles, 1..n                        *)
  PermIds,         (* bound: the keys of permissions, 1..n                  *)
  Nil              (* no row, no token, an absent field                     *)

Levels == {"creator", "admin", "user"}

UserRow == [name: Names, level: Levels, tenant: Tenants, acl: SUBSET Groups]

Claims == [sub: Names, level: Levels, tenant: Tenants, acl: SUBSET Groups,
           perms: SUBSET PermNames]

(* The keys are finite initial segments of the positive integers.           *)
ASSUME KeysAssumption ==
  /\ UserIds \subseteq Nat /\ IsFiniteSet(UserIds)
  /\ RoleIds \subseteq Nat /\ IsFiniteSet(RoleIds)
  /\ PermIds \subseteq Nat /\ IsFiniteSet(PermIds)

ASSUME TenantAssumption == DEFAULT_TENANT \in Tenants

(* Nil is none of the values it stands in for the absence of.               *)
ASSUME NilAssumption ==
  /\ Nil \notin UserRow /\ Nil \notin Claims
  /\ Nil \notin RoleNames /\ Nil \notin PermNames
  /\ Nil \notin Levels /\ Nil \notin Tenants
  /\ \A g \in SUBSET Groups : Nil # g

VARIABLES
  users,      (* users[id], a UserRow or Nil                                *)
  roles,      (* roles[id], a role name or Nil                              *)
  perms,      (* perms[id], a permission name or Nil                        *)
  userRoles,  (* association table user_roles                               *)
  rolePerms   (* association table role_permissions                         *)

tables == <<users, roles, perms, userRoles, rolePerms>>

TablesTypeOK ==
  /\ users \in [UserIds -> UserRow \cup {Nil}]
  /\ roles \in [RoleIds -> RoleNames \cup {Nil}]
  /\ perms \in [PermIds -> PermNames \cup {Nil}]
  /\ userRoles \subseteq UserIds \X RoleIds
  /\ rolePerms \subseteq RoleIds \X PermIds

-----------------------------------------------------------------------------
(* Reading the tables.                                                      *)

Rows(table) == {i \in DOMAIN table : table[i] # Nil}

(* The key SQLite gives the next row of a table.                            *)
IsNextId(table, i) ==
  /\ \A j \in Rows(table) : j < i
  /\ \A k \in DOMAIN table : k < i => \E j \in Rows(table) : k <= j

UserNameTaken(n) == \E u \in Rows(users) : users[u].name = n
RoleNameTaken(n) == \E r \in Rows(roles) : roles[r] = n
PermNameTaken(n) == \E p \in Rows(perms) : perms[p] = n

(* A relationship is read through a join: a pair whose other row is gone is *)
(* in the table and not in the collection.                                  *)
RolesOf(u) == {r \in Rows(roles) : <<u, r>> \in userRoles}
UsersOf(r) == {u \in Rows(users) : <<u, r>> \in userRoles}
PermsOf(r) == {p \in Rows(perms) : <<r, p>> \in rolePerms}
RolesHolding(p) == {r \in Rows(roles) : <<r, p>> \in rolePerms}

PermNamesOf(r) == {perms[p] : p \in PermsOf(r)}

(* User.effective_permissions.                                              *)
EffectivePermissions(u) == UNION {PermNamesOf(r) : r \in RolesOf(u)}

Creators == {u \in Rows(users) : users[u].level = "creator"}

(* _issue_token: what the row says now.                                     *)
ClaimsOf(u) ==
  [sub |-> users[u].name, level |-> users[u].level, tenant |-> users[u].tenant,
   acl |-> users[u].acl, perms |-> EffectivePermissions(u)]

-----------------------------------------------------------------------------
(* The guards.  They see the claims of the caller's token, never its row.   *)

IsCreator(c) == c.level = "creator"

(* require_permission.                                                      *)
Permitted(c, perm) == IsCreator(c) \/ (c.level = "admin" /\ perm \in c.perms)

(* Slips of the guards, for mutation runs.                                  *)
CanGrantIfHoldingAny(c, names) == IsCreator(c) \/ c.perms # {}

LevelGuardOnlyForCreators(c, level) == IsCreator(c) \/ level # "creator"

ScopeWithoutTenant(c, u) == u \in Rows(users)

LastCreatorOffByOne(u) ==
  users[u].level = "creator" => Cardinality(Creators) >= 1

EnsureCanGrant(c, names) == IsCreator(c) \/ names \subseteq c.perms

EnsureLevelChangeAllowed(c, level) == IsCreator(c) \/ level = "user"

EnsureTenantScope(c, tenant) == IsCreator(c) \/ tenant = c.tenant

EnsureAclScope(c, acl) == IsCreator(c) \/ acl \subseteq c.acl

(* _get_user_in_scope: the row exists and the caller may see it.            *)
UserInScope(c, u) ==
  /\ u \in Rows(users)
  /\ IsCreator(c) \/ users[u].tenant = c.tenant

(* The refusal to delete or demote the last creator.                        *)
LeavesACreator(u) == users[u].level = "creator" => Cardinality(Creators) > 1

=============================================================================
