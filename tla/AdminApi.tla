------------------------------ MODULE AdminApi ------------------------------
(***************************************************************************)
(* The handlers of api/routers/auth.py and api/routers/admin.py that change *)
(* state, over the tables of Identity.                                      *)
(*                                                                          *)
(* FastAPI runs each of these synchronous handlers on a thread of a pool,   *)
(* with a database session of its own.  pysqlite opens a transaction only   *)
(* at the first INSERT, UPDATE or DELETE, which SQLAlchemy emits inside     *)
(* commit(): what a handler read before that is not protected from other    *)
(* handlers.  A handler is therefore two steps.  The first, named for the   *)
(* endpoint, authorises the caller, reads the rows and runs every check; it *)
(* leaves in req[w] what the handler still holds.  The second, its commit,  *)
(* writes in one transaction.  A handler refused with a 4xx writes nothing  *)
(* and is no step at all; a commit the database or the ORM refuses          *)
(* (IntegrityError, StaleDataError) is a step that writes nothing.          *)
(***************************************************************************)
EXTENDS Identity

CONSTANTS
  Workers,        (* threads of the pool: bound on requests in flight       *)
  Sessions,       (* clients, each with the token it logged in with         *)
  TOKEN_MINUTES,  (* lifetime of a token, in ticks                          *)
  Endpoints,      (* the endpoints the clients of this instance call        *)
  NewUsers,       (* the accounts POST /admin/users is asked for            *)
  Patches,        (* the bodies PATCH /admin/users/{id} is sent             *)
  SeedUsers, SeedRoles, SeedPerms, SeedUserRoles, SeedRolePerms

(* The fields a PATCH assigns; Nil for one that is absent or unchanged.     *)
Patch == [level: Levels \cup {Nil}, tenant: Tenants \cup {Nil},
          acl: (SUBSET Groups) \cup {Nil}]

ASSUME TtlAssumption == TOKEN_MINUTES \in Nat

ASSUME BodiesAssumption == NewUsers \subseteq UserRow /\ Patches \subseteq Patch

ASSUME SeedAssumption ==
  /\ SeedUsers \in [UserIds -> UserRow \cup {Nil}]
  /\ SeedRoles \in [RoleIds -> RoleNames \cup {Nil}]
  /\ SeedPerms \in [PermIds -> PermNames \cup {Nil}]
  /\ SeedUserRoles \subseteq Rows(SeedUsers) \X Rows(SeedRoles)
  /\ SeedRolePerms \subseteq Rows(SeedRoles) \X Rows(SeedPerms)
  /\ \E u \in Rows(SeedUsers) : SeedUsers[u].level = "creator"
  /\ \A u, v \in Rows(SeedUsers) :
       SeedUsers[u].name = SeedUsers[v].name => u = v
  /\ \A r, s \in Rows(SeedRoles) : SeedRoles[r] = SeedRoles[s] => r = s
  /\ \A p, q \in Rows(SeedPerms) : SeedPerms[p] = SeedPerms[q] => p = q

VARIABLES
  token,  (* token[s], the token session s presents, or Nil                 *)
  req     (* req[w], the request thread w is serving                        *)

vars == <<users, roles, perms, userRoles, rolePerms, token, req>>

Token == [claims: Claims, ttl: 0 .. TOKEN_MINUTES]

Idle == [op |-> "idle"]

Request ==
       {Idle}
  \cup [op: {"signup"}, row: UserRow]
  \cup [op: {"login"}, session: Sessions, claims: Claims]
  \cup [op: {"create_user"}, by: Claims, row: UserRow]
  \cup [op: {"update_user"}, by: Claims, user: UserIds, set: Patch]
  \cup [op: {"delete_user"}, by: Claims, user: UserIds, roles: SUBSET RoleIds]
  \cup [op: {"assign_role", "unassign_role"}, by: Claims, user: UserIds,
        role: RoleIds]
  \cup [op: {"create_role"}, by: Claims, name: RoleNames,
        perms: SUBSET PermIds]
  \cup [op: {"update_role"}, by: Claims, role: RoleIds, name: RoleNames]
  \cup [op: {"delete_role"}, by: Claims, role: RoleIds,
        users: SUBSET UserIds, perms: SUBSET PermIds]
  \cup [op: {"attach_permission", "detach_permission"}, by: Claims,
        role: RoleIds, perm: PermIds]
  \cup [op: {"create_permission"}, by: Claims, name: PermNames]
  \cup [op: {"delete_permission"}, by: Claims, perm: PermIds,
        roles: SUBSET RoleIds]

(* Every variable has its type: the tables hold rows or nothing under each  *)
(* key, a thread what its endpoint read, a session a live token or none.    *)
TypeOK ==
  /\ TablesTypeOK
  /\ token \in [Sessions -> Token \cup {Nil}]
  /\ req \in [Workers -> Request]

Init ==
  /\ users = SeedUsers
  /\ roles = SeedRoles
  /\ perms = SeedPerms
  /\ userRoles = SeedUserRoles
  /\ rolePerms = SeedRolePerms
  /\ token = [s \in Sessions |-> Nil]
  /\ req = [w \in Workers |-> Idle]

-----------------------------------------------------------------------------
(* First steps: authorise, read, check.                                     *)

Begin(w, endpoint, r) ==
  /\ endpoint \in Endpoints
  /\ req[w] = Idle
  /\ req' = [req EXCEPT ![w] = r]
  /\ UNCHANGED <<tables, token>>

(* Session s presents a live token whose claims grant the permission.       *)
Caller(s, perm) == token[s] # Nil /\ Permitted(token[s].claims, perm)

By(s) == token[s].claims

Signup(w, name) ==
  /\ ~UserNameTaken(name)
  /\ Begin(w, "signup",
       [op |-> "signup",
        row |-> [name |-> name, level |-> "user",
                 tenant |-> DEFAULT_TENANT, acl |-> {}]])

(* The rows are read before the password hash is verified and the token     *)
(* signed.                                                                  *)
Login(w, s, u) ==
  /\ u \in Rows(users)
  /\ Begin(w, "login",
       [op |-> "login", session |-> s, claims |-> ClaimsOf(u)])

CreateUser(w, s, row) ==
  /\ Caller(s, "users.write")
  /\ EnsureLevelChangeAllowed(By(s), row.level)
  /\ EnsureTenantScope(By(s), row.tenant)
  /\ EnsureAclScope(By(s), row.acl)
  /\ ~UserNameTaken(row.name)
  /\ Begin(w, "create_user", [op |-> "create_user", by |-> By(s), row |-> row])

(* An assignment of the value the row already has is no change to the ORM,  *)
(* and the level and tenant guards only look at changes.                    *)
UpdateUser(w, s, u, set) ==
  /\ Caller(s, "users.write")
  /\ UserInScope(By(s), u)
  /\ set # [level |-> Nil, tenant |-> Nil, acl |-> Nil]
  /\ set.level # Nil =>
       /\ set.level # users[u].level
       /\ EnsureLevelChangeAllowed(By(s), set.level)
       /\ users[u].name # By(s).sub
       /\ LeavesACreator(u)
  /\ set.tenant # Nil => set.tenant # users[u].tenant /\ IsCreator(By(s))
  /\ set.acl # Nil => set.acl # users[u].acl /\ EnsureAclScope(By(s), set.acl)
  /\ Begin(w, "update_user",
       [op |-> "update_user", by |-> By(s), user |-> u, set |-> set])

DeleteUser(w, s, u) ==
  /\ Caller(s, "users.delete")
  /\ UserInScope(By(s), u)
  /\ users[u].name # By(s).sub
  /\ LeavesACreator(u)
  /\ Begin(w, "delete_user",
       [op |-> "delete_user", by |-> By(s), user |-> u, roles |-> RolesOf(u)])

AssignRole(w, s, u, r) ==
  /\ Caller(s, "users.write")
  /\ UserInScope(By(s), u)
  /\ r \in Rows(roles)
  /\ EnsureCanGrant(By(s), PermNamesOf(r))
  /\ r \notin RolesOf(u)
  /\ Begin(w, "assign_role",
       [op |-> "assign_role", by |-> By(s), user |-> u, role |-> r])

UnassignRole(w, s, u, r) ==
  /\ Caller(s, "users.write")
  /\ UserInScope(By(s), u)
  /\ r \in RolesOf(u)
  /\ Begin(w, "unassign_role",
       [op |-> "unassign_role", by |-> By(s), user |-> u, role |-> r])

(* Ids that name no permission are ignored: the handler selects the rows    *)
(* whose id is in the list.                                                 *)
CreateRole(w, s, name, ids) ==
  /\ Caller(s, "roles.write")
  /\ ~RoleNameTaken(name)
  /\ EnsureCanGrant(By(s), {perms[p] : p \in ids \cap Rows(perms)})
  /\ Begin(w, "create_role",
       [op |-> "create_role", by |-> By(s), name |-> name,
        perms |-> ids \cap Rows(perms)])

UpdateRole(w, s, r, name) ==
  /\ Caller(s, "roles.write")
  /\ r \in Rows(roles)
  /\ roles[r] # name
  /\ Begin(w, "update_role",
       [op |-> "update_role", by |-> By(s), role |-> r, name |-> name])

DeleteRole(w, s, r) ==
  /\ Caller(s, "roles.write")
  /\ r \in Rows(roles)
  /\ Begin(w, "delete_role",
       [op |-> "delete_role", by |-> By(s), role |-> r,
        users |-> UsersOf(r), perms |-> PermsOf(r)])

AttachPermission(w, s, r, p) ==
  /\ Caller(s, "roles.write")
  /\ r \in Rows(roles)
  /\ p \in Rows(perms)
  /\ EnsureCanGrant(By(s), {perms[p]})
  /\ p \notin PermsOf(r)
  /\ Begin(w, "attach_permission",
       [op |-> "attach_permission", by |-> By(s), role |-> r, perm |-> p])

DetachPermission(w, s, r, p) ==
  /\ Caller(s, "roles.write")
  /\ r \in Rows(roles)
  /\ p \in PermsOf(r)
  /\ Begin(w, "detach_permission",
       [op |-> "detach_permission", by |-> By(s), role |-> r, perm |-> p])

CreatePermission(w, s, name) ==
  /\ Caller(s, "permissions.write")
  /\ ~PermNameTaken(name)
  /\ Begin(w, "create_permission",
       [op |-> "create_permission", by |-> By(s), name |-> name])

DeletePermission(w, s, p) ==
  /\ Caller(s, "permissions.write")
  /\ p \in Rows(perms)
  /\ Begin(w, "delete_permission",
       [op |-> "delete_permission", by |-> By(s), perm |-> p,
        roles |-> RolesHolding(p)])

-----------------------------------------------------------------------------
(* Second steps: one transaction each.  The statements name keys, so they   *)
(* apply to whatever row has the key by then.  A unique column, a primary   *)
(* key of an association table, or a row count that is not the one the ORM  *)
(* expects refuses the transaction: the success of each commit is guarded,  *)
(* and Fail is what happens otherwise.                                      *)

Serving(w, op) == req[w].op = op

Done(w) == req' = [req EXCEPT ![w] = Idle]

(* A refused transaction, a locked database, a wrong password, a process    *)
(* that stops: the handler ends and nothing is written.                     *)
Fail(w) ==
  /\ req[w] # Idle
  /\ Done(w)
  /\ UNCHANGED <<tables, token>>

(* Slips of the transactions, for mutation runs: username without a unique  *)
(* column, a role deleted without the pairs of its users.                   *)
InsertUserUnchecked(row) ==
  /\ \E u \in UserIds :
       IsNextId(users, u) /\ users' = [users EXCEPT ![u] = row]
  /\ UNCHANGED <<roles, perms, userRoles, rolePerms, token>>

DeleteRoleKeepingUsers(w) ==
  LET granted == {req[w].role} \X req[w].perms IN
  /\ Serving(w, "delete_role")
  /\ granted \subseteq rolePerms
  /\ rolePerms' = rolePerms \ granted
  /\ roles' = [roles EXCEPT ![req[w].role] = Nil]
  /\ Done(w)
  /\ UNCHANGED <<users, perms, userRoles, token>>

InsertUser(row) ==
  /\ ~UserNameTaken(row.name)
  /\ \E u \in UserIds :
       IsNextId(users, u) /\ users' = [users EXCEPT ![u] = row]
  /\ UNCHANGED <<roles, perms, userRoles, rolePerms, token>>

CommitSignup(w) == Serving(w, "signup") /\ InsertUser(req[w].row) /\ Done(w)

CommitLogin(w) ==
  /\ Serving(w, "login")
  /\ token' = [token EXCEPT ![req[w].session] =
                 [claims |-> req[w].claims, ttl |-> TOKEN_MINUTES]]
  /\ Done(w)
  /\ UNCHANGED tables

CommitCreateUser(w) ==
  Serving(w, "create_user") /\ InsertUser(req[w].row) /\ Done(w)

(* A slip for mutation runs: a level assigned although the body has none.   *)
PatchedWithoutLevelCheck(row, set) ==
  [name |-> row.name,
   level |-> set.level,
   tenant |-> IF set.tenant = Nil THEN row.tenant ELSE set.tenant,
   acl |-> IF set.acl = Nil THEN row.acl ELSE set.acl]

Patched(row, set) ==
  [name |-> row.name,
   level |-> IF set.level = Nil THEN row.level ELSE set.level,
   tenant |-> IF set.tenant = Nil THEN row.tenant ELSE set.tenant,
   acl |-> IF set.acl = Nil THEN row.acl ELSE set.acl]

CommitUpdateUser(w) ==
  /\ Serving(w, "update_user")
  /\ req[w].user \in Rows(users)
  /\ users' = [users EXCEPT ![req[w].user] = Patched(@, req[w].set)]
  /\ Done(w)
  /\ UNCHANGED <<roles, perms, userRoles, rolePerms, token>>

(* The ORM deletes the pairs it loaded and expects each to be there; a main *)
(* row that is gone only draws a warning.                                   *)
CommitDeleteUser(w) ==
  LET pairs == {req[w].user} \X req[w].roles IN
  /\ Serving(w, "delete_user")
  /\ pairs \subseteq userRoles
  /\ userRoles' = userRoles \ pairs
  /\ users' = [users EXCEPT ![req[w].user] = Nil]
  /\ Done(w)
  /\ UNCHANGED <<roles, perms, rolePerms, token>>

CommitAssignRole(w) ==
  LET pair == <<req[w].user, req[w].role>> IN
  /\ Serving(w, "assign_role")
  /\ pair \notin userRoles
  /\ userRoles' = userRoles \cup {pair}
  /\ Done(w)
  /\ UNCHANGED <<users, roles, perms, rolePerms, token>>

CommitUnassignRole(w) ==
  LET pair == <<req[w].user, req[w].role>> IN
  /\ Serving(w, "unassign_role")
  /\ pair \in userRoles
  /\ userRoles' = userRoles \ {pair}
  /\ Done(w)
  /\ UNCHANGED <<users, roles, perms, rolePerms, token>>

CommitCreateRole(w) ==
  /\ Serving(w, "create_role")
  /\ ~RoleNameTaken(req[w].name)
  /\ \E r \in RoleIds :
       /\ IsNextId(roles, r)
       /\ ({r} \X req[w].perms) \cap rolePerms = {}
       /\ roles' = [roles EXCEPT ![r] = req[w].name]
       /\ rolePerms' = rolePerms \cup ({r} \X req[w].perms)
  /\ Done(w)
  /\ UNCHANGED <<users, perms, userRoles, token>>

CommitUpdateRole(w) ==
  /\ Serving(w, "update_role")
  /\ req[w].role \in Rows(roles)
  /\ \A r \in Rows(roles) \ {req[w].role} : roles[r] # req[w].name
  /\ roles' = [roles EXCEPT ![req[w].role] = req[w].name]
  /\ Done(w)
  /\ UNCHANGED <<users, perms, userRoles, rolePerms, token>>

CommitDeleteRole(w) ==
  LET held == req[w].users \X {req[w].role}
      granted == {req[w].role} \X req[w].perms
  IN
  /\ Serving(w, "delete_role")
  /\ held \subseteq userRoles /\ granted \subseteq rolePerms
  /\ userRoles' = userRoles \ held
  /\ rolePerms' = rolePerms \ granted
  /\ roles' = [roles EXCEPT ![req[w].role] = Nil]
  /\ Done(w)
  /\ UNCHANGED <<users, perms, token>>

CommitAttachPermission(w) ==
  LET pair == <<req[w].role, req[w].perm>> IN
  /\ Serving(w, "attach_permission")
  /\ pair \notin rolePerms
  /\ rolePerms' = rolePerms \cup {pair}
  /\ Done(w)
  /\ UNCHANGED <<users, roles, perms, userRoles, token>>

CommitDetachPermission(w) ==
  LET pair == <<req[w].role, req[w].perm>> IN
  /\ Serving(w, "detach_permission")
  /\ pair \in rolePerms
  /\ rolePerms' = rolePerms \ {pair}
  /\ Done(w)
  /\ UNCHANGED <<users, roles, perms, userRoles, token>>

CommitCreatePermission(w) ==
  /\ Serving(w, "create_permission")
  /\ ~PermNameTaken(req[w].name)
  /\ \E p \in PermIds :
       IsNextId(perms, p) /\ perms' = [perms EXCEPT ![p] = req[w].name]
  /\ Done(w)
  /\ UNCHANGED <<users, roles, userRoles, rolePerms, token>>

CommitDeletePermission(w) ==
  LET pairs == req[w].roles \X {req[w].perm} IN
  /\ Serving(w, "delete_permission")
  /\ pairs \subseteq rolePerms
  /\ rolePerms' = rolePerms \ pairs
  /\ perms' = [perms EXCEPT ![req[w].perm] = Nil]
  /\ Done(w)
  /\ UNCHANGED <<users, roles, userRoles, token>>

-----------------------------------------------------------------------------
(* A slip of the expiry, for mutation runs: an expired token stays good.    *)
TickWithoutExpiry ==
  /\ \A w \in Workers : req[w] = Idle
  /\ \E s \in Sessions : token[s] # Nil
  /\ token' = [s \in Sessions |->
                 IF token[s] = Nil \/ token[s].ttl = 0 THEN token[s]
                 ELSE [token[s] EXCEPT !.ttl = @ - 1]]
  /\ UNCHANGED <<tables, req>>

(* Time.  A token is refused once its expiry is past.  A request takes less *)
(* than a tick: the clock does not move while one is in flight.             *)
Tick ==
  /\ \A w \in Workers : req[w] = Idle
  /\ \E s \in Sessions : token[s] # Nil
  /\ token' = [s \in Sessions |->
                 IF token[s] = Nil \/ token[s].ttl = 0 THEN Nil
                 ELSE [token[s] EXCEPT !.ttl = @ - 1]]
  /\ UNCHANGED <<tables, req>>

UserHandlers(w) ==
  \/ \E name \in Names : Signup(w, name)
  \/ \E s \in Sessions :
       \/ \E row \in NewUsers : CreateUser(w, s, row)
       \/ \E u \in UserIds :
            \/ Login(w, s, u)
            \/ \E set \in Patches : UpdateUser(w, s, u, set)
            \/ DeleteUser(w, s, u)
            \/ \E r \in RoleIds :
                 AssignRole(w, s, u, r) \/ UnassignRole(w, s, u, r)

RoleHandlers(w) ==
  \E s \in Sessions :
    \/ \E name \in RoleNames :
         \/ \E ids \in SUBSET PermIds : CreateRole(w, s, name, ids)
         \/ \E r \in RoleIds : UpdateRole(w, s, r, name)
    \/ \E r \in RoleIds :
         \/ DeleteRole(w, s, r)
         \/ \E p \in PermIds :
              AttachPermission(w, s, r, p) \/ DetachPermission(w, s, r, p)
    \/ \E name \in PermNames : CreatePermission(w, s, name)
    \/ \E p \in PermIds : DeletePermission(w, s, p)

Commit(w) ==
  \/ CommitSignup(w) \/ CommitLogin(w)
  \/ CommitCreateUser(w) \/ CommitUpdateUser(w) \/ CommitDeleteUser(w)
  \/ CommitAssignRole(w) \/ CommitUnassignRole(w)
  \/ CommitCreateRole(w) \/ CommitUpdateRole(w) \/ CommitDeleteRole(w)
  \/ CommitAttachPermission(w) \/ CommitDetachPermission(w)
  \/ CommitCreatePermission(w) \/ CommitDeletePermission(w)

Next ==
  \/ \E w \in Workers :
       UserHandlers(w) \/ RoleHandlers(w) \/ Commit(w) \/ Fail(w)
  \/ Tick

Spec == Init /\ [][Next]_vars

-----------------------------------------------------------------------------
(* What the rest of the system takes for granted.                           *)

(* The system never loses its last creator (config.py: there is always at   *)
(* least one): no sequence of deletions and demotions, by creators or by    *)
(* admins of their tenant, with tokens however stale, leaves none.  It      *)
(* rests on _creator_count being still right when the handler commits.      *)
AtLeastOneCreator == Creators # {}

(* Every pair of the association tables joins two rows that exist.  The ORM *)
(* has to keep this, since the database does not; a pair left behind would  *)
(* be inherited by the next row to get the key.                             *)
NoDanglingLinks ==
  /\ userRoles \subseteq Rows(users) \X Rows(roles)
  /\ rolePerms \subseteq Rows(roles) \X Rows(perms)

(* Two accounts never share a username, nor two roles or two permissions a  *)
(* name, although the handlers that race for it have all seen it free:      *)
(* login and _get_or_create_* take the row of a name to be the only one.    *)
UniqueNames ==
  /\ \A u, v \in Rows(users) : users[u].name = users[v].name => u = v
  /\ \A r, s \in Rows(roles) : roles[r] = roles[s] => r = s
  /\ \A p, q \in Rows(perms) : perms[p] = perms[q] => p = q

(* Thread w ends the handling of its request in this step.                  *)
Ends(w) == req[w] # Idle /\ req'[w] = Idle

Caused(w) == IF req[w].op \in {"signup", "login"} THEN Nil ELSE req[w].by

ActsAsCreator(w) == Caused(w) # Nil /\ IsCreator(Caused(w))

(* The permissions a caller may pass on (_ensure_can_grant).                *)
MayGrant(w) ==
  IF Caused(w) = Nil THEN {}
  ELSE IF IsCreator(Caused(w)) THEN PermNames ELSE Caused(w).perms

Effective(u) == IF u \in Rows(users) THEN EffectivePermissions(u) ELSE {}

(* A request only ever adds to a user's effective permissions what its      *)
(* caller held: through a role assigned, a permission attached to a role    *)
(* somebody has, or a new role or account that is given a used key.  Signup *)
(* adds nothing to anybody, the new account included.                       *)
GrantsAreHeld ==
  [][\A w \in Workers : Ends(w) =>
       \A u \in UserIds :
         Effective(u)' \ Effective(u) \subseteq MayGrant(w)]_vars

(* Whatever was read before and is stale by now: a row becomes, or is       *)
(* inserted as, admin or creator only by a request that acts as creator,    *)
(* only such a request moves an account to another tenant, and any other    *)
(* request adds only ACL groups its caller holds.                           *)
OnlyCreatorsElevate ==
  [][\A w \in Workers : Ends(w) /\ ~ActsAsCreator(w) =>
       \A u \in Rows(users') :
         /\ users'[u].level # "user" =>
              u \in Rows(users) /\ users'[u].level = users[u].level
         /\ u \in Rows(users) => users'[u].tenant = users[u].tenant
         /\ users'[u].acl \subseteq
              (IF u \in Rows(users) THEN users[u].acl ELSE {})
                \cup (IF Caused(w) = Nil THEN {} ELSE Caused(w).acl)]_vars

(* Whatever a caller who is not a creator does, the row of an account       *)
(* outside the tenant of its token stays as it is, and the account neither  *)
(* gains nor loses a role, unless the role itself is gone: roles are one    *)
(* table for all tenants, and delete_role, which asks for roles.write only, *)
(* takes a role from its holders everywhere.                                *)
WritesStayInTenant ==
  [][\A w \in Workers : Ends(w) /\ Caused(w) # Nil /\ ~ActsAsCreator(w) =>
       \A u \in Rows(users) :
         users[u].tenant # Caused(w).tenant =>
           /\ users'[u] = users[u]
           /\ RolesOf(u)' = RolesOf(u) \cap Rows(roles')]_vars

=============================================================================
