-------------------------------- MODULE Seed --------------------------------
(***************************************************************************)
(* api/seed.py, which the API runs at every start (main.py), over tables    *)
(* that were edited since the last one.  Tokens outlive a restart; it finds *)
(* no request in flight, AdminApi's Fail having ended them.                  *)
(***************************************************************************)
EXTENDS AdminApi, Functions

CONSTANTS
  STANDARD_PERMISSIONS,  (* permission names                                *)
  STANDARD_ROLES,        (* the permission names of a role name             *)
  SEED_ROLE_GRANTS,      (* the usernames that get a role when it is made   *)
  DEMO_USERS,            (* the row of a username, the creator's included   *)
  DEMO_ROLES             (* the role names of such a username               *)

ASSUME StandardsAssumption ==
  /\ IsFiniteSet(STANDARD_PERMISSIONS)
  /\ IsFiniteSet(DOMAIN STANDARD_ROLES) /\ IsFiniteSet(DOMAIN DEMO_USERS)
  /\ STANDARD_PERMISSIONS \subseteq PermNames
  /\ DOMAIN STANDARD_ROLES \subseteq RoleNames
  /\ DOMAIN DEMO_USERS \subseteq Names
  /\ \A n \in DOMAIN DEMO_USERS :
       DEMO_USERS[n] \in UserRow /\ DEMO_USERS[n].name = n
  /\ DOMAIN SEED_ROLE_GRANTS = DOMAIN STANDARD_ROLES
  /\ DOMAIN DEMO_ROLES = DOMAIN DEMO_USERS

(* What the lookups by name do not find.                                    *)
MissingPermissions == {n \in STANDARD_PERMISSIONS : ~PermNameTaken(n)}
MissingRoles == {n \in DOMAIN STANDARD_ROLES : ~RoleNameTaken(n)}
MissingUsers == {n \in DOMAIN DEMO_USERS : ~UserNameTaken(n)}

(* The names that are missing, by the keys inserts give them one by one, in *)
(* any order.                                                               *)
Inserted(table, missing) ==
  LET n == Cardinality(missing)
      last == CHOOSE i \in Rows(table) \cup {0} : \A j \in Rows(table) : j <= i
      keys == (last + 1) .. (last + n)
  IN  IF keys \subseteq DOMAIN table THEN Bijection(keys, missing) ELSE {}

(* The table with rows that were made.                                      *)
WithRows(table, made) ==
  [i \in DOMAIN table |-> IF i \in DOMAIN made THEN made[i] ELSE table[i]]

(* A slip for mutation runs: a standard role is wired at every start.       *)
WiredAtEveryStart(made) ==
  UNION {{r} \X {p \in Rows(perms') : perms'[p] \in STANDARD_ROLES[roles'[r]]} :
         r \in {q \in Rows(roles') : roles'[q] \in DOMAIN STANDARD_ROLES}}

(* A role is wired to its permissions when it is made.                      *)
Wired(made) ==
  UNION {{r} \X {p \in Rows(perms') : perms'[p] \in STANDARD_ROLES[made[r]]} :
         r \in DOMAIN made}

(* An account that is made gets the roles that have the names by now, ...   *)
Roled(made) ==
  UNION {{u} \X {r \in Rows(roles') : roles'[r] \in DEMO_ROLES[made[u]]} :
         u \in DOMAIN made}

(* ... and a role that is made goes to the accounts that have the names.    *)
Granted(made) ==
  UNION {{u \in Rows(users') : users'[u].name \in SEED_ROLE_GRANTS[made[r]]}
           \X {r} : r \in DOMAIN made}

(* One transaction; pairs that are there already refuse it.                 *)
Restart ==
  /\ \A w \in Workers : req[w] = Idle
  /\ MissingPermissions \cup MissingRoles \cup MissingUsers # {}
  /\ \E newPerms \in Inserted(perms, MissingPermissions) :
       perms' = WithRows(perms, newPerms)
  /\ \E newRoles \in Inserted(roles, MissingRoles),
        newUsers \in Inserted(users, MissingUsers) :
       /\ roles' = WithRows(roles, newRoles)
       /\ users' =
            WithRows(users, [u \in DOMAIN newUsers |-> DEMO_USERS[newUsers[u]]])
       /\ ((DOMAIN newRoles) \X PermIds) \cap rolePerms = {}
       /\ rolePerms' = rolePerms \cup Wired(newRoles)
       /\ ((DOMAIN newUsers) \X RoleIds) \cap userRoles = {}
       /\ userRoles' = userRoles \cup Roled(newUsers) \cup Granted(newRoles)
  /\ UNCHANGED <<token, req>>

SeedNext == Next \/ Restart

SeedSpec == Init /\ [][SeedNext]_vars

-----------------------------------------------------------------------------
(* What was edited through the API stays so over a restart (seed.py: edits  *)
(* are never clobbered): no account that is there changes or loses a power, *)
(* none wins one but through a role that had to be made again and that goes *)
(* to its name, no role that is there wins or loses a permission, whatever  *)
(* names and keys were freed and taken again in between.                    *)
EditsSurviveRestarts ==
  [][Restart =>
       /\ \A u \in Rows(users) :
            /\ users'[u] = users[u]
            /\ RolesOf(u) \subseteq RolesOf(u)'
            /\ Effective(u)' # Effective(u) =>
                 \E n \in MissingRoles : users[u].name \in SEED_ROLE_GRANTS[n]
       /\ \A r \in Rows(roles) :
            roles'[r] = roles[r] /\ PermNamesOf(r)' = PermNamesOf(r)]_vars

=============================================================================
