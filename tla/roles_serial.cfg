SPECIFICATION SeedSpec
CONSTANTS
  Nil = Nil
  Names = {"creator", "sara"}
  RoleNames = {"manager", "auditor"}
  PermNames = {"users.write", "roles.write"}
  Tenants = {"kb"}
  Groups = {}
  DEFAULT_TENANT = "kb"
  UserIds = {1, 2}
  RoleIds = {1, 2}
  PermIds = {1, 2}
  Workers = {w1}
  Sessions = {s1}
  TOKEN_MINUTES = 0
  Endpoints = {"login", "signup", "delete_user", "assign_role", "unassign_role", "create_role", "update_role", "delete_role", "attach_permission", "detach_permission", "create_permission", "delete_permission"}
  NewUsers <- MCNewUsers
  Patches <- MCPatches
  SeedUsers <- MCSeedUsers
  SeedRoles <- MCSeedRoles
  SeedPerms <- MCSeedPermsRoles
  SeedUserRoles <- MCSeedUserRoles
  SeedRolePerms <- MCSeedRolePerms
  STANDARD_PERMISSIONS = {"users.write", "roles.write"}
  STANDARD_ROLES <- MCStandardRoles
  SEED_ROLE_GRANTS <- MCRoleGrants
  DEMO_USERS <- MCDemoUsers
  DEMO_ROLES <- MCDemoRoles
INVARIANTS
  NoDanglingLinks
PROPERTIES
  GrantsAreHeld
  EditsSurviveRestarts
