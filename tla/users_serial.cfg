SPECIFICATION Spec
CONSTANTS
  Nil = Nil
  Names = {"creator", "sara", "ali"}
  RoleNames = {"manager"}
  PermNames = {"users.write", "users.delete", "roles.write"}
  Tenants = {"kb", "public"}
  Groups = {}
  DEFAULT_TENANT = "public"
  UserIds = {1, 2, 3}
  RoleIds = {1}
  PermIds = {1, 2, 3}
  Workers = {w1}
  Sessions = {s1}
  TOKEN_MINUTES = 0
  Endpoints = {"signup", "login", "create_user", "update_user", "delete_user", "assign_role", "unassign_role", "delete_role"}
  NewUsers <- MCNewUsers
  Patches <- MCPatches
  SeedUsers <- MCSeedUsers
  SeedRoles <- MCSeedRoles
  SeedPerms <- MCSeedPermsUsers
  SeedUserRoles <- MCSeedUserRoles
  SeedRolePerms <- MCSeedRolePerms
INVARIANTS
  AtLeastOneCreator
PROPERTIES
  WritesStayInTenant
