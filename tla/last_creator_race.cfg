SPECIFICATION Spec
CONSTANTS
  Nil = Nil
  Names = {"creator", "sara"}
  RoleNames = {"manager"}
  PermNames = {"users.write", "users.delete"}
  Tenants = {"kb"}
  Groups = {}
  DEFAULT_TENANT = "kb"
  UserIds = {1, 2}
  RoleIds = {1}
  PermIds = {1, 2}
  Workers = {w1, w2}
  Sessions = {s1}
  TOKEN_MINUTES = 0
  Endpoints = {"login", "update_user", "delete_user"}
  NewUsers <- MCNewUsers
  Patches <- MCPatches
  SeedUsers <- MCSeedUsers
  SeedRoles <- MCSeedRoles
  SeedPerms <- MCSeedPermsUsers
  SeedUserRoles <- MCSeedUserRoles
  SeedRolePerms <- MCSeedRolePerms
INVARIANTS
  AtLeastOneCreator
