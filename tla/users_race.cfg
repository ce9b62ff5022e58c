SPECIFICATION WindowSpec
CONSTANTS
  Nil = Nil
  Names = {"creator", "sara"}
  RoleNames = {"manager"}
  PermNames = {"users.write"}
  Tenants = {"kb", "acme"}
  Groups = {"billing"}
  DEFAULT_TENANT = "kb"
  UserIds = {1, 2, 3}
  RoleIds = {1}
  PermIds = {1}
  Workers = {w1, w2}
  Sessions = {s1}
  TOKEN_MINUTES = 1
  Endpoints = {"login", "signup", "create_user", "update_user", "delete_user", "unassign_role"}
  NewUsers <- MCNewUsers
  Patches <- MCPatches
  SeedUsers <- MCSeedUsers
  SeedRoles <- MCSeedRoles
  SeedPerms <- MCSeedPerms
  SeedUserRoles <- MCSeedUserRoles
  SeedRolePerms <- MCSeedRolePerms
SYMMETRY Symmetry
INVARIANTS
  StalenessIsBounded
  UniqueNames
PROPERTIES
  OnlyCreatorsElevate
