--------------------------- MODULE MCTokenWindow ---------------------------
(***************************************************************************)
(* TokenWindow for TLC: sara manages users and can lose that three ways,    *)
(* with her role, her level and her account, while two threads serve.       *)
(***************************************************************************)
EXTENDS TokenWindow, TLC

(* The threads of the pool are interchangeable.                             *)
Symmetry == Permutations(Workers)

Row(name, level) ==
  [name |-> name, level |-> level, tenant |-> DEFAULT_TENANT, acl |-> {}]

MCSeedUsers == [u \in UserIds |-> CASE u = 1 -> Row("creator", "creator")
                                    [] u = 2 -> Row("sara", "admin")
                                    [] OTHER -> Nil]
MCSeedRoles == [r \in RoleIds |-> "manager"]
MCSeedPerms == [p \in PermIds |-> "users.write"]
MCSeedUserRoles == {<<2, 1>>}
MCSeedRolePerms == {<<1, 1>>}

(* A PATCH of one field: of the level, of the tenant, of the ACL groups.    *)
Set(level, tenant, acl) == [level |-> level, tenant |-> tenant, acl |-> acl]

MCPatches ==
  {Set(level, Nil, Nil) : level \in {"admin", "user"}}
    \cup {Set(Nil, tenant, Nil) : tenant \in Tenants \ {DEFAULT_TENANT}}
    \cup {Set(Nil, Nil, Groups)}

MCNewUsers == {Row("sara", level) : level \in {"admin", "user"}}

=============================================================================
