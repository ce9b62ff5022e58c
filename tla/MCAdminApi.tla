----------------------------- MODULE MCAdminApi -----------------------------
(***************************************************************************)
(* Instances of AdminApi for TLC: a bootstrap creator, an admin who manages *)
(* users and an ordinary user, one manager role.                            *)
(***************************************************************************)
EXTENDS AdminApi, TLC

Row(name, level, tenant) ==
  [name |-> name, level |-> level, tenant |-> tenant, acl |-> {}]

(* As left by a first start: users.                                         *)
MCSeedUsers ==
  [u \in UserIds |->
     CASE u = 1 -> Row("creator", "creator", "kb")
       [] u = 2 -> Row("sara", "admin", "kb")
       [] OTHER -> Nil]

MCSeedRoles == [r \in RoleIds |-> IF r = 1 THEN "manager" ELSE Nil]

MCSeedPermsUsers ==
  [p \in PermIds |-> CASE p = 1 -> "users.write"
                       [] p = 2 -> "users.delete"
                       [] OTHER -> "roles.write"]

MCSeedPermsRoles ==
  [p \in PermIds |-> CASE p = 1 -> "users.write"
                       [] p = 2 -> "roles.write"
                       [] OTHER -> "audit.read"]

(* sara is the manager.                                                     *)
MCSeedUserRoles == {<<2, 1>>}

MCSeedRolePerms == {1} \X PermIds

-----------------------------------------------------------------------------
(* A PATCH of one field.                                                    *)
MCPatches ==
  {set \in Patch : Cardinality({f \in DOMAIN set : set[f] # Nil}) = 1}

(* The rows asked for: any level, either tenant, no ACL group or all.       *)
MCNewUsers == {row \in UserRow : row.acl \in {{}, Groups}}

=============================================================================
