---------------------------- MODULE AccountProofs ----------------------------
(***************************************************************************)
(* The accounts: what AdminApi does for any number of threads and what only *)
(* for one, how long a token outlives what it says, what a restart leaves.  *)
(***************************************************************************)
EXTENDS TokenWindow, Seed, DataLemmas

(* What a thread holds, by the endpoint it serves.                          *)
LEMMA RequestShape ==
  ASSUME NEW r \in Request
  PROVE  /\ r.op \in {"signup", "create_user"} => r.row \in UserRow
         /\ r.op = "login" => r.session \in Sessions /\ r.claims \in Claims
         /\ r.op = "update_user" => r.user \in UserIds /\ r.set \in Patch
         /\ r.op = "delete_user" =>
              r.user \in UserIds /\ r.roles \in SUBSET RoleIds
         /\ r.op \in {"assign_role", "unassign_role"} =>
              r.user \in UserIds /\ r.role \in RoleIds
         /\ r.op = "create_role" =>
              r.name \in RoleNames /\ r.perms \in SUBSET PermIds
         /\ r.op = "update_role" => r.role \in RoleIds /\ r.name \in RoleNames
         /\ r.op = "delete_role" =>
              /\ r.role \in RoleIds
              /\ r.users \in SUBSET UserIds /\ r.perms \in SUBSET PermIds
         /\ r.op \in {"attach_permission", "detach_permission"} =>
              r.role \in RoleIds /\ r.perm \in PermIds
         /\ r.op = "create_permission" => r.name \in PermNames
         /\ r.op = "delete_permission" =>
              r.perm \in PermIds /\ r.roles \in SUBSET RoleIds
         /\ r.op \notin {"idle", "signup", "login"} => r.by \in Claims
BY DEF Request, Idle


-----------------------------------------------------------------------------
(* Type correctness.                                                        *)

LEMMA ClaimsType ==
  ASSUME TablesTypeOK, NEW u \in Rows(users)
  PROVE  ClaimsOf(u) \in Claims
<1>1. users[u] \in UserRow
  BY DEF TablesTypeOK, Rows
<1>2. \A r : PermNamesOf(r) \subseteq PermNames
  BY DEF TablesTypeOK, PermNamesOf, PermsOf, Rows
<1>3. EffectivePermissions(u) \subseteq PermNames
  BY <1>2 DEF EffectivePermissions
<1>. QED  BY <1>1, <1>3 DEF ClaimsOf, Claims, UserRow

LEMMA CollectionsType ==
  ASSUME TablesTypeOK
  PROVE  /\ \A u : RolesOf(u) \in SUBSET RoleIds
         /\ \A r : UsersOf(r) \in SUBSET UserIds
         /\ \A r : PermsOf(r) \in SUBSET PermIds
         /\ \A p : RolesHolding(p) \in SUBSET RoleIds
         /\ Rows(users) \subseteq UserIds
         /\ Rows(roles) \subseteq RoleIds
         /\ Rows(perms) \subseteq PermIds
BY DEF TablesTypeOK, RolesOf, UsersOf, PermsOf, RolesHolding, Rows

LEMMA ByType ==
  ASSUME TypeOK, NEW s \in Sessions, token[s] # Nil
  PROVE  By(s) \in Claims
BY DEF TypeOK, By, Token

(* A first step changes nothing but the request of its thread.              *)
LEMMA BeginType ==
  ASSUME TypeOK, NEW w \in Workers, NEW e, NEW r \in Request, Begin(w, e, r)
  PROVE  TypeOK'
BY DEF Begin, TypeOK, TablesTypeOK, tables

(* A first step writes nothing and turns an idle thread into a busy one.    *)
LEMMA FirstStepsKeepTables ==
  ASSUME NEW w \in Workers, UserHandlers(w) \/ RoleHandlers(w)
  PROVE  /\ UNCHANGED <<tables, token>>
         /\ req[w] = Idle
         /\ \E r : req' = [req EXCEPT ![w] = r]
<1>1. ASSUME NEW e, NEW r, Begin(w, e, r)
      PROVE  /\ UNCHANGED <<tables, token>>
             /\ req[w] = Idle
             /\ \E q : req' = [req EXCEPT ![w] = q]
  BY <1>1 DEF Begin
<1>2. CASE UserHandlers(w)
  BY <1>1, <1>2
     DEF UserHandlers, Signup, Login, CreateUser, UpdateUser, DeleteUser,
         AssignRole, UnassignRole
<1>3. CASE RoleHandlers(w)
  BY <1>1, <1>3
     DEF RoleHandlers, CreateRole, UpdateRole, DeleteRole, AttachPermission,
         DetachPermission, CreatePermission, DeletePermission
<1>. QED  BY <1>2, <1>3

LEMMA UserHandlersType ==
  ASSUME TypeOK, NEW w \in Workers, UserHandlers(w)
  PROVE  TypeOK'
<1>. TablesTypeOK
  BY DEF TypeOK
<1>1. ASSUME NEW name \in Names, Signup(w, name)
      PROVE  TypeOK'
  <2>1. [name |-> name, level |-> "user", tenant |-> DEFAULT_TENANT,
         acl |-> {}] \in UserRow
    BY TenantAssumption DEF UserRow, Levels
  <2>. QED  BY <1>1, <2>1, BeginType DEF Signup, Request
<1>2. ASSUME NEW s \in Sessions, NEW row \in NewUsers, CreateUser(w, s, row)
      PROVE  TypeOK'
  <2>1. By(s) \in Claims /\ row \in UserRow
    BY <1>2, ByType, BodiesAssumption DEF CreateUser, Caller
  <2>. QED  BY <1>2, <2>1, BeginType DEF CreateUser, Request
<1>3. ASSUME NEW s \in Sessions, NEW u \in UserIds, Login(w, s, u)
      PROVE  TypeOK'
  <2>1. ClaimsOf(u) \in Claims
    BY <1>3, ClaimsType DEF Login
  <2>. QED  BY <1>3, <2>1, BeginType DEF Login, Request
<1>4. ASSUME NEW s \in Sessions, NEW u \in UserIds, NEW set \in Patches,
             UpdateUser(w, s, u, set)
      PROVE  TypeOK'
  <2>1. By(s) \in Claims /\ set \in Patch
    BY <1>4, ByType, BodiesAssumption DEF UpdateUser, Caller
  <2>. QED  BY <1>4, <2>1, BeginType DEF UpdateUser, Request
<1>5. ASSUME NEW s \in Sessions, NEW u \in UserIds, DeleteUser(w, s, u)
      PROVE  TypeOK'
  <2>1. By(s) \in Claims /\ RolesOf(u) \in SUBSET RoleIds
    BY <1>5, ByType, CollectionsType DEF DeleteUser, Caller
  <2>. QED  BY <1>5, <2>1, BeginType DEF DeleteUser, Request
<1>6. ASSUME NEW s \in Sessions, NEW u \in UserIds, NEW r \in RoleIds,
             AssignRole(w, s, u, r) \/ UnassignRole(w, s, u, r)
      PROVE  TypeOK'
  <2>1. By(s) \in Claims
    BY <1>6, ByType DEF AssignRole, UnassignRole, Caller
  <2>. QED  BY <1>6, <2>1, BeginType DEF AssignRole, UnassignRole, Request
<1>. QED
  BY <1>1, <1>2, <1>3, <1>4, <1>5, <1>6 DEF UserHandlers

LEMMA RoleHandlersType ==
  ASSUME TypeOK, NEW w \in Workers, RoleHandlers(w)
  PROVE  TypeOK'
<1>. TablesTypeOK
  BY DEF TypeOK
<1>1. ASSUME NEW s \in Sessions, NEW name \in RoleNames,
             NEW ids \in SUBSET PermIds, CreateRole(w, s, name, ids)
      PROVE  TypeOK'
  <2>1. By(s) \in Claims /\ ids \cap Rows(perms) \in SUBSET PermIds
    BY <1>1, ByType DEF CreateRole, Caller
  <2>. QED  BY <1>1, <2>1, BeginType DEF CreateRole, Request
<1>2. ASSUME NEW s \in Sessions, NEW name \in RoleNames, NEW r \in RoleIds,
             UpdateRole(w, s, r, name)
      PROVE  TypeOK'
  <2>1. By(s) \in Claims
    BY <1>2, ByType DEF UpdateRole, Caller
  <2>. QED  BY <1>2, <2>1, BeginType DEF UpdateRole, Request
<1>3. ASSUME NEW s \in Sessions, NEW r \in RoleIds, DeleteRole(w, s, r)
      PROVE  TypeOK'
  <2>1. /\ By(s) \in Claims
        /\ UsersOf(r) \in SUBSET UserIds /\ PermsOf(r) \in SUBSET PermIds
    BY <1>3, ByType, CollectionsType DEF DeleteRole, Caller
  <2>. QED  BY <1>3, <2>1, BeginType DEF DeleteRole, Request
<1>4. ASSUME NEW s \in Sessions, NEW r \in RoleIds, NEW p \in PermIds,
             AttachPermission(w, s, r, p) \/ DetachPermission(w, s, r, p)
      PROVE  TypeOK'
  <2>1. By(s) \in Claims
    BY <1>4, ByType DEF AttachPermission, DetachPermission, Caller
  <2>. QED
    BY <1>4, <2>1, BeginType DEF AttachPermission, DetachPermission, Request
<1>5. ASSUME NEW s \in Sessions, NEW name \in PermNames,
             CreatePermission(w, s, name)
      PROVE  TypeOK'
  <2>1. By(s) \in Claims
    BY <1>5, ByType DEF CreatePermission, Caller
  <2>. QED  BY <1>5, <2>1, BeginType DEF CreatePermission, Request
<1>6. ASSUME NEW s \in Sessions, NEW p \in PermIds, DeletePermission(w, s, p)
      PROVE  TypeOK'
  <2>1. By(s) \in Claims /\ RolesHolding(p) \in SUBSET RoleIds
    BY <1>6, ByType, CollectionsType DEF DeletePermission, Caller
  <2>. QED  BY <1>6, <2>1, BeginType DEF DeletePermission, Request
<1>. QED
  BY <1>1, <1>2, <1>3, <1>4, <1>5, <1>6 DEF RoleHandlers

LEMMA CommitType ==
  ASSUME TypeOK, NEW w \in Workers, Commit(w)
  PROVE  TypeOK'
<1>. TablesTypeOK /\ req[w] \in Request /\ Idle \in Request
  BY DEF TypeOK, Request
<1>0. ASSUME req' \in [Workers -> Request],
             token' \in [Sessions -> Token \cup {Nil}],
             TablesTypeOK'
      PROVE  TypeOK'
  BY <1>0 DEF TypeOK
<1>1. Done(w) => req' \in [Workers -> Request]
  BY DEF TypeOK, Done
<1>2. ASSUME NEW row \in UserRow, InsertUser(row)
      PROVE  TablesTypeOK' /\ token' \in [Sessions -> Token \cup {Nil}]
  BY <1>2 DEF InsertUser, TypeOK, TablesTypeOK
<1>3. CASE CommitSignup(w) \/ CommitCreateUser(w)
  BY <1>0, <1>1, <1>2, <1>3, RequestShape
     DEF CommitSignup, CommitCreateUser, Serving
<1>4. CASE CommitLogin(w)
  <2>1. [claims |-> req[w].claims, ttl |-> TOKEN_MINUTES] \in Token
    BY <1>4, RequestShape, TtlAssumption DEF CommitLogin, Serving, Token
  <2>. QED
    BY <1>0, <1>1, <1>4, <2>1 DEF CommitLogin, TypeOK, TablesTypeOK, tables
<1>5. CASE CommitUpdateUser(w)
  <2>1. /\ req[w].user \in UserIds /\ users[req[w].user] \in UserRow
        /\ req[w].set \in Patch
    BY <1>5, RequestShape DEF CommitUpdateUser, Serving, Rows, TablesTypeOK
  <2>2. Patched(users[req[w].user], req[w].set) \in UserRow
    BY <2>1 DEF Patched, Patch, UserRow
  <2>. QED
    BY <1>0, <1>1, <1>5, <2>1, <2>2 DEF CommitUpdateUser, TypeOK, TablesTypeOK
<1>6. CASE CommitDeleteUser(w)
  BY <1>0, <1>1, <1>6, RequestShape
     DEF CommitDeleteUser, Serving, TypeOK, TablesTypeOK
<1>7. CASE CommitAssignRole(w) \/ CommitUnassignRole(w)
  BY <1>0, <1>1, <1>7, RequestShape
     DEF CommitAssignRole, CommitUnassignRole, Serving, TypeOK, TablesTypeOK
<1>8. CASE CommitCreateRole(w)
  BY <1>0, <1>1, <1>8, RequestShape
     DEF CommitCreateRole, Serving, TypeOK, TablesTypeOK
<1>9. CASE CommitUpdateRole(w)
  BY <1>0, <1>1, <1>9, RequestShape
     DEF CommitUpdateRole, Serving, TypeOK, TablesTypeOK
<1>10. CASE CommitDeleteRole(w)
  BY <1>0, <1>1, <1>10, RequestShape
     DEF CommitDeleteRole, Serving, TypeOK, TablesTypeOK
<1>11. CASE CommitAttachPermission(w) \/ CommitDetachPermission(w)
  BY <1>0, <1>1, <1>11, RequestShape
     DEF CommitAttachPermission, CommitDetachPermission, Serving, TypeOK,
         TablesTypeOK
<1>12. CASE CommitCreatePermission(w)
  BY <1>0, <1>1, <1>12, RequestShape
     DEF CommitCreatePermission, Serving, TypeOK, TablesTypeOK
<1>13. CASE CommitDeletePermission(w)
  BY <1>0, <1>1, <1>13, RequestShape
     DEF CommitDeletePermission, Serving, TypeOK, TablesTypeOK
<1>. QED
  BY <1>3, <1>4, <1>5, <1>6, <1>7, <1>8, <1>9, <1>10, <1>11, <1>12, <1>13
     DEF Commit

LEMMA TickType == ASSUME TypeOK, Tick PROVE TypeOK'
<1>1. ASSUME NEW s \in Sessions
      PROVE  (IF token[s] = Nil \/ token[s].ttl = 0 THEN Nil
              ELSE [token[s] EXCEPT !.ttl = @ - 1]) \in Token \cup {Nil}
  BY TtlAssumption DEF TypeOK, Token
<1>. QED  BY <1>1 DEF Tick, TypeOK, TablesTypeOK, tables

LEMMA InitType == Init => TypeOK
BY SeedAssumption DEF Init, TypeOK, TablesTypeOK, Request, Rows

LEMMA StepType ==
  ASSUME TypeOK, [Next]_vars
  PROVE  TypeOK'
<1>1. ASSUME NEW w \in Workers,
             UserHandlers(w) \/ RoleHandlers(w) \/ Commit(w)
      PROVE  TypeOK'
  BY <1>1, UserHandlersType, RoleHandlersType, CommitType
<1>2. ASSUME NEW w \in Workers, Fail(w) PROVE TypeOK'
  BY <1>2 DEF Fail, Done, TypeOK, TablesTypeOK, tables, Request
<1>3. CASE UNCHANGED vars
  BY <1>3 DEF vars, TypeOK, TablesTypeOK
<1>. QED  BY <1>1, <1>2, <1>3, TickType DEF Next

(* Every variable keeps its type: in particular the association tables only *)
(* ever hold pairs of possible keys, and a request what its endpoint reads. *)
THEOREM TypeCorrect == Spec => []TypeOK
<1>1. TypeOK /\ [Next]_vars => TypeOK'
  BY StepType
<1>. QED  BY <1>1, InitType, PTL DEF Spec

-----------------------------------------------------------------------------
(* Names stay unique under any interleaving of handlers: the unique columns *)
(* are consulted in the transaction that writes them.                       *)
THEOREM NamesStayUnique == Spec => []UniqueNames
<1>0. Init => UniqueNames
  BY SeedAssumption DEF Init, UniqueNames, Rows
<1>1. TypeOK /\ UniqueNames /\ [Next]_vars => UniqueNames'
  <2>. SUFFICES ASSUME TypeOK, UniqueNames, [Next]_vars PROVE UniqueNames'
    OBVIOUS
  <2>. TablesTypeOK
    BY DEF TypeOK
  <2>1. UNCHANGED <<users, roles, perms>> => UniqueNames'
    BY DEF UniqueNames, Rows
  <2>2. ASSUME NEW row \in UserRow, InsertUser(row) PROVE UniqueNames'
    BY <2>2, NilAssumption
       DEF InsertUser, UniqueNames, UserNameTaken, IsNextId, Rows, TablesTypeOK
  <2>3. ASSUME NEW w \in Workers, Commit(w) PROVE UniqueNames'
    <3>. req[w] \in Request
      BY DEF TypeOK
    <3>1. CASE CommitSignup(w) \/ CommitCreateUser(w)
      BY <2>2, <3>1, RequestShape DEF CommitSignup, CommitCreateUser, Serving
    <3>2. CASE CommitUpdateUser(w)
      BY <3>2, RequestShape
         DEF CommitUpdateUser, Serving, Patched, UniqueNames, Rows, TablesTypeOK
    <3>3. CASE CommitDeleteUser(w)
      BY <3>3, RequestShape
         DEF CommitDeleteUser, Serving, UniqueNames, Rows, TablesTypeOK
    <3>4. CASE CommitCreateRole(w)
      BY <3>4, RequestShape
         DEF CommitCreateRole, Serving, UniqueNames, RoleNameTaken, IsNextId,
             Rows, TablesTypeOK
    <3>5. CASE CommitUpdateRole(w)
      BY <3>5, RequestShape
         DEF CommitUpdateRole, Serving, UniqueNames, Rows, TablesTypeOK
    <3>6. CASE CommitDeleteRole(w)
      BY <3>6, RequestShape
         DEF CommitDeleteRole, Serving, UniqueNames, Rows, TablesTypeOK
    <3>7. CASE CommitCreatePermission(w)
      BY <3>7, RequestShape
         DEF CommitCreatePermission, Serving, UniqueNames, PermNameTaken,
             IsNextId, Rows, TablesTypeOK
    <3>8. CASE CommitDeletePermission(w)
      BY <3>8, RequestShape
         DEF CommitDeletePermission, Serving, UniqueNames, Rows, TablesTypeOK
    <3>9. CASE \/ CommitLogin(w) \/ CommitAssignRole(w)
               \/ CommitUnassignRole(w) \/ CommitAttachPermission(w)
               \/ CommitDetachPermission(w)
      BY <2>1, <3>9
         DEF CommitLogin, CommitAssignRole, CommitUnassignRole,
             CommitAttachPermission, CommitDetachPermission, tables
    <3>. QED
      BY <2>3, <3>1, <3>2, <3>3, <3>4, <3>5, <3>6, <3>7, <3>8, <3>9 DEF Commit
  <2>4. ASSUME NEW w \in Workers,
               UserHandlers(w) \/ RoleHandlers(w) \/ Fail(w)
        PROVE  UniqueNames'
    BY <2>1, <2>4, FirstStepsKeepTables DEF Fail, tables
  <2>. QED  BY <2>1, <2>3, <2>4 DEF Next, Tick, vars, tables
<1>. QED  BY <1>0, <1>1, TypeCorrect, PTL DEF Spec

-----------------------------------------------------------------------------
(* Elevation.  The tables may change under a handler in flight, but not     *)
(* what it holds: the invariant bounds that by the authority of its caller. *)

WithinAuthority ==
  \A w \in Workers :
    LET r == req[w] IN
    /\ r.op = "signup" => r.row.level = "user" /\ r.row.acl = {}
    /\ r.op = "create_user" /\ ~IsCreator(r.by) =>
         r.row.level = "user" /\ r.row.acl \subseteq r.by.acl
    /\ r.op = "update_user" /\ ~IsCreator(r.by) =>
         /\ r.set.level \in {Nil, "user"}
         /\ r.set.tenant = Nil
         /\ r.set.acl # Nil => r.set.acl \subseteq r.by.acl

LEMMA BeginWithinAuthority ==
  ASSUME TypeOK, WithinAuthority, NEW w \in Workers,
         UserHandlers(w) \/ RoleHandlers(w)
  PROVE  WithinAuthority'
<1>1. ASSUME NEW e, NEW r, Begin(w, e, r),
             /\ r.op = "signup" => r.row.level = "user" /\ r.row.acl = {}
             /\ r.op = "create_user" /\ ~IsCreator(r.by) =>
                  r.row.level = "user" /\ r.row.acl \subseteq r.by.acl
             /\ r.op = "update_user" /\ ~IsCreator(r.by) =>
                  /\ r.set.level \in {Nil, "user"}
                  /\ r.set.tenant = Nil
                  /\ r.set.acl # Nil => r.set.acl \subseteq r.by.acl
      PROVE  WithinAuthority'
  BY <1>1 DEF Begin, WithinAuthority, TypeOK, IsCreator
<1>2. ASSUME NEW name \in Names, Signup(w, name) PROVE WithinAuthority'
  BY <1>1, <1>2 DEF Signup
<1>3. ASSUME NEW s \in Sessions, NEW row \in NewUsers, CreateUser(w, s, row)
      PROVE  WithinAuthority'
  BY <1>1, <1>3
     DEF CreateUser, EnsureLevelChangeAllowed, EnsureAclScope, IsCreator
<1>4. ASSUME NEW s \in Sessions, NEW u \in UserIds, NEW set \in Patches,
             UpdateUser(w, s, u, set)
      PROVE  WithinAuthority'
  BY <1>1, <1>4
     DEF UpdateUser, EnsureLevelChangeAllowed, EnsureAclScope, IsCreator
<1>5. ASSUME NEW s \in Sessions, NEW u \in UserIds, NEW r \in RoleIds,
             AssignRole(w, s, u, r) \/ UnassignRole(w, s, u, r)
      PROVE  WithinAuthority'
  BY <1>1, <1>5 DEF AssignRole, UnassignRole
<1>6. ASSUME NEW s \in Sessions, NEW u \in UserIds,
             Login(w, s, u) \/ DeleteUser(w, s, u)
      PROVE  WithinAuthority'
  BY <1>1, <1>6 DEF Login, DeleteUser
<1>7. CASE RoleHandlers(w)
  BY <1>1, <1>7
     DEF RoleHandlers, CreateRole, UpdateRole, DeleteRole, AttachPermission,
         DetachPermission, CreatePermission, DeletePermission
<1>. QED  BY <1>2, <1>3, <1>4, <1>5, <1>6, <1>7 DEF UserHandlers

LEMMA SecondStepsEnd ==
  ASSUME NEW w \in Workers, Commit(w) \/ Fail(w)
  PROVE  Done(w)
BY DEF Commit, Fail, CommitSignup, CommitLogin, CommitCreateUser,
   CommitUpdateUser, CommitDeleteUser, CommitAssignRole, CommitUnassignRole,
   CommitCreateRole, CommitUpdateRole, CommitDeleteRole,
   CommitAttachPermission, CommitDetachPermission, CommitCreatePermission,
   CommitDeletePermission

(* The step that ends a request is the second step of its thread.           *)
LEMMA EndsBySecondStep ==
  ASSUME TypeOK, [Next]_vars, NEW w \in Workers, Ends(w)
  PROVE  Commit(w) \/ Fail(w)
<1>1. ASSUME NEW v \in Workers, Done(v), v # w PROVE FALSE
  BY <1>1 DEF Done, Ends, TypeOK
<1>2. ASSUME NEW v \in Workers, NEW r, req[v] = Idle,
             req' = [req EXCEPT ![v] = r]
      PROVE  FALSE
  BY <1>2 DEF Ends, TypeOK
<1>. QED
  BY <1>1, <1>2, FirstStepsKeepTables, SecondStepsEnd DEF Next, Tick, Ends, vars

LEMMA WithinAuthorityInvariant == Spec => [](TypeOK /\ WithinAuthority)
<1>1. Init => WithinAuthority
  BY DEF Init, WithinAuthority, Idle
<1>2. TypeOK /\ WithinAuthority /\ [Next]_vars => WithinAuthority'
  <2>. SUFFICES ASSUME TypeOK, WithinAuthority, [Next]_vars
                PROVE  WithinAuthority'
    OBVIOUS
  <2>1. ASSUME NEW w \in Workers, Done(w) PROVE WithinAuthority'
    BY <2>1 DEF Done, WithinAuthority, Idle, TypeOK, IsCreator
  <2>2. UNCHANGED req => WithinAuthority'
    BY DEF WithinAuthority, IsCreator
  <2>. QED
    BY <2>1, <2>2, BeginWithinAuthority, SecondStepsEnd DEF Next, Tick, vars
<1>. QED  BY <1>1, <1>2, TypeCorrect, PTL DEF Spec

(* The property of one step, for the thread it ends.                        *)
LEMMA EndElevatesNobody ==
  ASSUME TypeOK, WithinAuthority, NEW w \in Workers, Commit(w) \/ Fail(w),
         ~ActsAsCreator(w), NEW u \in Rows(users')
  PROVE  /\ users'[u].level # "user" =>
              u \in Rows(users) /\ users'[u].level = users[u].level
         /\ u \in Rows(users) => users'[u].tenant = users[u].tenant
         /\ users'[u].acl \subseteq
              (IF u \in Rows(users) THEN users[u].acl ELSE {})
                \cup (IF Caused(w) = Nil THEN {} ELSE Caused(w).acl)
<1>. TablesTypeOK /\ req[w] \in Request
  BY DEF TypeOK
<1>. DEFINE Goal ==
       /\ users'[u].level # "user" =>
            u \in Rows(users) /\ users'[u].level = users[u].level
       /\ u \in Rows(users) => users'[u].tenant = users[u].tenant
       /\ users'[u].acl \subseteq
            (IF u \in Rows(users) THEN users[u].acl ELSE {})
              \cup (IF Caused(w) = Nil THEN {} ELSE Caused(w).acl)
<1>1. CASE CommitSignup(w) \/ CommitCreateUser(w)
  <2>1. /\ req[w].row \in UserRow /\ req[w].row.level = "user"
        /\ req[w].row.acl \subseteq
             (IF Caused(w) = Nil THEN {} ELSE Caused(w).acl)
    <3>1. CASE req[w].op = "signup"
      BY <3>1, RequestShape DEF WithinAuthority
    <3>2. CASE req[w].op = "create_user"
      <4>1. req[w].by \in Claims /\ Caused(w) = req[w].by
        BY <3>2, RequestShape DEF Caused
      <4>2. ~IsCreator(req[w].by) /\ Caused(w) # Nil
        BY <4>1, NilAssumption DEF ActsAsCreator
      <4>. QED  BY <3>2, <4>1, <4>2, RequestShape DEF WithinAuthority
    <3>. QED  BY <1>1, <3>1, <3>2 DEF CommitSignup, CommitCreateUser, Serving
  <2>2. PICK v \in UserIds : IsNextId(users, v)
                              /\ users' = [users EXCEPT ![v] = req[w].row]
    BY <1>1 DEF CommitSignup, CommitCreateUser, InsertUser
  <2>3. CASE u = v
    <3>1. v \notin Rows(users)
      BY <2>2, KeysAssumption DEF IsNextId, Rows, TablesTypeOK
    <3>. QED  BY <2>1, <2>2, <2>3, <3>1 DEF TablesTypeOK
  <2>4. CASE u # v
    BY <2>2, <2>4 DEF TablesTypeOK, Rows
  <2>. QED  BY <2>3, <2>4
<1>2. CASE CommitUpdateUser(w)
  <2>1. /\ req[w].op = "update_user" /\ req[w].by \in Claims
        /\ Caused(w) = req[w].by /\ Caused(w) # Nil
        /\ req[w].set \in Patch
    BY <1>2, RequestShape, NilAssumption DEF CommitUpdateUser, Serving, Caused
  <2>2. /\ req[w].set.level \in {Nil, "user"} /\ req[w].set.tenant = Nil
        /\ req[w].set.acl # Nil => req[w].set.acl \subseteq Caused(w).acl
    BY <2>1 DEF ActsAsCreator, WithinAuthority
  <2>3. CASE u = req[w].user
    <3>1. u \in Rows(users) /\ users[u] \in UserRow
      BY <1>2, <2>3 DEF CommitUpdateUser, Rows, TablesTypeOK
    <3>2. users'[u] = Patched(users[u], req[w].set)
      BY <1>2, <2>3, <3>1 DEF CommitUpdateUser, Rows, TablesTypeOK
    <3>. QED  BY <2>1, <2>2, <3>1, <3>2 DEF Patched
  <2>4. CASE u # req[w].user
    BY <1>2, <2>4 DEF CommitUpdateUser, TablesTypeOK, Rows
  <2>. QED  BY <2>3, <2>4
<1>3. CASE CommitDeleteUser(w)
  BY <1>3 DEF CommitDeleteUser, TablesTypeOK, Rows
<1>4. CASE UNCHANGED users
  BY <1>4 DEF Rows
<1>. QED
  BY <1>1, <1>2, <1>3, <1>4
     DEF Commit, Fail, CommitLogin, CommitAssignRole, CommitUnassignRole,
         CommitCreateRole, CommitUpdateRole, CommitDeleteRole,
         CommitAttachPermission, CommitDetachPermission,
         CommitCreatePermission, CommitDeletePermission, tables

(* For any number of threads and whatever they read before: nobody becomes  *)
(* admin or creator, changes tenant or gains an ACL group by a request whose *)
(* caller had no authority for it.                                          *)
THEOREM ElevationNeedsAuthority == Spec => OnlyCreatorsElevate
<1>. DEFINE Step ==
       \A w \in Workers : Ends(w) /\ ~ActsAsCreator(w) =>
         \A u \in Rows(users') :
           /\ users'[u].level # "user" =>
                u \in Rows(users) /\ users'[u].level = users[u].level
           /\ u \in Rows(users) => users'[u].tenant = users[u].tenant
           /\ users'[u].acl \subseteq
                (IF u \in Rows(users) THEN users[u].acl ELSE {})
                  \cup (IF Caused(w) = Nil THEN {} ELSE Caused(w).acl)
<1>1. TypeOK /\ WithinAuthority /\ [Next]_vars => [Step]_vars
  BY EndsBySecondStep, EndElevatesNobody
<1>. QED
  BY <1>1, WithinAuthorityInvariant, PTL DEF Spec, OnlyCreatorsElevate

-----------------------------------------------------------------------------
(* What the handlers of AdminApi guarantee when no two of them overlap:     *)
(* one thread, any tables, any tokens.  The inductive invariant says that   *)
(* what the one handler in flight has read still holds, which is what its   *)
(* commit relies on and what a second thread would invalidate.              *)

MayPassOn(c, names) == IsCreator(c) \/ names \subseteq c.perms

ReadHolds(r) ==
  /\ r.op \in {"update_user", "delete_user", "assign_role"} =>
       r.user \in Rows(users)
  /\ r.op = "update_user" /\ r.set.level \notin {Nil, "creator"} =>
       Creators \ {r.user} # {}
  /\ r.op = "delete_user" =>
       Creators \ {r.user} # {} /\ r.roles = RolesOf(r.user)
  /\ r.op = "assign_role" =>
       r.role \in Rows(roles) /\ MayPassOn(r.by, PermNamesOf(r.role))
  /\ r.op = "create_role" =>
       /\ r.perms \subseteq Rows(perms)
       /\ MayPassOn(r.by, {perms[p] : p \in r.perms})
  /\ r.op = "attach_permission" =>
       /\ r.role \in Rows(roles) /\ r.perm \in Rows(perms)
       /\ MayPassOn(r.by, {perms[r.perm]})
  /\ r.op = "delete_role" =>
       r.users = UsersOf(r.role) /\ r.perms = PermsOf(r.role)
  /\ r.op = "delete_permission" => r.roles = RolesHolding(r.perm)

SerialInv ==
  /\ AtLeastOneCreator
  /\ NoDanglingLinks
  /\ \A w \in Workers : ReadHolds(req[w])

(* The count behind _creator_count: more than one creator leaves another.   *)
LEMMA AnotherCreator ==
  ASSUME TablesTypeOK, AtLeastOneCreator, NEW u \in Rows(users),
         LeavesACreator(u)
  PROVE  Creators \ {u} # {}
<1>1. CASE users[u].level # "creator"
  BY <1>1 DEF AtLeastOneCreator, Creators
<1>2. CASE users[u].level = "creator"
  <2>. SUFFICES ASSUME Creators \ {u} = {} PROVE FALSE
    OBVIOUS
  <2>1. Creators = {u}
    BY <1>2 DEF Creators
  <2>2. Cardinality(Creators) = 1
    BY <2>1, FS_Singleton
  <2>. QED  BY <1>2, <2>2 DEF LeavesACreator
<1>. QED  BY <1>1, <1>2

LEMMA BeginReads ==
  ASSUME TypeOK, SerialInv, NEW w, Workers = {w},
         UserHandlers(w) \/ RoleHandlers(w)
  PROVE  SerialInv'
<1>. w \in Workers /\ TablesTypeOK
  BY DEF TypeOK
<1>1. AtLeastOneCreator' /\ NoDanglingLinks'
  BY FirstStepsKeepTables
     DEF SerialInv, AtLeastOneCreator, Creators, NoDanglingLinks, Rows, tables
<1>2. ASSUME NEW e, NEW r, Begin(w, e, r), ReadHolds(r) PROVE SerialInv'
  <2>1. req'[w] = r
    BY <1>2 DEF Begin, TypeOK
  <2>2. ReadHolds(r)'
    BY <1>2 DEF Begin, tables, ReadHolds, MayPassOn, Rows, Creators, RolesOf,
                PermNamesOf, PermsOf, UsersOf, RolesHolding, IsCreator
  <2>. QED  BY <1>1, <2>1, <2>2 DEF SerialInv
<1>3. ASSUME NEW name \in Names, Signup(w, name) PROVE SerialInv'
  BY <1>2, <1>3 DEF Signup, ReadHolds
<1>4. ASSUME NEW s \in Sessions, NEW row \in NewUsers, CreateUser(w, s, row)
      PROVE  SerialInv'
  BY <1>2, <1>4 DEF CreateUser, ReadHolds
<1>5. ASSUME NEW s \in Sessions, NEW u \in UserIds, Login(w, s, u)
      PROVE  SerialInv'
  BY <1>2, <1>5 DEF Login, ReadHolds
<1>6. ASSUME NEW s \in Sessions, NEW u \in UserIds, NEW set \in Patches,
             UpdateUser(w, s, u, set)
      PROVE  SerialInv'
  <2>1. set.level # Nil => Creators \ {u} # {}
    BY <1>6, AnotherCreator DEF UpdateUser, UserInScope, SerialInv
  <2>. QED  BY <1>2, <1>6, <2>1 DEF UpdateUser, UserInScope, ReadHolds
<1>7. ASSUME NEW s \in Sessions, NEW u \in UserIds, DeleteUser(w, s, u)
      PROVE  SerialInv'
  <2>1. Creators \ {u} # {}
    BY <1>7, AnotherCreator DEF DeleteUser, UserInScope, SerialInv
  <2>. QED  BY <1>2, <1>7, <2>1 DEF DeleteUser, UserInScope, ReadHolds
<1>8. ASSUME NEW s \in Sessions, NEW u \in UserIds, NEW r \in RoleIds,
             AssignRole(w, s, u, r) \/ UnassignRole(w, s, u, r)
      PROVE  SerialInv'
  BY <1>2, <1>8 DEF AssignRole, UnassignRole, UserInScope, EnsureCanGrant,
                    MayPassOn, ReadHolds
<1>9. ASSUME NEW s \in Sessions, NEW name \in RoleNames,
             NEW ids \in SUBSET PermIds, CreateRole(w, s, name, ids)
      PROVE  SerialInv'
  BY <1>2, <1>9 DEF CreateRole, EnsureCanGrant, MayPassOn, ReadHolds
<1>10. ASSUME NEW s \in Sessions, NEW r \in RoleIds, NEW name \in RoleNames,
              UpdateRole(w, s, r, name)
       PROVE  SerialInv'
  BY <1>2, <1>10 DEF UpdateRole, ReadHolds
<1>11. ASSUME NEW s \in Sessions, NEW r \in RoleIds, DeleteRole(w, s, r)
       PROVE  SerialInv'
  BY <1>2, <1>11 DEF DeleteRole, ReadHolds
<1>12. ASSUME NEW s \in Sessions, NEW r \in RoleIds, NEW p \in PermIds,
              AttachPermission(w, s, r, p) \/ DetachPermission(w, s, r, p)
       PROVE  SerialInv'
  BY <1>2, <1>12 DEF AttachPermission, DetachPermission, EnsureCanGrant,
                     MayPassOn, ReadHolds
<1>13. ASSUME NEW s \in Sessions, NEW name \in PermNames,
              CreatePermission(w, s, name)
       PROVE  SerialInv'
  BY <1>2, <1>13 DEF CreatePermission, ReadHolds
<1>14. ASSUME NEW s \in Sessions, NEW p \in PermIds, DeletePermission(w, s, p)
       PROVE  SerialInv'
  BY <1>2, <1>14 DEF DeletePermission, ReadHolds
<1>. QED
  BY <1>3, <1>4, <1>5, <1>6, <1>7, <1>8, <1>9, <1>10, <1>11, <1>12, <1>13,
     <1>14 DEF UserHandlers, RoleHandlers

LEMMA CommitSerial ==
  ASSUME TypeOK, SerialInv, NEW w, Workers = {w}, Commit(w) \/ Fail(w)
  PROVE  SerialInv'
<1>. w \in Workers /\ TablesTypeOK /\ req[w] \in Request /\ ReadHolds(req[w])
  BY DEF TypeOK, SerialInv
<1>1. \A v \in Workers : ReadHolds(req[v])'
  <2>1. req'[w] = Idle
    BY SecondStepsEnd DEF Done, TypeOK
  <2>. QED  BY <2>1 DEF ReadHolds, Idle
<1>2. ASSUME AtLeastOneCreator', NoDanglingLinks' PROVE SerialInv'
  BY <1>1, <1>2 DEF SerialInv
<1>3. AtLeastOneCreator /\ NoDanglingLinks
  BY DEF SerialInv
<1>4. CASE CommitSignup(w) \/ CommitCreateUser(w)
  <2>1. /\ req[w].row \in UserRow
        /\ \E v \in UserIds :
             v \notin Rows(users) /\ users' = [users EXCEPT ![v] = req[w].row]
        /\ UNCHANGED <<roles, perms, userRoles, rolePerms>>
    BY <1>4, RequestShape, KeysAssumption
       DEF CommitSignup, CommitCreateUser, Serving, InsertUser, IsNextId, Rows,
           TablesTypeOK
  <2>2. Rows(users) \subseteq Rows(users')
    BY <2>1, NilAssumption DEF Rows, TablesTypeOK
  <2>3. AtLeastOneCreator'
    BY <1>3, <2>1 DEF AtLeastOneCreator, Creators, Rows, TablesTypeOK
  <2>4. NoDanglingLinks'
    BY <1>3, <2>1, <2>2 DEF NoDanglingLinks, Rows
  <2>. QED  BY <1>2, <2>3, <2>4
<1>5. CASE CommitUpdateUser(w)
  <2>1. /\ req[w].op = "update_user" /\ req[w].user \in Rows(users)
        /\ req[w].set \in Patch /\ users[req[w].user] \in UserRow
        /\ users' = [users EXCEPT ![req[w].user] =
                        Patched(users[req[w].user], req[w].set)]
    BY <1>5, RequestShape DEF CommitUpdateUser, Serving, Rows, TablesTypeOK
  <2>2. Patched(users[req[w].user], req[w].set) \in UserRow
    BY <2>1 DEF Patched, Patch, UserRow
  <2>3. Rows(users') = Rows(users)
    BY <2>1, <2>2, NilAssumption DEF Rows, TablesTypeOK
  <2>4. AtLeastOneCreator'
    <3>1. CASE req[w].set.level \in {Nil, "creator"}
      <4>1. PICK v \in Creators : TRUE
        BY <1>3 DEF AtLeastOneCreator
      <4>2. users'[v].level = "creator"
        BY <2>1, <3>1, <4>1 DEF Patched, Creators, Rows, TablesTypeOK
      <4>. QED  BY <2>3, <4>1, <4>2 DEF AtLeastOneCreator, Creators
    <3>2. CASE req[w].set.level \notin {Nil, "creator"}
      <4>1. PICK v \in Creators \ {req[w].user} : TRUE
        BY <2>1, <3>2 DEF ReadHolds
      <4>2. users'[v] = users[v]
        BY <2>1, <4>1 DEF Creators, Rows, TablesTypeOK
      <4>. QED  BY <2>3, <4>1, <4>2 DEF AtLeastOneCreator, Creators
    <3>. QED  BY <3>1, <3>2
  <2>5. NoDanglingLinks'
    BY <1>3, <1>5, <2>3 DEF CommitUpdateUser, NoDanglingLinks, Rows
  <2>. QED  BY <1>2, <2>4, <2>5
<1>6. CASE CommitDeleteUser(w)
  <2>1. /\ req[w].op = "delete_user" /\ req[w].user \in Rows(users)
        /\ Creators \ {req[w].user} # {}
        /\ req[w].roles = RolesOf(req[w].user)
        /\ users' = [users EXCEPT ![req[w].user] = Nil]
    BY <1>6 DEF CommitDeleteUser, Serving, ReadHolds
  <2>2. Rows(users') = Rows(users) \ {req[w].user}
    BY <2>1, RequestShape DEF Rows, TablesTypeOK
  <2>3. AtLeastOneCreator'
    BY <2>1, <2>2 DEF AtLeastOneCreator, Creators, Rows, TablesTypeOK
  <2>4. NoDanglingLinks'
    BY <1>3, <1>6, <2>1, <2>2
       DEF CommitDeleteUser, NoDanglingLinks, RolesOf, Rows
  <2>. QED  BY <1>2, <2>3, <2>4
<1>7. CASE CommitAssignRole(w) \/ CommitUnassignRole(w)
  BY <1>2, <1>3, <1>7
     DEF CommitAssignRole, CommitUnassignRole, Serving, ReadHolds,
         AtLeastOneCreator, Creators, NoDanglingLinks, Rows
<1>8. CASE CommitCreateRole(w)
  <2>1. PICK r \in RoleIds :
          /\ roles' = [roles EXCEPT ![r] = req[w].name]
          /\ rolePerms' = rolePerms \cup ({r} \X req[w].perms)
    BY <1>8 DEF CommitCreateRole
  <2>2. req[w].name \in RoleNames /\ req[w].perms \subseteq Rows(perms)
    BY <1>8, RequestShape DEF CommitCreateRole, Serving, ReadHolds
  <2>3. Rows(roles') = Rows(roles) \cup {r}
    BY <2>1, <2>2, NilAssumption DEF Rows, TablesTypeOK
  <2>. QED
    BY <1>2, <1>3, <1>8, <2>1, <2>2, <2>3
       DEF CommitCreateRole, AtLeastOneCreator, Creators, NoDanglingLinks, Rows
<1>9. CASE CommitUpdateRole(w)
  <2>1. Rows(roles') = Rows(roles)
    BY <1>9, RequestShape, NilAssumption
       DEF CommitUpdateRole, Serving, Rows, TablesTypeOK
  <2>. QED
    BY <1>2, <1>3, <1>9, <2>1
       DEF CommitUpdateRole, AtLeastOneCreator, Creators, NoDanglingLinks, Rows
<1>10. CASE CommitDeleteRole(w)
  <2>1. /\ req[w].users = UsersOf(req[w].role)
        /\ req[w].perms = PermsOf(req[w].role)
    BY <1>10 DEF CommitDeleteRole, Serving, ReadHolds
  <2>2. Rows(roles') = Rows(roles) \ {req[w].role}
    BY <1>10, RequestShape DEF CommitDeleteRole, Serving, Rows, TablesTypeOK
  <2>3. AtLeastOneCreator'
    BY <1>3, <1>10 DEF CommitDeleteRole, AtLeastOneCreator, Creators, Rows
  <2>4. NoDanglingLinks'
    BY <1>3, <1>10, <2>1, <2>2
       DEF CommitDeleteRole, NoDanglingLinks, UsersOf, PermsOf, Rows
  <2>. QED  BY <1>2, <2>3, <2>4
<1>11. CASE CommitAttachPermission(w) \/ CommitDetachPermission(w)
  BY <1>2, <1>3, <1>11
     DEF CommitAttachPermission, CommitDetachPermission, Serving, ReadHolds,
         AtLeastOneCreator, Creators, NoDanglingLinks, Rows
<1>12. CASE CommitCreatePermission(w)
  <2>1. Rows(perms) \subseteq Rows(perms')
    BY <1>12, RequestShape, NilAssumption
       DEF CommitCreatePermission, Serving, Rows, TablesTypeOK
  <2>. QED
    BY <1>2, <1>3, <1>12, <2>1
       DEF CommitCreatePermission, AtLeastOneCreator, Creators,
           NoDanglingLinks, Rows
<1>13. CASE CommitDeletePermission(w)
  <2>1. req[w].roles = RolesHolding(req[w].perm)
    BY <1>13 DEF CommitDeletePermission, Serving, ReadHolds
  <2>2. Rows(perms') = Rows(perms) \ {req[w].perm}
    BY <1>13, RequestShape
       DEF CommitDeletePermission, Serving, Rows, TablesTypeOK
  <2>3. AtLeastOneCreator'
    BY <1>3, <1>13 DEF CommitDeletePermission, AtLeastOneCreator, Creators, Rows
  <2>4. NoDanglingLinks'
    BY <1>3, <1>13, <2>1, <2>2
       DEF CommitDeletePermission, NoDanglingLinks, RolesHolding, Rows
  <2>. QED  BY <1>2, <2>3, <2>4
<1>14. CASE CommitLogin(w) \/ Fail(w)
  BY <1>2, <1>3, <1>14
     DEF CommitLogin, Fail, tables, AtLeastOneCreator, Creators,
         NoDanglingLinks, Rows
<1>. QED
  BY <1>4, <1>5, <1>6, <1>7, <1>8, <1>9, <1>10, <1>11, <1>12, <1>13, <1>14
     DEF Commit

LEMMA InitSerial == Init => SerialInv
<1>1. Init => AtLeastOneCreator /\ NoDanglingLinks
  BY SeedAssumption
     DEF Init, AtLeastOneCreator, Creators, NoDanglingLinks, Rows
<1>2. ReadHolds(Idle)
  BY DEF ReadHolds, Idle
<1>. QED  BY <1>1, <1>2 DEF Init, SerialInv

LEMMA StepSerial ==
  ASSUME TypeOK, SerialInv, NEW w, Workers = {w}, [Next]_vars
  PROVE  SerialInv'
<1>1. CASE UNCHANGED <<tables, req>>
  BY <1>1 DEF tables, SerialInv, AtLeastOneCreator, NoDanglingLinks,
     ReadHolds, MayPassOn, IsCreator, Creators, Rows, RolesOf, UsersOf,
     PermsOf, RolesHolding, PermNamesOf
<1>. QED
  BY <1>1, BeginReads, CommitSerial DEF Next, Tick, vars, tables

LEMMA SerialInvariant ==
  ASSUME NEW w, Workers = {w}
  PROVE  Spec => [](TypeOK /\ SerialInv)
<1>1. TypeOK /\ SerialInv /\ [Next]_vars => SerialInv'
  BY StepSerial
<1>. QED  BY <1>1, InitSerial, TypeCorrect, PTL DEF Spec

(* Without overlapping handlers the last creator is safe.                   *)
THEOREM SerialKeepsACreator ==
  ASSUME NEW w, Workers = {w}
  PROVE  Spec => []AtLeastOneCreator
<1>1. SerialInv => AtLeastOneCreator
  BY DEF SerialInv
<1>. QED  BY <1>1, SerialInvariant, PTL

(* Without overlapping handlers the ORM cleans up every association row.    *)
THEOREM SerialLeavesNoDanglingLinks ==
  ASSUME NEW w, Workers = {w}
  PROVE  Spec => []NoDanglingLinks
<1>1. SerialInv => NoDanglingLinks
  BY DEF SerialInv
<1>. QED  BY <1>1, SerialInvariant, PTL

-----------------------------------------------------------------------------
(* Grants.                                                                  *)

(* Name x is an effective permission of u through some role and row.        *)
Reaches(u, x) ==
  \E r \in RoleIds, p \in PermIds :
    /\ u \in Rows(users) /\ r \in Rows(roles) /\ p \in Rows(perms)
    /\ <<u, r>> \in userRoles /\ <<r, p>> \in rolePerms
    /\ x = perms[p]

LEMMA EffectiveIsReach ==
  TablesTypeOK => \A u, x : x \in Effective(u) <=> Reaches(u, x)
<1>. SUFFICES ASSUME TablesTypeOK, NEW u, NEW x
              PROVE  x \in Effective(u) <=> Reaches(u, x)
  OBVIOUS
<1>1. x \in EffectivePermissions(u) <=>
        \E r \in RolesOf(u) : \E p \in PermsOf(r) : x = perms[p]
  BY DEF EffectivePermissions, PermNamesOf
<1>. QED
  BY <1>1 DEF Effective, Reaches, RolesOf, PermsOf, Rows, TablesTypeOK

LEMMA EffectiveIsReachNext ==
  TablesTypeOK' => \A u, x : x \in Effective(u)' <=> Reaches(u, x)'
<1>. SUFFICES ASSUME TablesTypeOK', NEW u, NEW x
              PROVE  x \in Effective(u)' <=> Reaches(u, x)'
  OBVIOUS
<1>1. x \in EffectivePermissions(u)' <=>
        \E r \in RolesOf(u)' : \E p \in PermsOf(r)' : x = perms'[p]
  BY DEF EffectivePermissions, PermNamesOf
<1>. QED
  BY <1>1 DEF Effective, Reaches, RolesOf, PermsOf, Rows, TablesTypeOK

LEMMA EndGrantsOnlyHeld ==
  ASSUME TypeOK, TypeOK', SerialInv, NEW w, Workers = {w},
         Commit(w) \/ Fail(w), NEW u \in UserIds, NEW x, Reaches(u, x)'
  PROVE  Reaches(u, x) \/ x \in MayGrant(w)
<1>. w \in Workers /\ TablesTypeOK /\ TablesTypeOK' /\ req[w] \in Request
  BY DEF TypeOK
<1>. ReadHolds(req[w]) /\ NoDanglingLinks
  BY DEF SerialInv
<1>1. PICK r \in RoleIds, p \in PermIds :
        /\ u \in Rows(users)' /\ r \in Rows(roles)' /\ p \in Rows(perms)'
        /\ <<u, r>> \in userRoles' /\ <<r, p>> \in rolePerms'
        /\ x = perms'[p]
  BY DEF Reaches
<1>2. x \in PermNames
  BY <1>1 DEF TablesTypeOK, Rows
<1>3. ASSUME <<u, r>> \in userRoles, <<r, p>> \in rolePerms,
             perms'[p] = perms[p]
      PROVE  Reaches(u, x)
  BY <1>1, <1>3 DEF Reaches, NoDanglingLinks
<1>4. CASE CommitAssignRole(w)
  <2>1. /\ req[w].op = "assign_role" /\ req[w].by \in Claims
        /\ Caused(w) = req[w].by /\ Caused(w) # Nil
    BY <1>4, RequestShape, NilAssumption DEF CommitAssignRole, Serving, Caused
  <2>2. CASE <<u, r>> \in userRoles
    BY <1>1, <1>3, <1>4, <2>2 DEF CommitAssignRole
  <2>3. CASE <<u, r>> \notin userRoles
    <3>1. r = req[w].role /\ x \in PermNamesOf(r)
      BY <1>1, <1>4, <2>3 DEF CommitAssignRole, PermNamesOf, PermsOf, Rows
    <3>. QED
      BY <1>2, <2>1, <3>1 DEF ReadHolds, MayPassOn, MayGrant
  <2>. QED  BY <2>2, <2>3
<1>5. CASE CommitAttachPermission(w)
  <2>1. /\ req[w].op = "attach_permission" /\ req[w].by \in Claims
        /\ Caused(w) = req[w].by /\ Caused(w) # Nil
    BY <1>5, RequestShape, NilAssumption
       DEF CommitAttachPermission, Serving, Caused
  <2>2. CASE <<r, p>> \in rolePerms
    BY <1>1, <1>3, <1>5, <2>2 DEF CommitAttachPermission
  <2>3. CASE <<r, p>> \notin rolePerms
    <3>1. p = req[w].perm /\ x = perms[p]
      BY <1>1, <1>5, <2>3 DEF CommitAttachPermission
    <3>. QED  BY <1>2, <2>1, <3>1 DEF ReadHolds, MayPassOn, MayGrant
  <2>. QED  BY <2>2, <2>3
<1>6. CASE CommitCreateRole(w)
  <2>1. PICK q \in RoleIds :
          /\ IsNextId(roles, q)
          /\ roles' = [roles EXCEPT ![q] = req[w].name]
          /\ rolePerms' = rolePerms \cup ({q} \X req[w].perms)
    BY <1>6 DEF CommitCreateRole
  <2>2. q \notin Rows(roles)
    BY <2>1, KeysAssumption DEF IsNextId, Rows, TablesTypeOK
  <2>3. <<u, r>> \in userRoles /\ r # q
    BY <1>1, <1>6, <2>2 DEF CommitCreateRole, NoDanglingLinks
  <2>. QED  BY <1>1, <1>3, <1>6, <2>1, <2>3 DEF CommitCreateRole
<1>7. CASE CommitCreatePermission(w)
  <2>1. PICK q \in PermIds :
          IsNextId(perms, q) /\ perms' = [perms EXCEPT ![q] = req[w].name]
    BY <1>7 DEF CommitCreatePermission
  <2>2. q \notin Rows(perms)
    BY <2>1, KeysAssumption DEF IsNextId, Rows, TablesTypeOK
  <2>3. <<r, p>> \in rolePerms /\ p # q
    BY <1>1, <1>7, <2>2 DEF CommitCreatePermission, NoDanglingLinks
  <2>. QED
    BY <1>1, <1>3, <1>7, <2>1, <2>3 DEF CommitCreatePermission, TablesTypeOK
<1>8. CASE CommitDeletePermission(w)
  BY <1>1, <1>3, <1>8 DEF CommitDeletePermission, Rows, TablesTypeOK
<1>9. CASE \/ CommitSignup(w) \/ CommitCreateUser(w) \/ CommitUpdateUser(w)
           \/ CommitDeleteUser(w) \/ CommitUnassignRole(w)
           \/ CommitUpdateRole(w) \/ CommitDeleteRole(w)
           \/ CommitDetachPermission(w) \/ CommitLogin(w) \/ Fail(w)
  BY <1>1, <1>3, <1>9
     DEF CommitSignup, CommitCreateUser, InsertUser, CommitUpdateUser,
         CommitDeleteUser, CommitUnassignRole, CommitUpdateRole,
         CommitDeleteRole, CommitDetachPermission, CommitLogin, Fail, tables
<1>. QED
  BY <1>4, <1>5, <1>6, <1>7, <1>8, <1>9 DEF Commit

(* Without overlapping handlers nobody passes on a permission it does not   *)
(* hold, whichever chain of roles, attachments and reused keys is tried.    *)
THEOREM SerialGrantsAreHeld ==
  ASSUME NEW t, Workers = {t}
  PROVE  Spec => GrantsAreHeld
<1>. DEFINE Step ==
       \A w \in Workers : Ends(w) =>
         \A u \in UserIds : Effective(u)' \ Effective(u) \subseteq MayGrant(w)
<1>1. /\ TypeOK /\ SerialInv /\ (TypeOK /\ SerialInv)'
      /\ [Next]_vars
      => [Step]_vars
  <2>. SUFFICES ASSUME TypeOK, TypeOK', SerialInv, [Next]_vars,
                       NEW w \in Workers, Ends(w),
                       NEW u \in UserIds, NEW x \in Effective(u)'
                PROVE  x \in Effective(u) \/ x \in MayGrant(w)
    OBVIOUS
  <2>1. Reaches(u, x)'
    BY EffectiveIsReachNext DEF TypeOK
  <2>2. Reaches(u, x) \/ x \in MayGrant(w)
    BY <2>1, EndsBySecondStep, EndGrantsOnlyHeld
  <2>. QED  BY <2>2, EffectiveIsReach DEF TypeOK
<1>2. Spec => [](TypeOK /\ SerialInv)
  BY SerialInvariant
<1>3. Spec => [][Step]_vars
  BY <1>1, <1>2, PTL DEF Spec
<1>. QED  BY <1>3 DEF GrantsAreHeld

-----------------------------------------------------------------------------
(* Tenants.  The check of _get_user_in_scope is made on the row that is      *)
(* read, the writes name a key: with one thread the key still has that row. *)

ScopeHolds(r) ==
  r.op \in {"update_user", "delete_user", "assign_role", "unassign_role"} =>
    UserInScope(r.by, r.user)

InScope == \A w \in Workers : ScopeHolds(req[w])

LEMMA BeginInScope ==
  ASSUME TypeOK, NEW w, Workers = {w}, UserHandlers(w) \/ RoleHandlers(w)
  PROVE  InScope'
<1>1. ASSUME NEW e, NEW r, Begin(w, e, r), ScopeHolds(r) PROVE InScope'
  <2>1. req'[w] = r
    BY <1>1 DEF Begin, TypeOK
  <2>2. ScopeHolds(r)'
    BY <1>1 DEF Begin, tables, ScopeHolds, UserInScope, Rows, IsCreator
  <2>. QED  BY <2>1, <2>2 DEF InScope
<1>2. CASE UserHandlers(w)
  <2>1. ASSUME NEW name \in Names, Signup(w, name) PROVE InScope'
    BY <1>1, <2>1 DEF Signup, ScopeHolds
  <2>2. ASSUME NEW s \in Sessions, NEW row \in NewUsers, CreateUser(w, s, row)
        PROVE  InScope'
    BY <1>1, <2>2 DEF CreateUser, ScopeHolds
  <2>3. ASSUME NEW s \in Sessions, NEW u \in UserIds, Login(w, s, u)
        PROVE  InScope'
    BY <1>1, <2>3 DEF Login, ScopeHolds
  <2>4. ASSUME NEW s \in Sessions, NEW u \in UserIds, NEW set \in Patches,
               UpdateUser(w, s, u, set)
        PROVE  InScope'
    BY <1>1, <2>4 DEF UpdateUser, ScopeHolds
  <2>5. ASSUME NEW s \in Sessions, NEW u \in UserIds, DeleteUser(w, s, u)
        PROVE  InScope'
    BY <1>1, <2>5 DEF DeleteUser, ScopeHolds
  <2>6. ASSUME NEW s \in Sessions, NEW u \in UserIds, NEW r \in RoleIds,
               AssignRole(w, s, u, r) \/ UnassignRole(w, s, u, r)
        PROVE  InScope'
    BY <1>1, <2>6 DEF AssignRole, UnassignRole, ScopeHolds
  <2>. QED  BY <1>2, <2>1, <2>2, <2>3, <2>4, <2>5, <2>6 DEF UserHandlers
<1>3. CASE RoleHandlers(w)
  BY <1>1, <1>3
     DEF RoleHandlers, CreateRole, UpdateRole, DeleteRole, AttachPermission,
         DetachPermission, CreatePermission, DeletePermission, ScopeHolds
<1>. QED  BY <1>2, <1>3

LEMMA InScopeInvariant ==
  ASSUME NEW w, Workers = {w}
  PROVE  Spec => [](TypeOK /\ InScope)
<1>1. Init => InScope
  BY DEF Init, InScope, ScopeHolds, Idle
<1>2. TypeOK /\ InScope /\ [Next]_vars => InScope'
  <2>. SUFFICES ASSUME TypeOK, InScope, [Next]_vars PROVE InScope'
    OBVIOUS
  <2>1. CASE UNCHANGED <<tables, req>>
    BY <2>1 DEF tables, InScope, ScopeHolds, UserInScope, Rows, IsCreator
  <2>2. ASSUME Done(w) PROVE InScope'
    <3>1. req'[w] = Idle
      BY <2>2 DEF Done, TypeOK
    <3>. QED  BY <3>1 DEF InScope, ScopeHolds, Idle
  <2>. QED
    BY <2>1, <2>2, BeginInScope, SecondStepsEnd DEF Next, Tick, vars, tables
<1>. QED  BY <1>1, <1>2, TypeCorrect, PTL DEF Spec

(* What one second step of a caller without the level of a creator writes.  *)
LEMMA EndStaysInTenant ==
  ASSUME TypeOK, NoDanglingLinks, NEW w \in Workers, ScopeHolds(req[w]),
         Commit(w) \/ Fail(w), Caused(w) # Nil, ~ActsAsCreator(w),
         NEW u \in Rows(users), users[u].tenant # Caused(w).tenant
  PROVE  /\ users'[u] = users[u]
         /\ RolesOf(u)' = RolesOf(u) \cap Rows(roles')
<1>. TablesTypeOK /\ req[w] \in Request
  BY DEF TypeOK
<1>. Caused(w) = req[w].by /\ ~IsCreator(req[w].by)
  BY DEF Caused, ActsAsCreator
<1>. DEFINE PairsStay ==
              \A r \in Rows(roles') :
                <<u, r>> \in userRoles' <=> <<u, r>> \in userRoles
            Stays == users'[u] = users[u] /\ PairsStay
<1>1. ASSUME req[w].op \in
               {"update_user", "delete_user", "assign_role", "unassign_role"}
      PROVE  u # req[w].user
  BY <1>1 DEF ScopeHolds, UserInScope
<1>2. ASSUME CommitSignup(w) \/ CommitCreateUser(w) PROVE Stays
  <2>1. PICK v \in UserIds : IsNextId(users, v)
                              /\ users' = [users EXCEPT ![v] = req[w].row]
    BY <1>2 DEF CommitSignup, CommitCreateUser, InsertUser
  <2>2. v \notin Rows(users)
    BY <2>1, KeysAssumption DEF IsNextId, Rows, TablesTypeOK
  <2>3. UNCHANGED userRoles
    BY <1>2 DEF CommitSignup, CommitCreateUser, InsertUser
  <2>. QED  BY <2>1, <2>2, <2>3 DEF Rows, TablesTypeOK
<1>3. ASSUME CommitUpdateUser(w) PROVE Stays
  BY <1>1, <1>3 DEF CommitUpdateUser, Serving, Rows, TablesTypeOK
<1>4. ASSUME CommitDeleteUser(w) PROVE Stays
  BY <1>1, <1>4 DEF CommitDeleteUser, Serving, Rows, TablesTypeOK
<1>5. ASSUME CommitAssignRole(w) \/ CommitUnassignRole(w) PROVE Stays
  BY <1>1, <1>5 DEF CommitAssignRole, CommitUnassignRole, Serving
<1>6. ASSUME CommitDeleteRole(w) PROVE Stays
  <2>1. /\ UNCHANGED users
        /\ userRoles' = userRoles \ (req[w].users \X {req[w].role})
        /\ roles' = [roles EXCEPT ![req[w].role] = Nil]
    BY <1>6 DEF CommitDeleteRole
  <2>2. \A r \in Rows(roles') : r # req[w].role
    BY <2>1 DEF Rows, TablesTypeOK
  <2>. QED  BY <2>1, <2>2
<1>7. ASSUME UNCHANGED <<users, userRoles>> PROVE Stays
  BY <1>7
<1>8. Stays
  <2>. HIDE DEF Stays
  <2>. QED
    BY <1>2, <1>3, <1>4, <1>5, <1>6, <1>7
       DEF Commit, Fail, CommitLogin, CommitCreateRole, CommitUpdateRole,
           CommitAttachPermission, CommitDetachPermission,
           CommitCreatePermission, CommitDeletePermission, tables
<1>9. \A r : <<u, r>> \in userRoles => r \in Rows(roles)
  BY DEF NoDanglingLinks
<1>. QED  BY <1>8, <1>9 DEF RolesOf

(* Without overlapping handlers an admin leaves the rows of other tenants   *)
(* as they are, and gives and takes there no role that goes on existing,    *)
(* whatever accounts were moved, deleted or given a used key before, and    *)
(* whatever roles were deleted or given one.                                *)
THEOREM SerialWritesStayInTenant ==
  ASSUME NEW t, Workers = {t}
  PROVE  Spec => WritesStayInTenant
<1>. DEFINE Step ==
       \A w \in Workers : Ends(w) /\ Caused(w) # Nil /\ ~ActsAsCreator(w) =>
         \A u \in Rows(users) :
           users[u].tenant # Caused(w).tenant =>
             /\ users'[u] = users[u]
             /\ RolesOf(u)' = RolesOf(u) \cap Rows(roles')
<1>1. TypeOK /\ InScope /\ NoDanglingLinks /\ [Next]_vars => [Step]_vars
  BY EndsBySecondStep, EndStaysInTenant DEF InScope
<1>2. Spec => [](TypeOK /\ InScope)
  BY InScopeInvariant
<1>3. Spec => []NoDanglingLinks
  BY SerialLeavesNoDanglingLinks
<1>4. Spec => [][Step]_vars
  BY <1>1, <1>2, <1>3, PTL DEF Spec
<1>. QED  BY <1>4 DEF WritesStayInTenant

-----------------------------------------------------------------------------
(* Tokens: StalenessIsBounded for every lifetime, any number of threads and *)
(* any tables.  The invariant counts down with the token: one with ttl      *)
(* ticks left speaks of a power held at most TOKEN_MINUTES - ttl ticks ago, *)
(* and a login in flight of one held in this very tick.                     *)

SinceTypeOK == since \in [Names -> [Powers -> 0 .. Never]]

HistoryFollows ==
  \A n \in Names, x \in Powers : HasPower(n, x) => since[n][x] = 0

LoginsAreFresh ==
  \A w \in Workers : req[w].op = "login" =>
    \A x \in Powers :
      x \in req[w].claims.perms \cup {req[w].claims.level} =>
        since[req[w].claims.sub][x] = 0

TokensCountDown ==
  \A s \in Sessions : token[s] # Nil =>
    \A x \in Powers :
      Carries(token[s], x) =>
        since[token[s].claims.sub][x] + token[s].ttl <= TOKEN_MINUTES

WindowInv == SinceTypeOK /\ HistoryFollows /\ LoginsAreFresh /\ TokensCountDown

LEMMA WindowRefinesSpec == WindowSpec => Spec
<1>1. WindowInit => Init
  BY DEF WindowInit
<1>2. [WindowNext]_windowVars => [Next]_vars
  BY DEF WindowNext, Next, windowVars
<1>. QED  BY <1>1, <1>2, PTL DEF WindowSpec, Spec

LEMMA FollowType ==
  ASSUME SinceTypeOK, NEW k \in Nat, Follow(k)
  PROVE  /\ SinceTypeOK'
         /\ HistoryFollows'
         /\ \A n \in Names, x \in Powers : since'[n][x] <= since[n][x] + k
<1>. Never \in Nat
  BY TtlAssumption DEF Never
<1>. QED  BY DEF Follow, SinceTypeOK, HistoryFollows

(* A login reads powers the name has as it reads them.                      *)
LEMMA LoginReadsPowers ==
  ASSUME NEW u \in Rows(users), NEW x,
         x \in ClaimsOf(u).perms \cup {ClaimsOf(u).level}
  PROVE  HasPower(ClaimsOf(u).sub, x)
BY DEF ClaimsOf, HasPower

LEMMA WindowInitially == WindowInit => WindowInv
<1>. SUFFICES ASSUME WindowInit PROVE WindowInv
  OBVIOUS
<1>1. SinceTypeOK /\ HistoryFollows
  BY TtlAssumption DEF WindowInit, SinceTypeOK, HistoryFollows, Never
<1>2. LoginsAreFresh /\ TokensCountDown
  BY DEF WindowInit, Init, LoginsAreFresh, TokensCountDown, Idle
<1>. QED  BY <1>1, <1>2 DEF WindowInv

(* The powers in question are those of a name.                              *)
LEMMA SubIsName ==
  ASSUME TypeOK
  PROVE  /\ \A s \in Sessions : token[s] # Nil =>
              token[s].claims.sub \in Names /\ token[s].ttl \in Nat
         /\ \A w \in Workers : req[w].op = "login" =>
              req[w].claims.sub \in Names /\ req[w].session \in Sessions
<1>1. \A w \in Workers : req[w] \in Request
  BY DEF TypeOK
<1>. QED
  BY <1>1, RequestShape, TtlAssumption DEF TypeOK, Token, Claims

LEMMA WindowNextStep ==
  TypeOK /\ WindowInv /\ [WindowNext]_windowVars => WindowInv'
<1>. SUFFICES ASSUME TypeOK, WindowInv, [WindowNext]_windowVars PROVE WindowInv'
  OBVIOUS
<1>. SinceTypeOK /\ HistoryFollows /\ LoginsAreFresh /\ TokensCountDown
  BY DEF WindowInv
<1>. \A n \in Names, x \in Powers : since[n][x] \in Nat
  BY TtlAssumption DEF SinceTypeOK, Never
<1>1. ASSUME Follow(0), UNCHANGED token PROVE TokensCountDown'
  <2>1. /\ SinceTypeOK'
        /\ \A n \in Names, x \in Powers : since'[n][x] <= since[n][x]
    BY <1>1, FollowType
  <2>2. \A n \in Names, x \in Powers : since'[n][x] \in Nat
    BY <2>1, TtlAssumption DEF SinceTypeOK, Never
  <2>. SUFFICES ASSUME NEW s \in Sessions, token'[s] # Nil, NEW x \in Powers,
                       Carries(token'[s], x)
                PROVE  since'[token'[s].claims.sub][x] + token'[s].ttl
                         <= TOKEN_MINUTES
    BY DEF TokensCountDown
  <2>3. token'[s] = token[s] /\ token[s] # Nil
    BY <1>1
  <2>4. /\ token[s].claims.sub \in Names /\ token[s].ttl \in Nat
        /\ since[token[s].claims.sub][x] + token[s].ttl <= TOKEN_MINUTES
    BY <2>3, SubIsName DEF TokensCountDown
  <2>. QED  BY <2>1, <2>2, <2>3, <2>4, TtlAssumption
<1>2. ASSUME Follow(0), NEW w \in Workers, NEW r, req' = [req EXCEPT ![w] = r],
             r.op = "login" =>
               \A x \in Powers : x \in r.claims.perms \cup {r.claims.level} =>
                 since'[r.claims.sub][x] = 0
      PROVE  LoginsAreFresh'
  <2>1. /\ SinceTypeOK'
        /\ \A n \in Names, x \in Powers : since'[n][x] <= since[n][x]
    BY <1>2, FollowType
  <2>2. \A n \in Names, x \in Powers : since'[n][x] \in Nat
    BY <2>1, TtlAssumption DEF SinceTypeOK, Never
  <2>. SUFFICES ASSUME NEW v \in Workers, req'[v].op = "login",
                       NEW x \in Powers,
                       x \in req'[v].claims.perms \cup {req'[v].claims.level}
                PROVE  since'[req'[v].claims.sub][x] = 0
    BY DEF LoginsAreFresh
  <2>3. CASE v = w
    BY <1>2, <2>3 DEF TypeOK
  <2>4. CASE v # w
    <3>1. req'[v] = req[v]
      BY <1>2, <2>4 DEF TypeOK
    <3>2. since[req[v].claims.sub][x] = 0 /\ req[v].claims.sub \in Names
      BY <3>1, SubIsName DEF LoginsAreFresh
    <3>. QED  BY <2>1, <2>2, <3>1, <3>2
  <2>. QED  BY <2>3, <2>4
<1>3. ASSUME NEW w \in Workers, UserHandlers(w) \/ RoleHandlers(w), Follow(0)
      PROVE  WindowInv'
  <2>1. SinceTypeOK' /\ HistoryFollows' /\ TokensCountDown'
    BY <1>1, <1>3, FollowType, FirstStepsKeepTables
  <2>2. ASSUME NEW e, NEW r, Begin(w, e, r), r.op # "login"
        PROVE  LoginsAreFresh'
    BY <1>2, <1>3, <2>2 DEF Begin
  <2>3. ASSUME NEW s \in Sessions, NEW u \in UserIds, Login(w, s, u)
        PROVE  LoginsAreFresh'
    <3>. DEFINE c == ClaimsOf(u)
    <3>1. u \in Rows(users) /\ UNCHANGED tables
      BY <2>3 DEF Login, Begin
    <3>2. c \in Claims
      BY <3>1, ClaimsType DEF TypeOK
    <3>3. \A x \in Powers : x \in c.perms \cup {c.level} => since'[c.sub][x] = 0
      <4>. SUFFICES ASSUME NEW x \in Powers, x \in c.perms \cup {c.level}
                    PROVE  since'[c.sub][x] = 0
        OBVIOUS
      <4>1. since[c.sub][x] = 0 /\ c.sub \in Names
        BY <3>1, <3>2, LoginReadsPowers DEF HistoryFollows, Claims
      <4>2. since'[c.sub][x] <= 0
        BY <1>3, <4>1, FollowType
      <4>. QED
        BY <2>1, <4>1, <4>2, TtlAssumption DEF SinceTypeOK, Never
    <3>. QED  BY <1>2, <1>3, <2>3, <3>3 DEF Login, Begin
  <2>4. LoginsAreFresh'
    <3>1. CASE RoleHandlers(w)
      BY <2>2, <3>1
         DEF RoleHandlers, CreateRole, UpdateRole, DeleteRole, AttachPermission,
             DetachPermission, CreatePermission, DeletePermission
    <3>2. CASE UserHandlers(w)
      BY <2>2, <2>3, <3>2
         DEF UserHandlers, Signup, CreateUser, UpdateUser, DeleteUser,
             AssignRole, UnassignRole
    <3>. QED  BY <1>3, <3>1, <3>2
  <2>. QED  BY <2>1, <2>4 DEF WindowInv
<1>4. ASSUME NEW w \in Workers, Commit(w) \/ Fail(w), Follow(0)
      PROVE  WindowInv'
  <2>1. SinceTypeOK' /\ HistoryFollows'
    BY <1>4, FollowType
  <2>2. LoginsAreFresh'
    BY <1>2, <1>4, SecondStepsEnd DEF Done, Idle
  <2>3. TokensCountDown'
    <3>1. CASE CommitLogin(w)
      <4>. SUFFICES ASSUME NEW s \in Sessions, token'[s] # Nil,
                           NEW x \in Powers,
                           Carries(token'[s], x)
                    PROVE  since'[token'[s].claims.sub][x] + token'[s].ttl
                             <= TOKEN_MINUTES
        BY DEF TokensCountDown
      <4>1. /\ SinceTypeOK'
            /\ \A n \in Names, y \in Powers : since'[n][y] <= since[n][y]
        BY <1>4, FollowType
      <4>2. \A n \in Names, y \in Powers : since'[n][y] \in Nat
        BY <4>1, TtlAssumption DEF SinceTypeOK, Never
      <4>3. CASE s = req[w].session
        <5>1. token'[s] = [claims |-> req[w].claims, ttl |-> TOKEN_MINUTES]
          BY <3>1, <4>3 DEF CommitLogin, TypeOK
        <5>2. since[req[w].claims.sub][x] = 0 /\ req[w].claims.sub \in Names
          BY <3>1, <5>1, SubIsName
             DEF CommitLogin, Serving, LoginsAreFresh, Carries
        <5>. QED  BY <4>1, <4>2, <5>1, <5>2, TtlAssumption
      <4>4. CASE s # req[w].session
        <5>1. token'[s] = token[s]
          BY <3>1, <4>4 DEF CommitLogin, TypeOK
        <5>. QED
          BY <4>1, <4>2, <5>1, SubIsName, TtlAssumption DEF TokensCountDown
      <4>. QED  BY <4>3, <4>4
    <3>2. CASE UNCHANGED token
      BY <1>1, <1>4, <3>2
    <3>. QED
      BY <1>4, <3>1, <3>2 DEF Commit, Fail, CommitSignup, CommitCreateUser,
         InsertUser, CommitUpdateUser, CommitDeleteUser, CommitAssignRole,
         CommitUnassignRole, CommitCreateRole, CommitUpdateRole,
         CommitDeleteRole, CommitAttachPermission, CommitDetachPermission,
         CommitCreatePermission, CommitDeletePermission
  <2>. QED  BY <2>1, <2>2, <2>3 DEF WindowInv
<1>5. CASE Tick /\ Follow(1)
  <2>1. SinceTypeOK' /\ HistoryFollows'
        /\ \A n \in Names, x \in Powers : since'[n][x] <= since[n][x] + 1
    BY <1>5, FollowType
  <2>2. \A n \in Names, x \in Powers : since'[n][x] \in Nat
    BY <2>1, TtlAssumption DEF SinceTypeOK, Never
  <2>3. LoginsAreFresh'
    BY <1>5 DEF Tick, LoginsAreFresh, Idle
  <2>4. TokensCountDown'
    <3>. SUFFICES ASSUME NEW s \in Sessions, token'[s] # Nil, NEW x \in Powers,
                         Carries(token'[s], x)
                  PROVE  since'[token'[s].claims.sub][x] + token'[s].ttl
                           <= TOKEN_MINUTES
      BY DEF TokensCountDown
    <3>1. /\ token[s] # Nil /\ token[s] \in Token
          /\ token'[s] = [token[s] EXCEPT !.ttl = @ - 1]
      BY <1>5 DEF Tick, TypeOK
    <3>2. /\ token'[s].claims = token[s].claims
          /\ token'[s].ttl = token[s].ttl - 1
          /\ token[s].claims.sub \in Names /\ token[s].ttl \in Nat
      BY <3>1, SubIsName DEF Token
    <3>3. since[token[s].claims.sub][x] + token[s].ttl <= TOKEN_MINUTES
      BY <3>1, <3>2 DEF TokensCountDown, Carries
    <3>. QED  BY <2>1, <2>2, <3>2, <3>3, TtlAssumption
  <2>. QED  BY <2>1, <2>3, <2>4 DEF WindowInv
<1>6. CASE UNCHANGED windowVars
  <2>1. \A n \in Names, x \in Powers : HasPower(n, x)' = HasPower(n, x)
    BY <1>6 DEF windowVars, vars, HasPower, EffectivePermissions,
       PermNamesOf, PermsOf, RolesOf, Rows
  <2>2. SinceTypeOK' /\ HistoryFollows'
    BY <1>6, <2>1 DEF windowVars, SinceTypeOK, HistoryFollows
  <2>3. LoginsAreFresh' /\ TokensCountDown'
    BY <1>6 DEF windowVars, vars, LoginsAreFresh, TokensCountDown
  <2>. QED  BY <2>2, <2>3 DEF WindowInv
<1>. QED  BY <1>3, <1>4, <1>5, <1>6 DEF WindowNext

(* Whoever presents a live token held each power it carries no more than    *)
(* TOKEN_MINUTES ticks ago.                                                 *)
THEOREM TokensExpire == WindowSpec => []StalenessIsBounded
<1>1. WindowSpec => []TypeOK
  BY WindowRefinesSpec, TypeCorrect, PTL
<1>2. TypeOK /\ WindowInv => StalenessIsBounded
  <2>. SUFFICES ASSUME TypeOK, WindowInv, NEW s \in Sessions, token[s] # Nil,
                       NEW x \in Powers, Carries(token[s], x)
                PROVE  since[token[s].claims.sub][x] <= TOKEN_MINUTES
    BY DEF StalenessIsBounded
  <2>1. since[token[s].claims.sub][x] + token[s].ttl <= TOKEN_MINUTES
    BY DEF WindowInv, TokensCountDown
  <2>2. since[token[s].claims.sub][x] \in Nat /\ token[s].ttl \in Nat
    BY SubIsName, TtlAssumption DEF WindowInv, SinceTypeOK, Never
  <2>. QED  BY <2>1, <2>2, TtlAssumption
<1>. QED
  BY <1>1, <1>2, WindowInitially, WindowNextStep, PTL DEF WindowSpec

-----------------------------------------------------------------------------
(* Restarts.  What a restart inserts goes under keys that no row has, and a *)
(* key that no row has is in no pair: so what is there keeps what it has.   *)

LEMMA InsertedIsNew ==
  ASSUME NEW table, DOMAIN table \in SUBSET Nat, IsFiniteSet(DOMAIN table),
         NEW missing, IsFiniteSet(missing), NEW f \in Inserted(table, missing)
  PROVE  /\ DOMAIN f \subseteq DOMAIN table
         /\ DOMAIN f \cap Rows(table) = {}
         /\ \A i \in DOMAIN f : f[i] \in missing
<1>. DEFINE n == Cardinality(missing)
            known == Rows(table) \cup {0}
            last == CHOOSE i \in known : \A j \in Rows(table) : j <= i
            keys == (last + 1) .. (last + n)
<1>1. known \in SUBSET Int /\ IsFiniteSet(known) /\ 0 \in known
  <2>1. Rows(table) \subseteq DOMAIN table
    BY DEF Rows
  <2>2. IsFiniteSet(Rows(table))
    BY <2>1, FS_Subset
  <2>3. IsFiniteSet(known)
    BY <2>2, FS_AddElement
  <2>. QED  BY <2>1, <2>3
<1>2. \E i \in known : \A j \in Rows(table) : j <= i
  <2>1. PICK m \in known : \A y \in known : y <= m
    BY <1>1, GreatestExists
  <2>. QED  BY <2>1
<1>3. last \in known /\ \A j \in Rows(table) : j <= last
  BY <1>2
<1>4. n \in Nat
  BY FS_CardinalityType
<1>5. keys \subseteq DOMAIN table /\ f \in Bijection(keys, missing)
  BY DEF Inserted
<1>6. f \in [keys -> missing]
  BY <1>5 DEF Bijection, Injection
<1>. HIDE DEF last, n
<1>7. \A i \in keys : i > last
  BY <1>1, <1>3, <1>4
<1>8. keys \cap Rows(table) = {}
  <2>. SUFFICES ASSUME NEW i \in keys, i \in Rows(table) PROVE FALSE
    OBVIOUS
  <2>1. i <= last /\ i > last /\ i \in Int /\ last \in Int
    BY <1>1, <1>3, <1>7 DEF Rows
  <2>. QED  BY <2>1
<1>. QED  BY <1>5, <1>6, <1>8

(* A restart, by the rows it makes.                                         *)
LEMMA RestartMakes ==
  ASSUME TypeOK, Restart
  PROVE  /\ \E newPerms :
              /\ DOMAIN newPerms \subseteq PermIds \ Rows(perms)
              /\ \A p \in DOMAIN newPerms : newPerms[p] \in MissingPermissions
              /\ perms' = WithRows(perms, newPerms)
         /\ \E newRoles, newUsers :
              /\ DOMAIN newRoles \subseteq RoleIds \ Rows(roles)
              /\ DOMAIN newUsers \subseteq UserIds \ Rows(users)
              /\ \A r \in DOMAIN newRoles : newRoles[r] \in MissingRoles
              /\ \A u \in DOMAIN newUsers : newUsers[u] \in DOMAIN DEMO_USERS
              /\ roles' = WithRows(roles, newRoles)
              /\ users' = WithRows(users,
                            [u \in DOMAIN newUsers |-> DEMO_USERS[newUsers[u]]])
              /\ rolePerms' = rolePerms \cup Wired(newRoles)
              /\ userRoles' =
                   userRoles \cup Roled(newUsers) \cup Granted(newRoles)
<1>. TablesTypeOK
  BY DEF TypeOK
<1>1. /\ DOMAIN roles = RoleIds /\ DOMAIN users = UserIds
      /\ DOMAIN perms = PermIds
  BY DEF TablesTypeOK
<1>2. /\ IsFiniteSet(MissingRoles) /\ IsFiniteSet(MissingUsers)
      /\ IsFiniteSet(MissingPermissions)
      /\ MissingUsers \subseteq DOMAIN DEMO_USERS
  BY StandardsAssumption, FS_Subset
     DEF MissingRoles, MissingUsers, MissingPermissions
<1>3. PICK newPerms \in Inserted(perms, MissingPermissions) :
        perms' = WithRows(perms, newPerms)
  BY DEF Restart
<1>4. PICK newRoles \in Inserted(roles, MissingRoles),
           newUsers \in Inserted(users, MissingUsers) :
        /\ roles' = WithRows(roles, newRoles)
        /\ users' = WithRows(users,
                      [u \in DOMAIN newUsers |-> DEMO_USERS[newUsers[u]]])
        /\ rolePerms' = rolePerms \cup Wired(newRoles)
        /\ userRoles' = userRoles \cup Roled(newUsers) \cup Granted(newRoles)
  BY DEF Restart
<1>5. /\ DOMAIN newPerms \subseteq PermIds \ Rows(perms)
      /\ \A p \in DOMAIN newPerms : newPerms[p] \in MissingPermissions
  BY <1>1, <1>2, InsertedIsNew, KeysAssumption
<1>6. /\ DOMAIN newRoles \subseteq RoleIds \ Rows(roles)
      /\ \A r \in DOMAIN newRoles : newRoles[r] \in MissingRoles
  BY <1>1, <1>2, InsertedIsNew, KeysAssumption
<1>7. /\ DOMAIN newUsers \subseteq UserIds \ Rows(users)
      /\ \A u \in DOMAIN newUsers : newUsers[u] \in DOMAIN DEMO_USERS
  BY <1>1, <1>2, InsertedIsNew, KeysAssumption
<1>. QED  BY <1>3, <1>4, <1>5, <1>6, <1>7

(* Rows that are made are added to those that are there.                    *)
LEMMA RowsAdded ==
  ASSUME NEW table, NEW made, DOMAIN made \subseteq DOMAIN table \ Rows(table),
         \A i \in DOMAIN made : made[i] # Nil
  PROVE  /\ Rows(WithRows(table, made)) = Rows(table) \cup DOMAIN made
         /\ \A i \in Rows(table) : WithRows(table, made)[i] = table[i]
         /\ \A i \in DOMAIN made : WithRows(table, made)[i] = made[i]
BY DEF Rows, WithRows

(* What a restart does to the tables: the rows it makes, and the links of   *)
(* these and of no other rows, but for the roles that go to a name.         *)
LEMMA RestartAdds ==
  ASSUME TypeOK, Restart
  PROVE  /\ TypeOK'
         /\ Rows(perms) \subseteq Rows(perms')
         /\ \A p \in Rows(perms) : perms'[p] = perms[p]
         /\ \E newRoles, newUsers :
              /\ DOMAIN newRoles \cap Rows(roles) = {}
              /\ DOMAIN newUsers \cap Rows(users) = {}
              /\ \A r \in DOMAIN newRoles : newRoles[r] \in MissingRoles
              /\ Rows(roles') = Rows(roles) \cup DOMAIN newRoles
              /\ Rows(users') = Rows(users) \cup DOMAIN newUsers
              /\ \A r \in Rows(roles) : roles'[r] = roles[r]
              /\ \A u \in Rows(users) : users'[u] = users[u]
              /\ rolePerms' = rolePerms \cup Wired(newRoles)
              /\ Wired(newRoles) \subseteq (DOMAIN newRoles) \X Rows(perms')
              /\ userRoles' =
                   userRoles \cup Roled(newUsers) \cup Granted(newRoles)
              /\ Roled(newUsers) \subseteq (DOMAIN newUsers) \X Rows(roles')
              /\ Granted(newRoles) \subseteq Rows(users') \X (DOMAIN newRoles)
<1>. TablesTypeOK
  BY DEF TypeOK
<1>1. PICK newPerms :
        /\ DOMAIN newPerms \subseteq PermIds \ Rows(perms)
        /\ \A p \in DOMAIN newPerms : newPerms[p] \in MissingPermissions
        /\ perms' = WithRows(perms, newPerms)
  BY RestartMakes
<1>2. PICK newRoles, newUsers :
        /\ DOMAIN newRoles \subseteq RoleIds \ Rows(roles)
        /\ DOMAIN newUsers \subseteq UserIds \ Rows(users)
        /\ \A r \in DOMAIN newRoles : newRoles[r] \in MissingRoles
        /\ \A u \in DOMAIN newUsers : newUsers[u] \in DOMAIN DEMO_USERS
        /\ roles' = WithRows(roles, newRoles)
        /\ users' = WithRows(users,
                      [u \in DOMAIN newUsers |-> DEMO_USERS[newUsers[u]]])
        /\ rolePerms' = rolePerms \cup Wired(newRoles)
        /\ userRoles' = userRoles \cup Roled(newUsers) \cup Granted(newRoles)
  BY RestartMakes
<1>3. /\ \A p \in DOMAIN newPerms : newPerms[p] \in PermNames /\ newPerms[p] # Nil
      /\ \A r \in DOMAIN newRoles : newRoles[r] \in RoleNames /\ newRoles[r] # Nil
  BY <1>1, <1>2, StandardsAssumption, NilAssumption
     DEF MissingPermissions, MissingRoles
<1>4. DEFINE made == [u \in DOMAIN newUsers |-> DEMO_USERS[newUsers[u]]]
<1>5. \A u \in DOMAIN newUsers : made[u] \in UserRow /\ made[u] # Nil
  BY <1>2, StandardsAssumption, NilAssumption
<1>6. DOMAIN made = DOMAIN newUsers
  OBVIOUS
<1>. HIDE DEF made
<1>7. /\ DOMAIN roles = RoleIds /\ DOMAIN users = UserIds
      /\ DOMAIN perms = PermIds
  BY DEF TablesTypeOK
<1>8. /\ Rows(perms') = Rows(perms) \cup DOMAIN newPerms
      /\ \A p \in Rows(perms) : perms'[p] = perms[p]
  BY <1>1, <1>3, <1>7, RowsAdded
<1>9. /\ Rows(roles') = Rows(roles) \cup DOMAIN newRoles
      /\ \A r \in Rows(roles) : roles'[r] = roles[r]
  BY <1>2, <1>3, <1>7, RowsAdded
<1>10. /\ Rows(users') = Rows(users) \cup DOMAIN newUsers
       /\ \A u \in Rows(users) : users'[u] = users[u]
  <2>1. users' = WithRows(users, made)
    BY <1>2 DEF made
  <2>2. /\ DOMAIN made \subseteq DOMAIN users \ Rows(users)
        /\ \A i \in DOMAIN made : made[i] # Nil
    BY <1>2, <1>5, <1>6, <1>7
  <2>3. /\ Rows(WithRows(users, made)) = Rows(users) \cup DOMAIN made
        /\ \A u \in Rows(users) : WithRows(users, made)[u] = users[u]
    BY <2>2, RowsAdded
  <2>. QED  BY <1>6, <2>1, <2>3
<1>11. /\ Wired(newRoles) \subseteq (DOMAIN newRoles) \X Rows(perms')
       /\ Roled(newUsers) \subseteq (DOMAIN newUsers) \X Rows(roles')
       /\ Granted(newRoles) \subseteq Rows(users') \X (DOMAIN newRoles)
  BY DEF Wired, Roled, Granted
<1>12. TypeOK'
  <2>1. perms' \in [PermIds -> PermNames \cup {Nil}]
    BY <1>1, <1>3, <1>7 DEF WithRows, TablesTypeOK
  <2>2. roles' \in [RoleIds -> RoleNames \cup {Nil}]
    BY <1>2, <1>3, <1>7 DEF WithRows, TablesTypeOK
  <2>3. users' \in [UserIds -> UserRow \cup {Nil}]
    <3>1. users' = WithRows(users, made)
      BY <1>2 DEF made
    <3>. QED  BY <1>5, <1>6, <1>7, <3>1 DEF WithRows, TablesTypeOK
  <2>4. Rows(perms') \subseteq PermIds /\ Rows(roles') \subseteq RoleIds
        /\ Rows(users') \subseteq UserIds
    BY <2>1, <2>2, <2>3 DEF Rows
  <2>5. rolePerms' \subseteq RoleIds \X PermIds
    BY <1>2, <1>11, <2>4 DEF TablesTypeOK
  <2>6. userRoles' \subseteq UserIds \X RoleIds
    BY <1>2, <1>11, <2>4 DEF TablesTypeOK
  <2>. QED  BY <2>1, <2>2, <2>3, <2>5, <2>6 DEF TypeOK, TablesTypeOK, Restart
<1>. QED  BY <1>2, <1>8, <1>9, <1>10, <1>11, <1>12

LEMMA RestartSerial ==
  ASSUME TypeOK, SerialInv, Restart
  PROVE  SerialInv'
<1>. AtLeastOneCreator /\ NoDanglingLinks
  BY DEF SerialInv
<1>1. PICK newRoles, newUsers :
        /\ Rows(roles') = Rows(roles) \cup DOMAIN newRoles
        /\ Rows(users') = Rows(users) \cup DOMAIN newUsers
        /\ \A u \in Rows(users) : users'[u] = users[u]
        /\ rolePerms' = rolePerms \cup Wired(newRoles)
        /\ Wired(newRoles) \subseteq (DOMAIN newRoles) \X Rows(perms')
        /\ userRoles' = userRoles \cup Roled(newUsers) \cup Granted(newRoles)
        /\ Roled(newUsers) \subseteq (DOMAIN newUsers) \X Rows(roles')
        /\ Granted(newRoles) \subseteq Rows(users') \X (DOMAIN newRoles)
  BY RestartAdds
<1>2. Rows(perms) \subseteq Rows(perms')
  BY RestartAdds
<1>3. AtLeastOneCreator'
  BY <1>1 DEF AtLeastOneCreator, Creators
<1>4. userRoles' \subseteq Rows(users') \X Rows(roles')
  BY <1>1 DEF NoDanglingLinks
<1>5. rolePerms' \subseteq Rows(roles') \X Rows(perms')
  BY <1>1, <1>2 DEF NoDanglingLinks
<1>6. \A w \in Workers : ReadHolds(req[w])'
  <2>1. \A w \in Workers : req'[w] = Idle
    BY DEF Restart
  <2>. QED  BY <2>1 DEF ReadHolds, Idle
<1>. QED  BY <1>3, <1>4, <1>5, <1>6 DEF SerialInv, NoDanglingLinks

LEMMA SeedInvariant ==
  ASSUME NEW w, Workers = {w}
  PROVE  SeedSpec => [](TypeOK /\ SerialInv)
<1>1. TypeOK /\ SerialInv /\ [SeedNext]_vars => (TypeOK /\ SerialInv)'
  <2>. SUFFICES ASSUME TypeOK, SerialInv, [SeedNext]_vars
                PROVE  TypeOK' /\ SerialInv'
    OBVIOUS
  <2>1. CASE [Next]_vars
    BY <2>1, StepType, StepSerial
  <2>2. CASE Restart
    BY <2>2, RestartAdds, RestartSerial
  <2>. QED  BY <2>1, <2>2 DEF SeedNext
<1>. QED  BY <1>1, InitType, InitSerial, PTL DEF SeedSpec

(* Restarts between requests leave no pair without its rows, and leave a    *)
(* creator, whatever was deleted or given a used key before.                *)
THEOREM RestartsKeepLinks ==
  ASSUME NEW t, Workers = {t}
  PROVE  SeedSpec => [](NoDanglingLinks /\ AtLeastOneCreator)
<1>1. SerialInv => NoDanglingLinks /\ AtLeastOneCreator
  BY DEF SerialInv
<1>2. SeedSpec => [](TypeOK /\ SerialInv)
  BY SeedInvariant
<1>. QED  BY <1>1, <1>2, PTL

LEMMA RestartKeepsEdits ==
  ASSUME TypeOK, SerialInv, Restart
  PROVE  /\ \A u \in Rows(users) :
              /\ users'[u] = users[u]
              /\ RolesOf(u) \subseteq RolesOf(u)'
              /\ Effective(u)' # Effective(u) =>
                   \E n \in MissingRoles : users[u].name \in SEED_ROLE_GRANTS[n]
         /\ \A r \in Rows(roles) :
              roles'[r] = roles[r] /\ PermNamesOf(r)' = PermNamesOf(r)
<1>. TablesTypeOK /\ NoDanglingLinks
  BY DEF TypeOK, SerialInv
<1>. TablesTypeOK'
  BY RestartAdds DEF TypeOK
<1>1. PICK newRoles, newUsers :
        /\ DOMAIN newRoles \cap Rows(roles) = {}
        /\ DOMAIN newUsers \cap Rows(users) = {}
        /\ \A r \in DOMAIN newRoles : newRoles[r] \in MissingRoles
        /\ Rows(roles') = Rows(roles) \cup DOMAIN newRoles
        /\ Rows(users') = Rows(users) \cup DOMAIN newUsers
        /\ \A r \in Rows(roles) : roles'[r] = roles[r]
        /\ \A u \in Rows(users) : users'[u] = users[u]
        /\ rolePerms' = rolePerms \cup Wired(newRoles)
        /\ Wired(newRoles) \subseteq (DOMAIN newRoles) \X Rows(perms')
        /\ userRoles' = userRoles \cup Roled(newUsers) \cup Granted(newRoles)
        /\ Roled(newUsers) \subseteq (DOMAIN newUsers) \X Rows(roles')
        /\ Granted(newRoles) \subseteq Rows(users') \X (DOMAIN newRoles)
  BY RestartAdds
<1>2. /\ Rows(perms) \subseteq Rows(perms')
      /\ \A p \in Rows(perms) : perms'[p] = perms[p]
  BY RestartAdds
<1>3. \A p : \A r \in Rows(roles) : <<r, p>> \in rolePerms' <=> <<r, p>> \in rolePerms
  BY <1>1
<1>4. ASSUME NEW u \in Rows(users) PROVE RolesOf(u) \subseteq RolesOf(u)'
  BY <1>1 DEF RolesOf
<1>5. ASSUME NEW r \in Rows(roles) PROVE PermNamesOf(r)' = PermNamesOf(r)
  <2>1. PermsOf(r)' = PermsOf(r)
    BY <1>2, <1>3 DEF PermsOf, NoDanglingLinks
  <2>2. \A p \in PermsOf(r) : perms'[p] = perms[p]
    BY <1>2 DEF PermsOf
  <2>. QED  BY <2>1, <2>2 DEF PermNamesOf
<1>6. ASSUME NEW u \in Rows(users),
             ~ \E n \in MissingRoles : users[u].name \in SEED_ROLE_GRANTS[n]
      PROVE  Effective(u)' = Effective(u)
  <2>1. \A r : <<u, r>> \notin Granted(newRoles)
    <3>. SUFFICES ASSUME NEW r, <<u, r>> \in Granted(newRoles) PROVE FALSE
      OBVIOUS
    <3>1. r \in DOMAIN newRoles
          /\ users'[u].name \in SEED_ROLE_GRANTS[newRoles[r]]
      BY DEF Granted
    <3>. QED  BY <1>1, <1>6, <3>1
  <2>2. \A r : <<u, r>> \notin Roled(newUsers)
    BY <1>1, <1>6
  <2>3. \A r : <<u, r>> \in userRoles' <=> <<u, r>> \in userRoles
    BY <1>1, <2>1, <2>2
  <2>4. \A r : <<u, r>> \in userRoles => r \in Rows(roles)
    BY DEF NoDanglingLinks
  <2>5. \A p : \A r \in Rows(roles) : <<r, p>> \in rolePerms => p \in Rows(perms)
    BY DEF NoDanglingLinks
  <2>6. \A x : Reaches(u, x)' <=> Reaches(u, x)
    BY <1>1, <1>2, <1>3, <2>3, <2>4, <2>5 DEF Reaches
  <2>. QED  BY <2>6, EffectiveIsReach, EffectiveIsReachNext
<1>. QED  BY <1>1, <1>4, <1>5, <1>6

(* Between requests a restart makes what is missing and touches nothing     *)
(* that is there: whatever was edited, deleted, renamed or given a used key *)
(* since the last start, and for any tables to be seeded.                   *)
THEOREM EditsAreKept ==
  ASSUME NEW t, Workers = {t}
  PROVE  SeedSpec => EditsSurviveRestarts
<1>. DEFINE Kept ==
       Restart =>
         /\ \A u \in Rows(users) :
              /\ users'[u] = users[u]
              /\ RolesOf(u) \subseteq RolesOf(u)'
              /\ Effective(u)' # Effective(u) =>
                   \E n \in MissingRoles : users[u].name \in SEED_ROLE_GRANTS[n]
         /\ \A r \in Rows(roles) :
              roles'[r] = roles[r] /\ PermNamesOf(r)' = PermNamesOf(r)
<1>1. TypeOK /\ SerialInv /\ [SeedNext]_vars => [Kept]_vars
  BY RestartKeepsEdits
<1>2. SeedSpec => [](TypeOK /\ SerialInv)
  BY SeedInvariant
<1>3. SeedSpec => [][Kept]_vars
  BY <1>1, <1>2, PTL DEF SeedSpec
<1>. QED  BY <1>3 DEF EditsSurviveRestarts

==============================================================================
