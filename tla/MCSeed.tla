------------------------------- MODULE MCSeed -------------------------------
(***************************************************************************)
(* Seed for TLC: the creator and one manager, whose role goes to sara when  *)
(* it is made, and to the account of that name when the account is.         *)
(***************************************************************************)
EXTENDS MCAdminApi, Seed

MCStandardRoles == ("manager" :> {"users.write", "roles.write"})

MCRoleGrants == ("manager" :> {"sara"})

MCDemoUsers ==
  [n \in {"creator", "sara"} |->
     Row(n, IF n = "sara" THEN "admin" ELSE "creator", "kb")]

MCDemoRoles == [n \in {"creator", "sara"} |->
                  IF n = "sara" THEN {"manager"} ELSE {}]

=============================================================================
