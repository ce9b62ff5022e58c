---------------------------- MODULE TokenWindow ----------------------------
(***************************************************************************)
(* How long a token outlives what it says.  AdminApi with a history         *)
(* variable: for each username and each power, the ticks since a row of     *)
(* that name last had it, capped once the window is past.                   *)
(***************************************************************************)
EXTENDS AdminApi

VARIABLE since  (* since[n][x], ticks since name n last had power x         *)

windowVars == <<vars, since>>

(* What authorises a request: a level or an effective permission.           *)
Powers == PermNames \cup Levels

HasPower(n, x) ==
  \E u \in Rows(users) :
    users[u].name = n /\ x \in EffectivePermissions(u) \cup {users[u].level}

(* Longer than any window.                                                  *)
Never == TOKEN_MINUTES + 1

WindowInit ==
  /\ Init
  /\ since = [n \in Names |->
                [x \in Powers |-> IF HasPower(n, x) THEN 0 ELSE Never]]

(* The history follows the step: zero while the power is held, one more for *)
(* a tick without it.                                                       *)
Follow(elapsed) ==
  since' = [n \in Names |-> [x \in Powers |->
              IF HasPower(n, x)' THEN 0
              ELSE IF since[n][x] + elapsed > Never THEN Never
              ELSE since[n][x] + elapsed]]

WindowNext ==
  \/ /\ \E w \in Workers :
          UserHandlers(w) \/ RoleHandlers(w) \/ Commit(w) \/ Fail(w)
     /\ Follow(0)
  \/ Tick /\ Follow(1)

WindowSpec == WindowInit /\ [][WindowNext]_windowVars

(* What a token still grants, by permission or by level.                    *)
Carries(t, x) == x \in t.claims.perms \cup {t.claims.level}

(* A power taken from an account authorises no request once TOKEN_MINUTES   *)
(* have passed: whoever still presents it held it within the window, even   *)
(* if the account was deleted, demoted, or recreated under the same name.   *)
StalenessIsBounded ==
  \A s \in Sessions : token[s] # Nil =>
    \A x \in Powers :
      Carries(token[s], x) => since[token[s].claims.sub][x] <= TOKEN_MINUTES

=============================================================================
