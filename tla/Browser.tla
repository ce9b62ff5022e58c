------------------------------ MODULE Browser ------------------------------
(***************************************************************************)
(* The frontend in a browser: tabs that share a stored token, what each of   *)
(* them takes for its session (auth/AuthContext.tsx), the calls they have    *)
(* under way (api/client.ts) and the jobs they watch                         *)
(* (pages/UploadPage.tsx).                                                   *)
(*                                                                          *)
(* An answer arrives any time after its call was sent, in any order.  React  *)
(* is taken to unmount the pages of a session in the step that ends it.      *)
(***************************************************************************)
EXTENDS Naturals, Sequences, FiniteSets

CONSTANTS
  Tabs,
  Accounts,
  Uploaders,    (* those that may upload: admins with documents.upload, and *)
  Creators,     (* creators                                                 *)
  Tenant,       (* Tenant[a], of the account                                *)
  Watchers,     (* bound: the tabs in which the upload page is opened       *)
  MaxCalls,     (* bound: calls under way when another is sent, but a poll  *)
  MaxTokens,    (* bound: tokens, of logins or kept from before             *)
  MaxUploads,   (* bound: uploads, but for retries                          *)
  MaxJobs,      (* bound: uploads                                           *)
  MaxTroubles,  (* bound: logouts, tokens that expire, calls that fail on   *)
                (* the way                                                  *)
  Nil

ASSUME BrowserAssumption ==
  /\ Creators \subseteq Uploaders /\ Uploaders \subseteq Accounts
  /\ DOMAIN Tenant = Accounts /\ Watchers \subseteq Tabs
  /\ {MaxCalls, MaxTokens, MaxUploads, MaxJobs,
      MaxTroubles} \subseteq Nat /\ MaxTokens >= 1
  /\ Nil \notin Nat \cup Accounts

VARIABLES
  issued,     (* issued[k], the account of token k                          *)
  expired,    (* the tokens the API no longer takes                         *)
  stored,     (* the token in localStorage, or Nil                          *)
  tab,        (* tab[t], the status and the account on display              *)
  watching,   (* the tabs that show the upload page                         *)
  rows,       (* rows[t], its queue, by the job a row is about              *)
  calls,      (* the calls under way                                        *)
  jobs,       (* jobs[j], its uploader and its status                       *)
  told,       (* told[j], the toasts about the end of job j                 *)
  faults, logouts

session == <<issued, expired, stored, tab>>
upload == <<watching, rows, jobs, told>>
vars == <<session, upload, calls, faults, logouts>>

Troubles == faults + logouts + Cardinality(expired)

Tokens == 1 .. MaxTokens
Jobs == 1 .. MaxJobs
Ends == {"SUCCESS", "FAILURE"}

Tab == [status: {"closed", "loading", "authed", "anon"},
        me: Accounts \cup {Nil}]

(* at: waits for its timer, for a status, for its retry to be accepted, or  *)
(* is settled.                                                              *)
Row == [shown: {"running"} \cup Ends,
        at: {"timer", "poll", "retry", "settled"}]

(* about is the account that logs in or the job of a row; fresh tells       *)
(* whether the token was good when the call was sent, live whether the page *)
(* or row that sent it is still there.                                      *)
Call == [tab: Tabs,
         kind: {"boot", "login", "me", "page", "compare", "upload", "retry",
                "poll"},
         about: Accounts \cup Jobs \cup {Nil}, token: Tokens \cup {Nil},
         fresh: BOOLEAN, live: BOOLEAN]

TypeOK ==
  /\ issued \in Seq(Accounts) /\ Len(issued) <= MaxTokens
  /\ expired \subseteq DOMAIN issued
  /\ stored \in DOMAIN issued \cup {Nil}
  /\ tab \in [Tabs -> Tab]
  /\ watching \subseteq {t \in Watchers : tab[t].status = "authed"}
  /\ DOMAIN rows = Tabs
  /\ \A t \in Tabs : \E js \in SUBSET DOMAIN jobs : rows[t] \in [js -> Row]
  /\ \A t \in Tabs \ watching : rows[t] = <<>>
  /\ calls \subseteq Call
  /\ \A c \in calls : c.token \in DOMAIN issued \cup {Nil}
  /\ jobs \in Seq([by: Accounts, status: {"running"} \cup Ends])
  /\ told \in [Jobs -> Seq(Ends)]
  /\ faults \in Nat /\ logouts \in Nat

(* A browser that was never used, or that has kept a token.                 *)
Init ==
  /\ \E old \in {<<>>} \cup {<<a>> : a \in Accounts} :
       /\ issued = old
       /\ expired \in SUBSET DOMAIN old
       /\ stored = IF old = <<>> THEN Nil ELSE 1
  /\ tab = [t \in Tabs |-> [status |-> "closed", me |-> Nil]]
  /\ watching = {} /\ rows = [t \in Tabs |-> <<>>]
  /\ calls = {}
  /\ jobs = <<>> /\ told = [j \in Jobs |-> <<>>]
  /\ faults = 0 /\ logouts = 0

-----------------------------------------------------------------------------
(* Calls.                                                                   *)

(* request reads the stored token when it sends.                            *)
CallOf(t, kind, about, token) ==
  [tab |-> t, kind |-> kind, about |-> about, token |-> token,
   fresh |-> token # Nil /\ token \notin expired, live |-> TRUE]

Sent(c) ==
  /\ c \notin calls /\ Cardinality(calls) < MaxCalls
  /\ calls' = calls \cup {c}

Sends(t, kind, about) == Sent(CallOf(t, kind, about, stored))

Idle(t, kind) == \A c \in calls : c.tab = t => c.kind # kind

(* What is under way when the page of a tab, or a row of it, goes away.     *)
Orphaned(c) == [c EXCEPT !.live = FALSE]

WithoutPage(cs, t) ==
  {IF c.tab = t /\ c.kind \in {"upload", "retry", "poll"} THEN Orphaned(c)
   ELSE c : c \in cs}

WithoutRow(cs, t, j) ==
  {IF c.tab = t /\ c.kind \in {"retry", "poll"} /\ c.about = j
   THEN Orphaned(c) ELSE c : c \in cs}

(* The page is unmounted, with its queue and its pollers.                   *)
Unmount(t, cs) ==
  /\ watching' = watching \ {t}
  /\ rows' = [rows EXCEPT ![t] = <<>>]
  /\ calls' = WithoutPage(cs, t)

-----------------------------------------------------------------------------
(* The session.                                                             *)

(* The provider mounts and resumes the stored session.                      *)
Open(t) ==
  /\ tab[t].status = "closed"
  /\ IF stored = Nil
     THEN tab' = [tab EXCEPT ![t].status = "anon"] /\ calls' = calls
     ELSE tab' = [tab EXCEPT ![t].status = "loading"] /\ Sends(t, "boot", Nil)
  /\ UNCHANGED <<issued, expired, stored, upload, faults, logouts>>

(* The login page is there whatever the session.                            *)
Login(t, a) ==
  /\ tab[t].status # "closed" /\ t \notin watching
  /\ Idle(t, "login") /\ Len(issued) < MaxTokens
  /\ Sends(t, "login", a)
  /\ UNCHANGED <<session, upload, faults, logouts>>

LoginAccepted(c) ==
  /\ c \in calls /\ c.kind = "login" /\ Len(issued) < MaxTokens
  /\ issued' = Append(issued, c.about)
  /\ stored' = Len(issued')
  /\ calls' = (calls \ {c}) \cup {CallOf(c.tab, "me", Nil, stored')}
  /\ UNCHANGED <<expired, tab, upload, faults, logouts>>

(* refreshMe, after a login or at the start                                 *)
MeAnswered(c) ==
  /\ c \in calls /\ c.kind \in {"boot", "me"} /\ c.fresh
  /\ LET a == issued[c.token]
     IN  /\ tab' = [tab EXCEPT ![c.tab] = [status |-> "authed", me |-> a]]
         /\ IF a \in Uploaders
            THEN calls' = calls \ {c} /\ UNCHANGED <<watching, rows>>
            ELSE Unmount(c.tab, calls \ {c})
  /\ UNCHANGED <<issued, expired, stored, jobs, told, faults, logouts>>

(* At the start any failure ends the session, on the way or not.            *)
BootFails(c) ==
  /\ c \in calls /\ c.kind = "boot" /\ Troubles < MaxTroubles
  /\ stored' = Nil
  /\ tab' = [tab EXCEPT ![c.tab].status = "anon"]
  /\ Unmount(c.tab, calls \ {c})
  /\ faults' = faults + 1
  /\ UNCHANGED <<issued, expired, jobs, told, logouts>>

SignedOut(t) == [tab EXCEPT ![t] = [status |-> "anon", me |-> Nil]]

Logout(t) ==
  /\ tab[t].status = "authed" /\ Troubles < MaxTroubles
  /\ stored' = Nil /\ tab' = SignedOut(t)
  /\ Unmount(t, calls)
  /\ logouts' = logouts + 1
  /\ UNCHANGED <<issued, expired, jobs, told, faults>>

(* Any page of a session asks for something.                                *)
Ask(t) ==
  /\ tab[t].status = "authed"
  /\ Idle(t, "page") /\ Sends(t, "page", Nil)
  /\ UNCHANGED <<session, upload, faults, logouts>>

(* The ask page asks again with the token of another identity.              *)
Compare(t) ==
  /\ tab[t].status = "authed" /\ t \notin watching
  /\ Idle(t, "compare")
  /\ Sent(CallOf(t, "compare", Nil, Nil))
  /\ UNCHANGED <<session, upload, faults, logouts>>

(* A slip for mutation runs: a 401 for a token of its own counts, too.      *)
AnyCall(c) == c.kind # "login"

(* The calls whose 401 is about the stored session.                         *)
OfTheSession(c) == c.kind \notin {"login", "compare"}

(* A 401: the session is torn down, whichever it is by now.  A poller       *)
(* whose row is there may still get to tell of it.                          *)
Unauthorized(c) ==
  /\ c \in calls /\ OfTheSession(c)
  /\ c.token = Nil \/ c.token \in expired
  /\ stored' = Nil /\ tab' = SignedOut(c.tab)
  /\ Unmount(c.tab, calls \ {c})
  /\ told' \in {told} \cup
       IF c.kind = "poll" /\ c.live
       THEN {[told EXCEPT ![c.about] = Append(@, "FAILURE")]}
       ELSE {}
  /\ UNCHANGED <<issued, expired, jobs, faults, logouts>>

(* Answers that change nothing here: of a page, of a login that is refused, *)
(* of a comparison, refused or not.                                         *)
NothingCame(c) ==
  /\ c \in calls
  /\ \/ c.kind \in {"login", "compare"}
     \/ c.kind = "page" /\ c.fresh
  /\ calls' = calls \ {c}
  /\ UNCHANGED <<session, upload, faults, logouts>>

(* After a login the token stays, and the page as it was.                   *)
CallFails(c) ==
  /\ c \in calls /\ c.kind \in {"me", "page"} /\ Troubles < MaxTroubles
  /\ calls' = calls \ {c} /\ faults' = faults + 1
  /\ UNCHANGED <<session, upload, logouts>>

Expire(k) ==
  /\ k \in DOMAIN issued \ expired /\ Troubles < MaxTroubles
  /\ expired' = expired \cup {k}
  /\ UNCHANGED <<issued, stored, tab, upload, calls, faults, logouts>>

-----------------------------------------------------------------------------
(* The upload page.                                                         *)

OpenPage(t) ==
  /\ t \in Watchers \ watching
  /\ tab[t].status = "authed" /\ tab[t].me \in Uploaders
  /\ watching' = watching \cup {t}
  /\ UNCHANGED <<session, rows, jobs, told, calls, faults, logouts>>

LeavePage(t) ==
  /\ t \in watching
  /\ Unmount(t, calls)
  /\ UNCHANGED <<session, jobs, told, faults, logouts>>

Submit(t) ==
  /\ t \in watching /\ Idle(t, "upload") /\ Len(jobs) < MaxUploads
  /\ Sends(t, "upload", Nil)
  /\ UNCHANGED <<session, upload, faults, logouts>>

Retry(t, j) ==
  /\ j \in DOMAIN rows[t] /\ Len(jobs) < MaxJobs
  /\ rows[t][j].at = "settled" /\ rows[t][j].shown = "FAILURE"
  /\ rows' = [rows EXCEPT ![t][j].at = "retry"]
  /\ Sends(t, "retry", j)
  /\ UNCHANGED <<session, watching, jobs, told, faults, logouts>>

Without(t, j) == [k \in DOMAIN rows[t] \ {j} |-> rows[t][k]]

Dismiss(t, j) ==
  /\ j \in DOMAIN rows[t]
  /\ rows' = [rows EXCEPT ![t] = Without(t, j)]
  /\ calls' = WithoutRow(calls, t, j)
  /\ UNCHANGED <<session, watching, jobs, told, faults, logouts>>

Uploaded(a) == Append(jobs, [by |-> a, status |-> "running"])

(* A row for job j, in the place of the one that is retried.                *)
Watched(c, j) ==
  LET kept == IF c.kind = "retry" THEN Without(c.tab, c.about)
              ELSE rows[c.tab]
  IN  [k \in DOMAIN kept \cup {j} |->
         IF k = j THEN [shown |-> "running", at |-> "timer"] ELSE kept[k]]

(* The file is taken in the name of the token; its job is watched, unless   *)
(* the page, or the row that is retried, has gone.                          *)
UploadAccepted(c) ==
  LET j == Len(jobs) + 1 IN
  /\ c \in calls /\ c.kind \in {"upload", "retry"} /\ c.fresh
  /\ issued[c.token] \in Uploaders /\ j <= MaxJobs
  /\ jobs' = Uploaded(issued[c.token])
  /\ rows' = IF c.live THEN [rows EXCEPT ![c.tab] = Watched(c, j)] ELSE rows
  /\ calls' = calls \ {c}
  /\ UNCHANGED <<session, watching, told, faults, logouts>>

(* After a retry that was not accepted the row is as it was.                *)
Restored(c) ==
  IF c.kind = "retry" /\ c.live
  THEN [rows EXCEPT ![c.tab][c.about].at = "settled"] ELSE rows

UploadForbidden(c) ==
  /\ c \in calls /\ c.kind \in {"upload", "retry"} /\ c.fresh
  /\ issued[c.token] \notin Uploaders
  /\ rows' = Restored(c) /\ calls' = calls \ {c}
  /\ UNCHANGED <<session, watching, jobs, told, faults, logouts>>

(* The answer gets lost; the file may have arrived.                         *)
UploadFails(c) ==
  /\ c \in calls /\ c.kind \in {"upload", "retry"} /\ Troubles < MaxTroubles
  /\ jobs' \in {jobs} \cup
       IF c.fresh /\ Len(jobs) < MaxJobs /\ issued[c.token] \in Uploaders
       THEN {Uploaded(issued[c.token])} ELSE {}
  /\ rows' = Restored(c) /\ calls' = calls \ {c}
  /\ faults' = faults + 1
  /\ UNCHANGED <<session, watching, told, logouts>>

JobEnds(j) ==
  /\ j \in DOMAIN jobs /\ jobs[j].status = "running"
  /\ \E s \in Ends : jobs' = [jobs EXCEPT ![j].status = s]
  /\ UNCHANGED <<session, watching, rows, told, calls, faults, logouts>>

-----------------------------------------------------------------------------
(* useJobPoll                                                               *)

Tick(t, j) ==
  /\ j \in DOMAIN rows[t] /\ rows[t][j].at = "timer"
  /\ rows' = [rows EXCEPT ![t][j].at = "poll"]
  /\ calls' = calls \cup {CallOf(t, "poll", j, stored)}
  /\ UNCHANGED <<session, watching, jobs, told, faults, logouts>>

(* A slip for mutation runs: only a success ends the polling.               *)
SuccessOnly == {"SUCCESS"}

TERMINAL == Ends

(* What the row of j becomes when its poller reads s.                       *)
Read(t, j, s) ==
  [rows EXCEPT ![t][j] =
     [shown |-> s, at |-> IF s \in TERMINAL THEN "settled" ELSE "timer"]]

Settled(j, s) ==
  IF s \in TERMINAL THEN [told EXCEPT ![j] = Append(@, s)] ELSE told

(* A slip for mutation runs: the end is told although the row has gone.     *)
ShowsAnyway(c, s) ==
  /\ rows' = IF c.live THEN Read(c.tab, c.about, s) ELSE rows
  /\ told' = Settled(c.about, s)

(* The row shows s, and is settled, or waits again; no row, no effect.      *)
Shows(c, s) ==
  IF c.live THEN rows' = Read(c.tab, c.about, s) /\ told' = Settled(c.about, s)
  ELSE UNCHANGED <<rows, told>>

(* job_status: a finished job of another tenant is not found.  Anything but *)
(* a status, and a call that fails on the way, reads as FAILURE.            *)
Reported(a, j) ==
  IF \/ a \notin Uploaders
     \/ /\ jobs[j].status = "SUCCESS" /\ a \notin Creators
        /\ Tenant[a] # Tenant[jobs[j].by]
  THEN "FAILURE" ELSE jobs[j].status

PollAnswered(c) ==
  /\ c \in calls /\ c.kind = "poll" /\ c.fresh
  /\ Shows(c, Reported(issued[c.token], c.about))
  /\ calls' = calls \ {c}
  /\ UNCHANGED <<session, watching, jobs, faults, logouts>>

PollFails(c) ==
  /\ c \in calls /\ c.kind = "poll" /\ Troubles < MaxTroubles
  /\ Shows(c, "FAILURE")
  /\ calls' = calls \ {c} /\ faults' = faults + 1
  /\ UNCHANGED <<session, watching, jobs, logouts>>

-----------------------------------------------------------------------------
Answered(c) ==
  \/ LoginAccepted(c) \/ MeAnswered(c) \/ BootFails(c) \/ Unauthorized(c)
  \/ NothingCame(c) \/ CallFails(c)
  \/ UploadAccepted(c) \/ UploadForbidden(c) \/ UploadFails(c)
  \/ PollAnswered(c) \/ PollFails(c)

User(t) ==
  \/ Open(t) \/ (\E a \in Accounts : Login(t, a)) \/ Logout(t)
  \/ Ask(t) \/ Compare(t) \/ OpenPage(t) \/ LeavePage(t) \/ Submit(t)
  \/ \E j \in Jobs : Retry(t, j) \/ Dismiss(t, j)

Next ==
  \/ \E t \in Tabs : User(t) \/ \E j \in Jobs : Tick(t, j)
  \/ \E c \in calls : Answered(c)
  \/ \E j \in Jobs : JobEnds(j)
  \/ \E k \in Tokens : Expire(k)

Spec == Init /\ [][Next]_vars

(* Timers go off, the API answers, and jobs end, as Ingestion's JobsSettle  *)
(* says of all that no crash of a worker took away.                         *)
PollOf(t, j) ==
  \/ Tick(t, j)
  \/ \E c \in calls :
       c.tab = t /\ c.kind = "poll" /\ c.about = j /\ Answered(c)

Fairness ==
  /\ \A t \in Tabs : \A j \in Jobs : WF_vars(PollOf(t, j))
  /\ \A j \in Jobs : WF_vars(JobEnds(j))

FairSpec == Spec /\ Fairness

-----------------------------------------------------------------------------
(* As long as no token has expired, nobody has signed out and every call    *)
(* got through, no answer, in whatever order it comes, ends a session or    *)
(* takes its token: not a wrong password, not a comparison with another     *)
(* identity, not the call of a tab whose account has changed.  (A 401 that  *)
(* is late does end the session that has begun since.)                      *)
SessionsEndForAReason ==
  [][expired' = {} /\ faults' = 0 /\ logouts' = 0 =>
       /\ stored # Nil => stored' # Nil
       /\ \A t \in Tabs :
            tab[t].status = "authed" => tab'[t].status = "authed"]_vars

(* A toast about a job is the first about it, and about a job whose row is  *)
(* there: what was dismissed, retried or left is not heard of again.  Only  *)
(* a job that succeeded is called indexed.                                  *)
ToastsAreDue ==
  [][\A j \in Jobs : told'[j] # told[j] =>
       /\ told[j] = <<>>
       /\ \E t \in Tabs : j \in DOMAIN rows[t] /\ rows[t][j].at = "poll"
       /\ told'[j] = <<"SUCCESS">> => jobs[j].status = "SUCCESS"]_vars

(* A row stops working: its job is told of, or it is gone, also when the    *)
(* session ends, another account takes over or a status check fails.        *)
RowsSettle ==
  \A t \in Tabs : \A j \in Jobs :
    j \in DOMAIN rows[t] ~>
      (j \notin DOMAIN rows[t] \/ rows[t][j].at \in {"settled", "retry"})

=============================================================================
