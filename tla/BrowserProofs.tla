--------------------------- MODULE BrowserProofs ---------------------------
(***************************************************************************)
(* Theorems about Browser, for any number of tabs, accounts, tokens and      *)
(* jobs.                                                                     *)
(***************************************************************************)
EXTENDS Browser, SequenceTheorems, TLAPS

OfThePage(c) == c.live /\ c.kind \in {"upload", "retry", "poll"}

(* The type invariant, made inductive, by the part of the state.            *)
SessionTyped ==
  /\ issued \in Seq(Accounts) /\ Len(issued) <= MaxTokens
  /\ expired \subseteq DOMAIN issued
  /\ stored \in DOMAIN issued \cup {Nil}
  /\ tab \in [Tabs -> Tab]
  /\ faults \in Nat /\ logouts \in Nat

Job == [by: Accounts, status: {"running"} \cup Ends]

JobsTyped ==
  /\ jobs \in Seq(Job)
  /\ Len(jobs) <= MaxJobs
  /\ told \in [Jobs -> Seq(Ends)]

RowsTyped ==
  /\ DOMAIN rows = Tabs
  /\ \A t \in Tabs : /\ DOMAIN rows[t] \subseteq DOMAIN jobs
                     /\ rows[t] \in [DOMAIN rows[t] -> Row]
  /\ watching \subseteq {t \in Watchers : tab[t].status = "authed"}
  /\ \A t \in Tabs \ watching : rows[t] = <<>>

CallFits(c) ==
  /\ c.kind \in {"retry", "poll"} => c.about \in DOMAIN jobs
  /\ c.kind = "login" => c.about \in Accounts
  /\ c.token \in DOMAIN issued \cup {Nil}
  /\ c.fresh => c.token # Nil
  /\ OfThePage(c) => c.tab \in watching

CallsTyped == calls \subseteq Call /\ \A c \in calls : CallFits(c)

Typed == SessionTyped /\ JobsTyped /\ RowsTyped /\ CallsTyped

-----------------------------------------------------------------------------
LEMMA TypedImpliesTypeOK == Typed => TypeOK
<1> SUFFICES ASSUME Typed PROVE TypeOK
  OBVIOUS
<1>1. \A t \in Tabs : \E js \in SUBSET DOMAIN jobs : rows[t] \in [js -> Row]
  BY DEF Typed, RowsTyped
<1> QED
  BY <1>1 DEF Typed, SessionTyped, JobsTyped, RowsTyped, CallsTyped, CallFits,
     Job, TypeOK

LEMMA TypedInit == Init => Typed
<1> SUFFICES ASSUME Init PROVE Typed
  OBVIOUS
<1> USE BrowserAssumption
<1>1. SessionTyped
  <2>1. PICK old \in {<<>>} \cup {<<a>> : a \in Accounts} :
          /\ issued = old /\ expired \in SUBSET DOMAIN old
          /\ stored = IF old = <<>> THEN Nil ELSE 1
    BY DEF Init
  <2>2. /\ issued \in Seq(Accounts) /\ Len(issued) <= MaxTokens
        /\ stored \in DOMAIN issued \cup {Nil}
    <3>1. CASE old = <<>>
      BY <2>1, <3>1
    <3>2. CASE old # <<>>
      <4>1. PICK a \in Accounts : old = <<a>>
        BY <2>1, <3>2
      <4> QED
        BY <2>1, <3>2, <4>1
    <3> QED
      BY <3>1, <3>2
  <2> QED
    BY <2>1, <2>2 DEF Init, SessionTyped, Tab
<1>2. JobsTyped
  BY DEF Init, JobsTyped
<1>3. RowsTyped
  BY DEF Init, RowsTyped
<1>4. CallsTyped
  BY DEF Init, CallsTyped
<1> QED
  BY <1>1, <1>2, <1>3, <1>4 DEF Typed

LEMMA Orphans ==
  ASSUME NEW c \in Call
  PROVE  /\ Orphaned(c) \in Call /\ ~ Orphaned(c).live
         /\ Orphaned(c).tab = c.tab /\ Orphaned(c).kind = c.kind
         /\ Orphaned(c).about = c.about /\ Orphaned(c).token = c.token
         /\ Orphaned(c).fresh = c.fresh
BY DEF Orphaned, Call

-----------------------------------------------------------------------------
(* What a step does to the session.                                         *)
LEMMA SessionKept == Typed /\ Next => SessionTyped'
<1> SUFFICES ASSUME Typed, Next PROVE SessionTyped'
  OBVIOUS
<1> USE DEF Typed
<1>1. ASSUME NEW t \in Tabs, User(t) PROVE SessionTyped'
  <2>1. CASE Open(t)
    BY <2>1 DEF Open, SessionTyped, Tab
  <2>2. CASE Logout(t)
    BY <2>2 DEF Logout, SignedOut, SessionTyped, Tab
  <2>3. CASE ~ Open(t) /\ ~ Logout(t)
    <3>1. UNCHANGED <<session, faults, logouts>>
      BY <1>1, <2>3 DEF User, Login, Ask, Compare, OpenPage, LeavePage,
         Submit, Retry, Dismiss
    <3> QED
      BY <3>1 DEF session, SessionTyped
  <2> QED
    BY <2>1, <2>2, <2>3
<1>2. ASSUME NEW c \in calls, Answered(c) PROVE SessionTyped'
  <2>0. c \in Call /\ CallFits(c)
    BY DEF CallsTyped
  <2>1. CASE LoginAccepted(c)
    <3>1. /\ issued' \in Seq(Accounts) /\ Len(issued') = Len(issued) + 1
          /\ DOMAIN issued' = 1 .. Len(issued')
          /\ DOMAIN issued = 1 .. Len(issued) /\ Len(issued) \in Nat
      BY <2>0, <2>1 DEF LoginAccepted, CallFits, SessionTyped
    <3>2. /\ Len(issued) < MaxTokens
          /\ stored' = Len(issued')
          /\ UNCHANGED <<expired, tab, faults, logouts>>
      BY <2>1 DEF LoginAccepted
    <3> QED
      BY <3>1, <3>2, BrowserAssumption DEF SessionTyped
  <2>2. CASE MeAnswered(c)
    <3>1. issued[c.token] \in Accounts /\ c.tab \in Tabs
      BY <2>0, <2>2 DEF MeAnswered, CallFits, SessionTyped, Call
    <3> QED
      BY <2>2, <3>1 DEF MeAnswered, SessionTyped, Tab
  <2>3. CASE BootFails(c)
    BY <2>0, <2>3 DEF BootFails, SessionTyped, Tab, Call
  <2>4. CASE Unauthorized(c)
    BY <2>0, <2>4 DEF Unauthorized, SignedOut, SessionTyped, Tab, Call
  <2>5. CASE ~ (LoginAccepted(c) \/ MeAnswered(c) \/ BootFails(c)
                \/ Unauthorized(c))
    <3>1. /\ UNCHANGED <<session, logouts>>
          /\ faults' \in {faults, faults + 1}
      BY <1>2, <2>5 DEF Answered, NothingCame, CallFails, UploadAccepted,
         UploadForbidden, UploadFails, PollAnswered, PollFails
    <3> QED
      BY <3>1 DEF session, SessionTyped
  <2> QED
    BY <2>1, <2>2, <2>3, <2>4, <2>5
<1>3. ASSUME NEW t \in Tabs, NEW j \in Jobs, Tick(t, j) PROVE SessionTyped'
  BY <1>3 DEF Tick, session, SessionTyped
<1>4. ASSUME NEW j \in Jobs, JobEnds(j) PROVE SessionTyped'
  BY <1>4 DEF JobEnds, session, SessionTyped
<1>5. ASSUME NEW k \in Tokens, Expire(k) PROVE SessionTyped'
  BY <1>5 DEF Expire, SessionTyped
<1> QED
  BY <1>1, <1>2, <1>3, <1>4, <1>5 DEF Next

(* What a step does to the tokens, the jobs and the toasts.                 *)
LEMMA IssuedStep ==
  Next => \/ UNCHANGED issued
          \/ \E a : issued' = Append(issued, a)
BY DEF Next, User, Answered, Open, Login, Logout, Ask, Compare, OpenPage,
   LeavePage, Submit, Retry, Dismiss, LoginAccepted, MeAnswered, BootFails,
   Unauthorized, NothingCame, CallFails, UploadAccepted, UploadForbidden,
   UploadFails, PollAnswered, PollFails, Tick, JobEnds, Expire, session

LEMMA JobsStep ==
  Next => \/ UNCHANGED jobs
          \/ \E a \in Uploaders : /\ jobs' = Append(jobs,
                                               [by |-> a, status |-> "running"])
                                  /\ \/ Len(jobs) < MaxJobs
                                     \/ Len(jobs) + 1 <= MaxJobs
          \/ \E j \in DOMAIN jobs, s \in Ends :
               jobs' = [jobs EXCEPT ![j].status = s]
BY DEF Next, User, Answered, Open, Login, Logout, Ask, Compare, OpenPage,
   LeavePage, Submit, Retry, Dismiss, LoginAccepted, MeAnswered, BootFails,
   Unauthorized, NothingCame, CallFails, UploadAccepted, UploadForbidden,
   UploadFails, PollAnswered, PollFails, Tick, JobEnds, Expire, upload,
   Uploaded

LEMMA ToldStep ==
  Typed /\ Next =>
    \/ UNCHANGED told
    \/ \E c \in calls, s \in Ends :
         /\ c.kind = "poll" /\ c.live
         /\ told' = [told EXCEPT ![c.about] = Append(@, s)]
<1> SUFFICES ASSUME Typed, Next, ~ UNCHANGED told
             PROVE  \E c \in calls, s \in Ends :
                      /\ c.kind = "poll" /\ c.live
                      /\ told' = [told EXCEPT ![c.about] = Append(@, s)]
  OBVIOUS
<1>1. PICK c \in calls : Unauthorized(c) \/ PollAnswered(c) \/ PollFails(c)
  BY DEF Next, User, Answered, Open, Login, Logout, Ask, Compare, OpenPage,
     LeavePage, Submit, Retry, Dismiss, LoginAccepted, MeAnswered, BootFails,
     NothingCame, CallFails, UploadAccepted, UploadForbidden, UploadFails,
     Tick, JobEnds, Expire, upload
<1>2. CASE Unauthorized(c)
  BY <1>2 DEF Unauthorized, Ends
<1>3. ASSUME NEW s, c.kind = "poll", Shows(c, s)
      PROVE  /\ c.live /\ s \in Ends
             /\ told' = [told EXCEPT ![c.about] = Append(@, s)]
  BY <1>3 DEF Shows, Settled, TERMINAL
<1>4. CASE PollAnswered(c) \/ PollFails(c)
  BY <1>3, <1>4 DEF PollAnswered, PollFails
<1> QED
  BY <1>1, <1>2, <1>4

LEMMA JobsKept ==
  Typed /\ Next => JobsTyped' /\ DOMAIN jobs \subseteq DOMAIN jobs'
<1> SUFFICES ASSUME Typed, Next
             PROVE  JobsTyped' /\ DOMAIN jobs \subseteq DOMAIN jobs'
  OBVIOUS
<1>0. jobs \in Seq(Job) /\ Len(jobs) <= MaxJobs /\ told \in [Jobs -> Seq(Ends)]
  BY DEF Typed, JobsTyped
<1>1. /\ jobs' \in Seq(Job) /\ Len(jobs') <= MaxJobs
      /\ DOMAIN jobs \subseteq DOMAIN jobs'
  <2>1. CASE UNCHANGED jobs
    BY <1>0, <2>1
  <2>2. ASSUME NEW a \in Uploaders,
               jobs' = Append(jobs, [by |-> a, status |-> "running"]),
               Len(jobs) < MaxJobs \/ Len(jobs) + 1 <= MaxJobs
        PROVE  /\ jobs' \in Seq(Job) /\ Len(jobs') <= MaxJobs
               /\ DOMAIN jobs \subseteq DOMAIN jobs'
    <3> DEFINE new == [by |-> a, status |-> "running"]
    <3>1. new \in Job /\ jobs' = Append(jobs, new)
      BY <2>2, BrowserAssumption DEF Job
    <3> HIDE DEF new
    <3>2. jobs' \in Seq(Job) /\ Len(jobs') = Len(jobs) + 1
      BY <1>0, <3>1, AppendProperties
    <3>3. Len(jobs) \in Nat /\ MaxJobs \in Nat
      BY <1>0, BrowserAssumption
    <3>4. DOMAIN jobs = 1 .. Len(jobs) /\ DOMAIN jobs' = 1 .. Len(jobs')
      BY <1>0, <3>2, LenProperties
    <3>5. Len(jobs') <= MaxJobs
      BY <2>2, <3>2, <3>3
    <3> QED
      BY <3>2, <3>3, <3>4, <3>5
  <2>3. ASSUME NEW j \in DOMAIN jobs, NEW s \in Ends,
               jobs' = [jobs EXCEPT ![j].status = s]
        PROVE  /\ jobs' \in Seq(Job) /\ Len(jobs') <= MaxJobs
               /\ DOMAIN jobs \subseteq DOMAIN jobs'
    <3>1. jobs[j] \in Job
      BY <1>0, LenProperties, ElementOfSeq
    <3> DEFINE ended == [jobs[j] EXCEPT !.status = s]
    <3>2. ended \in Job /\ jobs' = [jobs EXCEPT ![j] = ended]
      BY <2>3, <3>1 DEF Job
    <3> HIDE DEF ended
    <3>3. jobs' \in Seq(Job) /\ Len(jobs') = Len(jobs)
      BY <1>0, <3>2, ExceptSeq
    <3> QED
      BY <1>0, <3>3, LenProperties
  <2> QED
    BY <2>1, <2>2, <2>3, JobsStep
<1>2. told' \in [Jobs -> Seq(Ends)]
  <2>1. ASSUME NEW c \in calls, NEW s \in Ends, c.kind = "poll",
               told' = [told EXCEPT ![c.about] = Append(@, s)]
        PROVE  told' \in [Jobs -> Seq(Ends)]
    <3>1. c.about \in Jobs
      BY <1>0, <2>1, BrowserAssumption DEF Typed, CallsTyped, CallFits, Jobs
    <3> QED
      BY <1>0, <2>1, <3>1
  <2> QED
    BY <1>0, <2>1, ToldStep
<1> QED
  BY <1>1, <1>2 DEF JobsTyped

LEMMA IssuedGrows == Typed /\ Next => DOMAIN issued \subseteq DOMAIN issued'
<1> SUFFICES ASSUME Typed, Next PROVE DOMAIN issued \subseteq DOMAIN issued'
  OBVIOUS
<1>1. issued \in Seq(Accounts) /\ issued' \in Seq(Accounts)
  BY SessionKept DEF Typed, SessionTyped
<1>2. ASSUME NEW a, issued' = Append(issued, a)
      PROVE  Len(issued') = Len(issued) + 1
  BY <1>1, <1>2
<1> QED
  BY <1>1, <1>2, IssuedStep

(* Calls that were under way, and a call that is typed, are typed.          *)
LEMMA CallsCarryOver ==
  ASSUME Typed, Next, watching \subseteq watching',
         \A d \in calls' : \/ d \in calls
                           \/ \E c \in calls : d = Orphaned(c)
                           \/ d \in Call /\ CallFits(d)'
  PROVE  CallsTyped'
<1>1. SUFFICES ASSUME NEW d \in calls' PROVE d \in Call /\ CallFits(d)'
  BY DEF CallsTyped
<1>2. ASSUME NEW c \in calls
      PROVE  c \in Call /\ CallFits(c) /\ CallFits(c)'
  BY <1>2, JobsKept, IssuedGrows DEF Typed, CallsTyped, CallFits
<1>3. ASSUME NEW c \in calls, d = Orphaned(c)
      PROVE  d \in Call /\ CallFits(d)'
  BY <1>2, <1>3, Orphans DEF CallFits, OfThePage
<1> QED
  BY <1>2, <1>3

(* A page that goes leaves the others, and calls that no longer concern it. *)
LEMMA UnmountKept ==
  ASSUME Typed, Next, NEW t \in Tabs, NEW cs \in SUBSET calls, Unmount(t, cs),
         \A u \in Tabs \ {t} : tab'[u].status = tab[u].status
  PROVE  RowsTyped' /\ CallsTyped'
<1>1. RowsTyped'
  <2>1. /\ watching' = watching \ {t}
        /\ rows' = [rows EXCEPT ![t] = <<>>]
    BY DEF Unmount
  <2>2. ASSUME NEW u \in Tabs
        PROVE  rows'[u] = IF u = t THEN <<>> ELSE rows[u]
    BY <2>1 DEF Typed, RowsTyped
  <2>3. <<>> \in [DOMAIN <<>> -> Row] /\ DOMAIN <<>> = {}
    OBVIOUS
  <2> QED
    BY <2>1, <2>2, <2>3, JobsKept, BrowserAssumption DEF Typed, RowsTyped
<1>2. \A d \in calls' : \E c \in cs :
        \/ d = c /\ ~ (c.tab = t /\ c.kind \in {"upload", "retry", "poll"})
        \/ d = Orphaned(c)
  BY DEF Unmount, WithoutPage
<1>3. ASSUME NEW c \in calls PROVE c \in Call /\ CallFits(c)
  BY <1>3 DEF Typed, CallsTyped
<1>4. ASSUME NEW d \in calls' PROVE d \in Call /\ CallFits(d)'
  <2>1. PICK c \in cs :
          \/ d = c /\ ~ (c.tab = t /\ c.kind \in {"upload", "retry", "poll"})
          \/ d = Orphaned(c)
    BY <1>2
  <2>2. c.tab # t \/ ~ d.live \/ d.kind \notin {"upload", "retry", "poll"}
    BY <1>3, <2>1, Orphans
  <2>3. /\ d \in Call /\ d.tab = c.tab /\ d.kind = c.kind /\ d.about = c.about
        /\ d.token = c.token /\ d.fresh = c.fresh /\ (d.live => c.live)
    BY <1>3, <2>1, Orphans
  <2>4. watching' = watching \ {t}
    BY DEF Unmount
  <2> QED
    BY <1>3, <2>2, <2>3, <2>4, JobsKept, IssuedGrows DEF CallFits, OfThePage
<1> QED
  BY <1>1, <1>4 DEF CallsTyped

(* A page whose rows change among those of its jobs.                        *)
LEMMA RowsCarryOver ==
  ASSUME Typed, Next, NEW t \in watching, NEW f,
         rows' = [rows EXCEPT ![t] = f],
         DOMAIN f \subseteq DOMAIN jobs', f \in [DOMAIN f -> Row],
         UNCHANGED <<watching, tab>>
  PROVE  RowsTyped'
<1>1. ASSUME NEW u \in Tabs PROVE rows'[u] = IF u = t THEN f ELSE rows[u]
  BY DEF Typed, RowsTyped
<1>2. DOMAIN rows' = Tabs
  BY DEF Typed, RowsTyped
<1> QED
  BY <1>1, <1>2, JobsKept DEF Typed, RowsTyped

LEMMA RowsStay ==
  ASSUME Typed, Next, UNCHANGED <<rows, watching>>,
         \A t \in watching : tab'[t].status = "authed"
  PROVE  RowsTyped'
BY JobsKept DEF Typed, RowsTyped

(* A row that is there changes what it shows or waits for.                  *)
LEMMA RowChanges ==
  ASSUME Typed, NEW t \in Tabs, NEW j, NEW f,
         \/ \E x \in {"timer", "poll", "retry", "settled"} :
              f = [rows[t] EXCEPT ![j].at = x]
         \/ \E r \in Row : f = [rows[t] EXCEPT ![j] = r]
  PROVE  /\ DOMAIN f = DOMAIN rows[t]
         /\ f \in [DOMAIN f -> Row]
<1>1. rows[t] \in [DOMAIN rows[t] -> Row]
  BY DEF Typed, RowsTyped
<1>2. ASSUME NEW x \in {"timer", "poll", "retry", "settled"},
             f = [rows[t] EXCEPT ![j].at = x]
      PROVE  /\ DOMAIN f = DOMAIN rows[t]
             /\ f \in [DOMAIN f -> Row]
  BY <1>1, <1>2 DEF Row
<1>3. ASSUME NEW r \in Row, f = [rows[t] EXCEPT ![j] = r]
      PROVE  /\ DOMAIN f = DOMAIN rows[t]
             /\ f \in [DOMAIN f -> Row]
  BY <1>1, <1>3
<1> QED
  BY <1>2, <1>3

LEMMA PagesAreOpen ==
  ASSUME Typed, NEW t \in Tabs, rows[t] # <<>>
  PROVE  t \in watching /\ tab[t].status = "authed"
BY DEF Typed, RowsTyped

(* A call is sent, and others may come back.                                *)
LEMMA CallSent ==
  ASSUME Typed, Next, NEW t \in Tabs, NEW kind, NEW about, NEW token,
         kind \in {"boot", "login", "me", "page", "compare", "upload", "retry",
                   "poll"},
         about \in Accounts \cup Jobs \cup {Nil},
         token \in DOMAIN issued' \cup {Nil},
         kind \in {"retry", "poll"} => about \in DOMAIN jobs,
         kind = "login" => about \in Accounts,
         kind \in {"upload", "retry", "poll"} => t \in watching,
         calls' \subseteq calls \cup {CallOf(t, kind, about, token)},
         watching \subseteq watching'
  PROVE  CallsTyped'
<1> DEFINE new == CallOf(t, kind, about, token)
<1>1. DOMAIN issued' \subseteq Tokens
  BY SessionKept, BrowserAssumption DEF SessionTyped, Tokens
<1>2. new \in Call
  BY <1>1 DEF CallOf, Call
<1>3. ASSUME NEW d, d = new PROVE CallFits(d)'
  BY <1>3, JobsKept DEF CallOf, CallFits, OfThePage
<1> QED
  BY <1>2, <1>3, CallsCarryOver

LEMMA CallsReturn ==
  ASSUME Typed, Next, calls' \subseteq calls, watching \subseteq watching'
  PROVE  CallsTyped'
BY CallsCarryOver

(* What a user does to the rows and the calls.                              *)
LEMMA UserKeeps ==
  ASSUME Typed, Next, NEW t \in Tabs, User(t)
  PROVE  RowsTyped' /\ CallsTyped'
<1>0. /\ stored \in DOMAIN issued \cup {Nil}
      /\ watching \subseteq {u \in Watchers : tab[u].status = "authed"}
      /\ tab \in [Tabs -> Tab]
  BY DEF Typed, SessionTyped, RowsTyped
<1>1. CASE Open(t)
  <2>1. RowsTyped'
    <3>1. /\ \E s : tab' = [tab EXCEPT ![t].status = s]
          /\ UNCHANGED <<rows, watching>> /\ t \notin watching
      BY <1>0, <1>1 DEF Open, upload
    <3>2. \A u \in watching : tab'[u] = tab[u]
      BY <1>0, <3>1
    <3> QED
      BY <1>0, <3>1, <3>2, RowsStay
  <2>2. CASE stored = Nil
    BY <1>1, <2>1, <2>2, CallsReturn DEF Open, upload
  <2>3. CASE stored # Nil
    <3>1. /\ calls' = calls \cup {CallOf(t, "boot", Nil, stored)}
          /\ issued' = issued /\ watching' = watching
      BY <1>1, <2>3 DEF Open, Sends, Sent, upload
    <3>2. CallsTyped'
      BY <1>0, <3>1, CallSent
    <3> QED
      BY <2>1, <3>2
  <2> QED
    BY <2>2, <2>3
<1>2. ASSUME NEW a \in Accounts, Login(t, a) PROVE RowsTyped' /\ CallsTyped'
  <2>1. RowsTyped'
    BY <1>0, <1>2, RowsStay DEF Login, upload, session
  <2>2. CallsTyped'
    BY <1>0, <1>2, CallSent DEF Login, Sends, Sent, upload, session
  <2> QED
    BY <2>1, <2>2
<1>3. CASE Logout(t)
  BY <1>0, <1>3, UnmountKept DEF Logout, SignedOut
<1>4. CASE Ask(t) \/ Compare(t)
  <2>1. RowsTyped'
    BY <1>0, <1>4, RowsStay DEF Ask, Compare, upload, session
  <2>2. CallsTyped'
    BY <1>0, <1>4, CallSent DEF Ask, Compare, Sends, Sent, upload, session
  <2> QED
    BY <2>1, <2>2
<1>5. CASE OpenPage(t)
  <2>1. RowsTyped'
    BY <1>5, JobsKept DEF OpenPage, session, Typed, RowsTyped
  <2>2. CallsTyped'
    BY <1>5, CallsReturn DEF OpenPage
  <2> QED
    BY <2>1, <2>2
<1>6. CASE LeavePage(t)
  BY <1>6, UnmountKept DEF LeavePage, session
<1>7. CASE Submit(t)
  <2>1. RowsTyped'
    BY <1>0, <1>7, RowsStay DEF Submit, upload, session
  <2>2. CallsTyped'
    BY <1>0, <1>7, CallSent DEF Submit, Sends, Sent, upload, session
  <2> QED
    BY <2>1, <2>2
<1>8. ASSUME NEW j \in Jobs, Retry(t, j) PROVE RowsTyped' /\ CallsTyped'
  <2>0. j \in DOMAIN jobs /\ t \in watching
    BY <1>8, PagesAreOpen DEF Retry, Typed, RowsTyped
  <2>1. RowsTyped'
    BY <1>8, <2>0, RowsCarryOver, RowChanges, JobsKept
       DEF Retry, session, Typed, RowsTyped
  <2>2. CallsTyped'
    BY <1>0, <1>8, <2>0, CallSent DEF Retry, Sends, Sent, session
  <2> QED
    BY <2>1, <2>2
<1>9. ASSUME NEW j \in Jobs, Dismiss(t, j) PROVE RowsTyped' /\ CallsTyped'
  <2>0. j \in DOMAIN jobs /\ t \in watching
    BY <1>9, PagesAreOpen DEF Dismiss, Typed, RowsTyped
  <2>1. RowsTyped'
    BY <1>9, <2>0, RowsCarryOver, JobsKept
       DEF Dismiss, Without, session, Typed, RowsTyped
  <2>2. CallsTyped'
    BY <1>9, CallsCarryOver DEF Dismiss, WithoutRow
  <2> QED
    BY <2>1, <2>2
<1> QED
  BY <1>1, <1>2, <1>3, <1>4, <1>5, <1>6, <1>7, <1>8, <1>9 DEF User

(* What an answer does to the rows and the calls.                           *)
LEMMA AnswersKeep ==
  ASSUME Typed, Next, NEW c \in calls, Answered(c)
  PROVE  RowsTyped' /\ CallsTyped'
<1>0. /\ c \in Call /\ CallFits(c) /\ c.tab \in Tabs
      /\ watching \subseteq {u \in Watchers : tab[u].status = "authed"}
      /\ tab \in [Tabs -> Tab]
      /\ rows[c.tab] \in [DOMAIN rows[c.tab] -> Row]
      /\ DOMAIN rows[c.tab] \subseteq DOMAIN jobs
      /\ DOMAIN jobs \subseteq DOMAIN jobs'
  BY JobsKept DEF Typed, SessionTyped, RowsTyped, CallsTyped, Call
<1>1. CASE LoginAccepted(c)
  <2>1. RowsTyped'
    BY <1>0, <1>1, RowsStay DEF LoginAccepted, upload
  <2>2. /\ issued' \in Seq(Accounts) /\ stored' \in DOMAIN issued'
        /\ calls' \subseteq calls \cup {CallOf(c.tab, "me", Nil, stored')}
        /\ watching' = watching
    BY <1>0, <1>1 DEF LoginAccepted, Typed, SessionTyped, CallFits, upload
  <2>3. CallsTyped'
    <3>1. PICK k \in DOMAIN issued' :
            calls' \subseteq calls \cup {CallOf(c.tab, "me", Nil, k)}
      BY <2>2
    <3>2. c.tab \in Tabs /\ watching \subseteq watching'
      BY <1>0, <2>2
    <3> QED
      BY <3>1, <3>2, CallSent
  <2> QED
    BY <2>1, <2>3
<1>2. CASE MeAnswered(c)
  <2>1. CASE issued[c.token] \in Uploaders
    <3>1. /\ UNCHANGED <<watching, rows>>
          /\ calls' = calls \ {c}
          /\ \A u \in watching : tab'[u].status = "authed"
      BY <1>0, <1>2, <2>1 DEF MeAnswered
    <3> QED
      BY <3>1, RowsStay, CallsReturn
  <2>2. CASE issued[c.token] \notin Uploaders
    <3>1. /\ Unmount(c.tab, calls \ {c})
          /\ \A u \in Tabs \ {c.tab} : tab'[u].status = tab[u].status
      BY <1>0, <1>2, <2>2 DEF MeAnswered
    <3> QED
      BY <1>0, <3>1, UnmountKept
  <2> QED
    BY <2>1, <2>2
<1>3. CASE BootFails(c) \/ Unauthorized(c)
  <2>1. /\ Unmount(c.tab, calls \ {c})
        /\ \A u \in Tabs \ {c.tab} : tab'[u].status = tab[u].status
    BY <1>0, <1>3 DEF BootFails, Unauthorized, SignedOut
  <2> QED
    BY <1>0, <2>1, UnmountKept
<1>4. CASE NothingCame(c) \/ CallFails(c)
  <2>1. UNCHANGED <<rows, watching, tab>> /\ calls' \subseteq calls
    BY <1>4 DEF NothingCame, CallFails, session, upload
  <2> QED
    BY <1>0, <2>1, RowsStay, CallsReturn
<1>5. CASE UploadAccepted(c)
  <2>1. /\ UNCHANGED <<watching, tab>> /\ calls' \subseteq calls
        /\ Len(jobs) + 1 \in DOMAIN jobs'
    BY <1>5 DEF UploadAccepted, Uploaded, session, Typed, JobsTyped
  <2>2. CASE c.live
    <3> DEFINE f == Watched(c, Len(jobs) + 1)
    <3>1. rows' = [rows EXCEPT ![c.tab] = f] /\ c.tab \in watching
      BY <1>0, <1>5, <2>2 DEF UploadAccepted, CallFits, OfThePage
    <3>2. DOMAIN f \subseteq DOMAIN rows[c.tab] \cup {Len(jobs) + 1}
      BY DEF Watched, Without
    <3>3. f \in [DOMAIN f -> Row]
      BY <1>0 DEF Watched, Without, Row
    <3> HIDE DEF f
    <3>4. RowsTyped'
      BY <1>0, <2>1, <3>1, <3>2, <3>3, RowsCarryOver
    <3> QED
      BY <2>1, <3>4, CallsReturn
  <2>3. CASE ~ c.live
    <3>1. UNCHANGED rows
      BY <1>5, <2>3 DEF UploadAccepted
    <3> QED
      BY <1>0, <2>1, <3>1, RowsStay, CallsReturn
  <2> QED
    BY <2>2, <2>3
<1>6. CASE UploadForbidden(c) \/ UploadFails(c)
  <2>1. /\ UNCHANGED <<watching, tab>> /\ calls' \subseteq calls
        /\ rows' = Restored(c)
    BY <1>6 DEF UploadForbidden, UploadFails, session
  <2>2. CASE c.kind = "retry" /\ c.live
    <3> DEFINE f == [rows[c.tab] EXCEPT ![c.about].at = "settled"]
    <3>1. rows' = [rows EXCEPT ![c.tab] = f] /\ c.tab \in watching
      BY <1>0, <2>1, <2>2 DEF Restored, CallFits, OfThePage
    <3>2. DOMAIN f = DOMAIN rows[c.tab] /\ f \in [DOMAIN f -> Row]
      BY <1>0, RowChanges
    <3> HIDE DEF f
    <3>3. RowsTyped'
      BY <1>0, <2>1, <3>1, <3>2, RowsCarryOver
    <3> QED
      BY <2>1, <3>3, CallsReturn
  <2>3. CASE ~ (c.kind = "retry" /\ c.live)
    <3>1. UNCHANGED rows
      BY <2>1, <2>3 DEF Restored
    <3> QED
      BY <1>0, <2>1, <3>1, RowsStay, CallsReturn
  <2> QED
    BY <2>2, <2>3
<1>7. CASE PollAnswered(c) \/ PollFails(c)
  <2>1. PICK s \in {"running"} \cup Ends :
          /\ UNCHANGED <<watching, tab>> /\ calls' \subseteq calls
          /\ c.kind = "poll" /\ Shows(c, s)
    <3>1. Reported(issued[c.token], c.about) \in {"running"} \cup Ends
          \/ c.kind # "poll"
      <4>1. ASSUME NEW j \in DOMAIN jobs
            PROVE  jobs[j].status \in {"running"} \cup Ends
        <5>1. jobs[j] \in Job
          BY LenProperties, ElementOfSeq DEF Typed, JobsTyped
        <5> QED
          BY <5>1 DEF Job
      <4> QED
        BY <1>0, <4>1 DEF Reported, CallFits, Ends
    <3> QED
      BY <1>7, <3>1 DEF PollAnswered, PollFails, session, Ends
  <2>2. CASE c.live
    <3> DEFINE r == [shown |-> s,
                     at |-> IF s \in TERMINAL THEN "settled" ELSE "timer"]
               f == [rows[c.tab] EXCEPT ![c.about] = r]
    <3>1. rows' = [rows EXCEPT ![c.tab] = f] /\ c.tab \in watching
      BY <1>0, <2>1, <2>2 DEF Shows, Read, CallFits, OfThePage
    <3>2. r \in Row
      BY DEF Row
    <3> HIDE DEF r
    <3>3. DOMAIN f = DOMAIN rows[c.tab] /\ f \in [DOMAIN f -> Row]
      BY <1>0, <3>2, RowChanges
    <3> HIDE DEF f
    <3>4. RowsTyped'
      BY <1>0, <2>1, <3>1, <3>3, RowsCarryOver
    <3> QED
      BY <2>1, <3>4, CallsReturn
  <2>3. CASE ~ c.live
    <3>1. UNCHANGED rows
      BY <2>1, <2>3 DEF Shows
    <3> QED
      BY <1>0, <2>1, <3>1, RowsStay, CallsReturn
  <2> QED
    BY <2>2, <2>3
<1> QED
  BY <1>1, <1>2, <1>3, <1>4, <1>5, <1>6, <1>7 DEF Answered

LEMMA TickKeeps ==
  ASSUME Typed, Next, NEW t \in Tabs, NEW j \in Jobs, Tick(t, j)
  PROVE  RowsTyped' /\ CallsTyped'
<1>0. j \in DOMAIN jobs /\ t \in watching
  BY PagesAreOpen DEF Tick, Typed, RowsTyped
<1>1. /\ stored \in DOMAIN issued \cup {Nil}
      /\ UNCHANGED <<watching, tab, issued>>
      /\ calls' = calls \cup {CallOf(t, "poll", j, stored)}
  BY DEF Tick, session, Typed, SessionTyped
<1> DEFINE f == [rows[t] EXCEPT ![j].at = "poll"]
<1>2. rows' = [rows EXCEPT ![t] = f]
  BY DEF Tick
<1>3. DOMAIN f = DOMAIN rows[t] /\ f \in [DOMAIN f -> Row]
  BY RowChanges
<1>4. DOMAIN rows[t] \subseteq DOMAIN jobs'
  BY JobsKept DEF Typed, RowsTyped
<1> HIDE DEF f
<1>5. RowsTyped'
  BY <1>0, <1>1, <1>2, <1>3, <1>4, RowsCarryOver
<1>6. CallsTyped'
  BY <1>0, <1>1, CallSent
<1> QED
  BY <1>5, <1>6

LEMMA TypedStep == Typed /\ [Next]_vars => Typed'
<1> SUFFICES ASSUME Typed, [Next]_vars PROVE Typed'
  OBVIOUS
<1>1. CASE UNCHANGED vars
  BY <1>1 DEF vars, session, upload, Typed, SessionTyped, JobsTyped,
     RowsTyped, CallsTyped, CallFits, OfThePage
<1>2. CASE Next
  <2>1. SessionTyped' /\ JobsTyped'
    BY <1>2, SessionKept, JobsKept
  <2>2. RowsTyped' /\ CallsTyped'
    <3>1. ASSUME NEW j \in Jobs, JobEnds(j) PROVE RowsTyped' /\ CallsTyped'
      <4>1. UNCHANGED <<rows, watching, tab, calls>>
        BY <3>1 DEF JobEnds, session
      <4> QED
        BY <1>2, <4>1, RowsStay, CallsReturn DEF Typed, RowsTyped
    <3>2. ASSUME NEW k \in Tokens, Expire(k) PROVE RowsTyped' /\ CallsTyped'
      <4>1. UNCHANGED <<rows, watching, tab, calls>>
        BY <3>2 DEF Expire, upload
      <4> QED
        BY <1>2, <4>1, RowsStay, CallsReturn DEF Typed, RowsTyped
    <3> QED
      BY <1>2, <3>1, <3>2, UserKeeps, TickKeeps, AnswersKeep DEF Next
  <2> QED
    BY <2>1, <2>2 DEF Typed
<1> QED
  BY <1>1, <1>2

(* In every state the variables of a browser have their types: no call or   *)
(* row is about a job or a token that was never given out, and no tab shows *)
(* the upload page without a session.                                       *)
THEOREM BrowserTypeCorrect == Spec => []TypeOK
<1>1. Spec => []Typed
  BY TypedInit, TypedStep, PTL DEF Spec
<1> QED
  BY <1>1, TypedImpliesTypeOK, PTL

-----------------------------------------------------------------------------
(* While nothing has gone wrong, tabs with a session find the token, and    *)
(* the calls of a session were sent with one.                               *)
Quiet == expired = {} /\ faults = 0 /\ logouts = 0

Sound ==
  Quiet =>
    /\ \A t \in Tabs : tab[t].status \in {"loading", "authed"} => stored # Nil
    /\ \A c \in calls : OfTheSession(c) => c.token # Nil /\ stored # Nil

(* What went wrong stays so, and what ends a session leaves a trace.        *)
LEMMA QuietStep ==
  ASSUME Typed, Next, Quiet'
  PROVE  /\ Quiet
         /\ \A t \in Tabs : ~ Logout(t)
         /\ \A c \in calls : ~ (BootFails(c) \/ CallFails(c) \/ UploadFails(c)
                                \/ PollFails(c))
<1>1. faults \in Nat /\ logouts \in Nat
  BY DEF Typed, SessionTyped
<1>2. /\ expired \subseteq expired'
      /\ faults' \in {faults, faults + 1}
      /\ logouts' \in {logouts, logouts + 1}
  BY DEF Next, User, Answered, Open, Login, Logout, Ask, Compare, OpenPage,
     LeavePage, Submit, Retry, Dismiss, LoginAccepted, MeAnswered, BootFails,
     Unauthorized, NothingCame, CallFails, UploadAccepted, UploadForbidden,
     UploadFails, PollAnswered, PollFails, Tick, JobEnds, Expire, session
<1>3. faults' # faults + 1 /\ logouts' # logouts + 1
  BY <1>1 DEF Quiet
<1> QED
  BY <1>1, <1>2, <1>3 DEF Quiet, Logout, BootFails, CallFails, UploadFails,
     PollFails

(* No 401 is about the stored session.                                      *)
LEMMA NoneUnauthorized ==
  ASSUME Sound, Quiet, NEW c \in calls
  PROVE  ~ Unauthorized(c)
BY DEF Sound, Quiet, Unauthorized

(* The steps that are left, by what they do to the session.                 *)
LEMMA SessionStep ==
  ASSUME Typed, Sound, Next, Quiet'
  PROVE  \/ UNCHANGED <<stored, tab>>
         \/ \E t \in Tabs : Open(t)
         \/ \E c \in calls : LoginAccepted(c) \/ MeAnswered(c)
BY QuietStep, NoneUnauthorized
   DEF Next, User, Answered, Login, Ask, Compare, OpenPage, LeavePage, Submit,
       Retry, Dismiss, NothingCame, UploadAccepted, UploadForbidden,
       PollAnswered, Tick, JobEnds, Expire, session

LEMMA SessionLasts ==
  ASSUME Typed, Sound, Next, Quiet'
  PROVE  /\ stored # Nil => stored' # Nil
         /\ \A t \in Tabs :
              tab[t].status = "authed" => tab'[t].status = "authed"
<1>0. tab \in [Tabs -> Tab]
  BY DEF Typed, SessionTyped
<1>1. ASSUME NEW t \in Tabs, Open(t)
      PROVE  /\ stored' = stored
             /\ \A u \in Tabs :
                  tab[u].status = "authed" => tab'[u].status = "authed"
  <2>1. /\ \E s : tab' = [tab EXCEPT ![t].status = s]
        /\ stored' = stored /\ tab[t].status = "closed"
    BY <1>1 DEF Open
  <2> QED
    BY <1>0, <2>1
<1>2. ASSUME NEW c \in calls, LoginAccepted(c)
      PROVE  stored' # Nil /\ tab' = tab
  BY <1>2, BrowserAssumption DEF LoginAccepted, Typed, SessionTyped, CallsTyped,
     CallFits
<1>3. ASSUME NEW c \in calls, MeAnswered(c)
      PROVE  /\ stored' = stored
             /\ \A u \in Tabs :
                  tab[u].status = "authed" => tab'[u].status = "authed"
  BY <1>0, <1>3 DEF MeAnswered
<1> QED
  BY <1>1, <1>2, <1>3, SessionStep

(* Where the token of a call comes from.                                    *)
LEMMA TokenSource ==
  ASSUME Typed, Next, NEW d \in calls', OfTheSession(d)
  PROVE  \/ \E c \in calls : OfTheSession(c) /\ d.token = c.token
         \/ /\ d.token = stored
            /\ stored # Nil \/ \E t \in Tabs : tab[t].status = "authed"
         \/ d.token = stored' /\ \E c \in calls : LoginAccepted(c)
<1> DEFINE Goal == \/ \E c \in calls : OfTheSession(c) /\ d.token = c.token
                   \/ /\ d.token = stored
                      /\ stored # Nil \/ \E t \in Tabs : tab[t].status = "authed"
                   \/ d.token = stored' /\ \E c \in calls : LoginAccepted(c)
<1>1. ASSUME NEW c \in calls, d = c \/ d = Orphaned(c) PROVE Goal
  <2>1. OfTheSession(c) /\ d.token = c.token
    BY <1>1, Orphans DEF OfTheSession, Typed, CallsTyped
  <2> QED
    BY <2>1
<1>2. ASSUME NEW t \in Tabs, NEW cs \in SUBSET calls, Unmount(t, cs) PROVE Goal
  BY <1>1, <1>2 DEF Unmount, WithoutPage
<1>3. ASSUME NEW t \in Tabs, NEW kind, NEW about,
             calls' \subseteq calls \cup {CallOf(t, kind, about, stored)},
             \/ kind = "login"
             \/ stored # Nil \/ \E u \in Tabs : tab[u].status = "authed"
      PROVE  Goal
  BY <1>1, <1>3 DEF CallOf, OfTheSession
<1>4. ASSUME NEW t \in Tabs, User(t) PROVE Goal
  <2>1. CASE Open(t)
    BY <1>1, <1>3, <2>1 DEF Open, Sends, Sent
  <2>2. CASE \E a \in Accounts : Login(t, a)
    BY <1>3, <2>2 DEF Login, Sends, Sent
  <2>3. CASE Logout(t) \/ LeavePage(t)
    BY <1>2, <2>3 DEF Logout, LeavePage
  <2>4. CASE Ask(t)
    BY <1>3, <2>4 DEF Ask, Sends, Sent
  <2>5. CASE Compare(t)
    BY <1>1, <2>5 DEF Compare, Sent, CallOf, OfTheSession
  <2>6. CASE OpenPage(t)
    BY <1>1, <2>6 DEF OpenPage
  <2>7. CASE Submit(t)
    <3>1. tab[t].status = "authed"
      BY <2>7 DEF Submit, Typed, RowsTyped
    <3> QED
      BY <1>3, <2>7, <3>1 DEF Submit, Sends, Sent
  <2>8. ASSUME NEW j \in Jobs, Retry(t, j) PROVE Goal
    <3>1. tab[t].status = "authed"
      BY <2>8, PagesAreOpen DEF Retry
    <3> QED
      BY <1>3, <2>8, <3>1 DEF Retry, Sends, Sent
  <2>9. ASSUME NEW j \in Jobs, Dismiss(t, j) PROVE Goal
    BY <1>1, <2>9 DEF Dismiss, WithoutRow
  <2> QED
    BY <1>4, <2>1, <2>2, <2>3, <2>4, <2>5, <2>6, <2>7, <2>8, <2>9 DEF User
<1>5. ASSUME NEW t \in Tabs, NEW j \in Jobs, Tick(t, j) PROVE Goal
  <2>1. tab[t].status = "authed"
    BY <1>5, PagesAreOpen DEF Tick
  <2> QED
    BY <1>3, <1>5, <2>1 DEF Tick
<1>6. ASSUME NEW c \in calls, Answered(c) PROVE Goal
  <2>0. c.tab \in Tabs
    BY DEF Typed, CallsTyped, Call
  <2>1. CASE LoginAccepted(c)
    BY <1>1, <2>1 DEF LoginAccepted, CallOf
  <2>2. CASE MeAnswered(c) \/ BootFails(c) \/ Unauthorized(c)
    BY <1>1, <1>2, <2>0, <2>2 DEF MeAnswered, BootFails, Unauthorized
  <2>3. CASE \/ NothingCame(c) \/ CallFails(c) \/ UploadAccepted(c)
             \/ UploadForbidden(c) \/ UploadFails(c) \/ PollAnswered(c)
             \/ PollFails(c)
    <3>1. calls' = calls \ {c}
      BY <2>3 DEF NothingCame, CallFails, UploadAccepted, UploadForbidden,
         UploadFails, PollAnswered, PollFails
    <3> QED
      BY <1>1, <3>1
  <2> QED
    BY <1>6, <2>1, <2>2, <2>3 DEF Answered
<1>7. CASE UNCHANGED calls
  BY <1>1, <1>7
<1> QED
  BY <1>4, <1>5, <1>6, <1>7 DEF Next, JobEnds, Expire

LEMMA SoundStep == Typed /\ Sound /\ [Next]_vars => Sound'
<1> SUFFICES ASSUME Typed, Sound, [Next]_vars, Quiet'
             PROVE  /\ \A t \in Tabs :
                         tab'[t].status \in {"loading", "authed"} => stored' # Nil
                    /\ \A c \in calls' :
                         OfTheSession(c) => c.token # Nil /\ stored' # Nil
  BY DEF Sound, OfTheSession
<1>1. CASE UNCHANGED vars
  BY <1>1 DEF vars, session, Sound, Quiet
<1>2. CASE Next
  <2>0. /\ Quiet /\ tab \in [Tabs -> Tab]
        /\ stored # Nil => stored' # Nil
    BY <1>2, QuietStep, SessionLasts DEF Typed, SessionTyped
  <2>1. ASSUME NEW t \in Tabs, tab'[t].status \in {"loading", "authed"}
        PROVE  stored' # Nil
    <3>1. CASE UNCHANGED <<stored, tab>>
      BY <2>0, <2>1, <3>1 DEF Sound
    <3>2. ASSUME NEW u \in Tabs, Open(u), stored = Nil PROVE FALSE
      <4>0. tab' = [tab EXCEPT ![u].status = "anon"]
        BY <3>2 DEF Open
      <4>1. tab'[t].status \in {tab[t].status, "anon"}
        BY <2>0, <4>0 DEF Tab
      <4> QED
        BY <2>0, <2>1, <3>2, <4>1 DEF Sound
    <3>3. ASSUME NEW c \in calls, LoginAccepted(c) PROVE stored' # Nil
      BY <3>3, BrowserAssumption DEF LoginAccepted, Typed, SessionTyped,
         CallsTyped, CallFits
    <3>4. ASSUME NEW c \in calls, MeAnswered(c) PROVE stored # Nil
      BY <2>0, <3>4 DEF MeAnswered, Sound, OfTheSession
    <3> QED
      BY <1>2, <2>0, <3>1, <3>2, <3>3, <3>4, SessionStep
  <2>2. ASSUME NEW d \in calls', OfTheSession(d)
        PROVE  d.token # Nil /\ stored' # Nil
    <3>1. ASSUME NEW c \in calls, LoginAccepted(c) PROVE stored' # Nil
      BY <3>1, BrowserAssumption DEF LoginAccepted, Typed, SessionTyped,
         CallsTyped, CallFits
    <3> QED
      BY <1>2, <2>0, <2>2, <3>1, TokenSource DEF Sound
  <2> QED
    BY <2>1, <2>2
<1> QED
  BY <1>1, <1>2

(* For any number of tabs and accounts: while no token has expired, nobody  *)
(* has signed out and every call got through, no answer ends a session or   *)
(* takes its token, in whatever order the answers come.                     *)
THEOREM SessionsLast == Spec => SessionsEndForAReason
<1>1. Init => Typed /\ Sound
  BY TypedInit DEF Init, Sound
<1>2. Typed /\ Sound /\ [Next]_vars => (Typed /\ Sound)'
  BY TypedStep, SoundStep
<1>3. ASSUME Typed, Sound, [Next]_vars
      PROVE  [expired' = {} /\ faults' = 0 /\ logouts' = 0 =>
                /\ stored # Nil => stored' # Nil
                /\ \A t \in Tabs :
                     tab[t].status = "authed" => tab'[t].status = "authed"]_vars
  BY <1>3, SessionLasts DEF Quiet
<1> QED
  BY <1>1, <1>2, <1>3, PTL DEF Spec, SessionsEndForAReason

-----------------------------------------------------------------------------
(* The upload page: what the users are told of.                            *)

OfARow(c) == c.live /\ c.kind \in {"retry", "poll"}

(* A call of a row finds the row, which waits for that call only; a job has *)
(* one row at most, in all the tabs.                                        *)
CallsHaveRows ==
  \A c \in calls : OfARow(c) =>
    c.about \in DOMAIN rows[c.tab] /\ rows[c.tab][c.about].at = c.kind

OneCallPerRow ==
  \A c, d \in calls :
    OfARow(c) /\ OfARow(d) /\ c.tab = d.tab /\ c.about = d.about => c = d

OneRowPerJob ==
  \A t, u \in Tabs : \A j \in DOMAIN rows[t] : j \in DOMAIN rows[u] => t = u

(* A job that was told of has no row that waits for its status.             *)
ToldIsSettled ==
  \A j \in Jobs : told[j] # <<>> =>
    /\ j \in DOMAIN jobs
    /\ \A t \in Tabs : j \in DOMAIN rows[t] =>
         rows[t][j].at \in {"settled", "retry"}

Watching == CallsHaveRows /\ OneCallPerRow /\ OneRowPerJob /\ ToldIsSettled

-----------------------------------------------------------------------------
LEMMA WatchingInit == Init => Watching
BY DEF Init, Watching, CallsHaveRows, OneCallPerRow, OneRowPerJob,
   ToldIsSettled

(* The rows stay, and no call of a row is sent.                             *)
LEMMA WatchingRests ==
  ASSUME Typed, Watching, Next, UNCHANGED <<rows, told>>,
         \A d \in calls' : OfARow(d) => d \in calls
  PROVE  Watching'
<1>1. CallsHaveRows' /\ OneCallPerRow'
  BY DEF Watching, CallsHaveRows, OneCallPerRow, OfARow
<1>2. OneRowPerJob' /\ ToldIsSettled'
  BY JobsKept DEF Watching, OneRowPerJob, ToldIsSettled
<1> QED
  BY <1>1, <1>2 DEF Watching

(* Some rows of a tab go, and one of a new job may come.                    *)
LEMMA WatchingShrinks ==
  ASSUME Typed, Watching, Next, NEW t \in Tabs, NEW f,
         rows' = [rows EXCEPT ![t] = f],
         \A k \in DOMAIN f :
           \/ k \in DOMAIN rows[t] /\ f[k] = rows[t][k]
           \/ k \notin DOMAIN jobs,
         \A d \in calls' : OfARow(d) =>
           d \in calls /\ (d.tab = t => d.about \in DOMAIN f),
         \A j \in Jobs : told'[j] # told[j] =>
           j \in DOMAIN rows[t] /\ j \notin DOMAIN f
  PROVE  Watching'
<1>1. ASSUME NEW u \in Tabs PROVE rows'[u] = IF u = t THEN f ELSE rows[u]
  BY DEF Typed, RowsTyped
<1>2. ASSUME NEW c \in calls
      PROVE  /\ c.tab \in Tabs
             /\ OfARow(c) => c.about \in DOMAIN jobs
  BY DEF Typed, CallsTyped, CallFits, Call, OfARow
<1>3. \A u \in Tabs : DOMAIN rows[u] \subseteq DOMAIN jobs
  BY DEF Typed, RowsTyped
<1>4. CallsHaveRows'
  BY <1>1, <1>2 DEF Watching, CallsHaveRows, OfARow
<1>5. OneCallPerRow'
  BY DEF Watching, OneCallPerRow, OfARow
<1>6. OneRowPerJob'
  BY <1>1, <1>3 DEF Watching, OneRowPerJob
<1>7. ToldIsSettled'
  <2>1. ASSUME NEW j \in Jobs, told'[j] # <<>>, NEW u \in Tabs,
               j \in DOMAIN rows'[u]
        PROVE  rows'[u][j].at \in {"settled", "retry"}
    BY <1>1, <1>3, <2>1 DEF Watching, ToldIsSettled, OneRowPerJob
  <2>2. ASSUME NEW j \in Jobs, told'[j] # <<>> PROVE j \in DOMAIN jobs'
    BY <1>3, <2>2, JobsKept DEF Watching, ToldIsSettled
  <2> QED
    BY <2>1, <2>2 DEF ToldIsSettled
<1> QED
  BY <1>4, <1>5, <1>6, <1>7 DEF Watching

(* A step in which row j of t becomes f[j]: it has the one call it waits    *)
(* for, and its job is told of only if it is settled.                       *)
RowMoves(t, j, f) ==
  /\ j \in DOMAIN rows[t]
  /\ rows' = [rows EXCEPT ![t] = f]
  /\ DOMAIN f = DOMAIN rows[t]
  /\ \A k \in DOMAIN f : k # j => f[k] = rows[t][k]
  /\ \A d \in calls' : OfARow(d) =>
       IF d.tab = t /\ d.about = j THEN d.kind = f[j].at ELSE d \in calls
  /\ \A c, d \in calls' :
       OfARow(c) /\ OfARow(d) /\ c.tab = t /\ d.tab = t /\ c.about = j
         /\ d.about = j => c = d
  /\ \A k \in Jobs : k # j => told'[k] = told[k]
  /\ told'[j] # <<>> => f[j].at \in {"settled", "retry"}

LEMMA WatchingMoves ==
  ASSUME Typed, Watching, Next, NEW t \in Tabs, NEW j, NEW f, RowMoves(t, j, f)
  PROVE  Watching'
<1>0. /\ j \in DOMAIN rows[t]
      /\ rows' = [rows EXCEPT ![t] = f]
      /\ DOMAIN f = DOMAIN rows[t]
      /\ \A k \in DOMAIN f : k # j => f[k] = rows[t][k]
  BY DEF RowMoves
<1>1. ASSUME NEW u \in Tabs PROVE rows'[u] = IF u = t THEN f ELSE rows[u]
  BY <1>0 DEF Typed, RowsTyped
<1>2. ASSUME NEW c \in calls PROVE c.tab \in Tabs
  BY DEF Typed, CallsTyped, Call
<1>3. j \in DOMAIN jobs
  BY <1>0 DEF Typed, RowsTyped
<1>4. CallsHaveRows'
  BY <1>0, <1>1, <1>2 DEF Watching, CallsHaveRows, OfARow, RowMoves
<1>5. OneCallPerRow'
  BY DEF Watching, OneCallPerRow, OfARow, RowMoves
<1>6. OneRowPerJob'
  BY <1>0, <1>1 DEF Watching, OneRowPerJob
<1>7. ToldIsSettled'
  <2>1. ASSUME NEW k \in Jobs, told'[k] # <<>>, NEW u \in Tabs,
               k \in DOMAIN rows'[u]
        PROVE  rows'[u][k].at \in {"settled", "retry"}
    BY <1>0, <1>1, <2>1 DEF RowMoves, Watching, ToldIsSettled, OneRowPerJob
  <2>2. ASSUME NEW k \in Jobs, told'[k] # <<>> PROVE k \in DOMAIN jobs'
    BY <1>3, <2>2, JobsKept DEF Watching, ToldIsSettled, RowMoves
  <2> QED
    BY <2>1, <2>2 DEF ToldIsSettled
<1> QED
  BY <1>4, <1>5, <1>6, <1>7 DEF Watching

(* A page goes; its job may be told of as it goes.                          *)
LEMMA WatchingUnmounts ==
  ASSUME Typed, Watching, Next, NEW t \in Tabs, NEW cs \in SUBSET calls,
         Unmount(t, cs),
         \A j \in Jobs : told'[j] # told[j] => j \in DOMAIN rows[t]
  PROVE  Watching'
<1>1. rows' = [rows EXCEPT ![t] = <<>>]
  BY DEF Unmount
<1>2. ASSUME NEW d \in calls', OfARow(d) PROVE d \in calls /\ d.tab # t
  <2>1. PICK c \in cs :
          \/ d = c /\ ~ (c.tab = t /\ c.kind \in {"upload", "retry", "poll"})
          \/ d = Orphaned(c)
    BY DEF Unmount, WithoutPage
  <2>2. d # Orphaned(c)
    BY <1>2, Orphans DEF OfARow, Typed, CallsTyped
  <2> QED
    BY <1>2, <2>1, <2>2 DEF OfARow
<1>3. DOMAIN <<>> = {}
  OBVIOUS
<1> QED
  BY <1>1, <1>2, <1>3, WatchingShrinks

LEMMA WatchingUser ==
  ASSUME Typed, Watching, Next, NEW t \in Tabs, User(t)
  PROVE  Watching'
<1>1. CASE Open(t)
  BY <1>1, WatchingRests DEF Open, Sends, Sent, CallOf, OfARow, upload
<1>2. CASE (\E a \in Accounts : Login(t, a)) \/ Ask(t) \/ Compare(t)
           \/ Submit(t)
  <2>1. \E kind \in {"login", "page", "compare", "upload"} : \E about, token :
          calls' = calls \cup {CallOf(t, kind, about, token)}
    BY <1>2 DEF Login, Ask, Compare, Submit, Sends, Sent
  <2>2. UNCHANGED <<rows, told>>
    BY <1>2 DEF Login, Ask, Compare, Submit, upload
  <2>3. \A d \in calls' : OfARow(d) => d \in calls
    BY <2>1 DEF CallOf, OfARow
  <2> QED
    BY <2>2, <2>3, WatchingRests
<1>3. CASE Logout(t) \/ LeavePage(t)
  BY <1>3, WatchingUnmounts DEF Logout, LeavePage
<1>4. CASE OpenPage(t)
  BY <1>4, WatchingRests DEF OpenPage
<1>5. ASSUME NEW j \in Jobs, Retry(t, j) PROVE Watching'
  <2> DEFINE f == [rows[t] EXCEPT ![j].at = "retry"]
             e == CallOf(t, "retry", j, stored)
  <2>1. /\ j \in DOMAIN rows[t] /\ told' = told
        /\ rows[t][j].at = "settled"
        /\ calls' = calls \cup {e}
        /\ rows' = [rows EXCEPT ![t] = f]
    BY <1>5 DEF Retry, Sends, Sent
  <2>2. /\ DOMAIN f = DOMAIN rows[t] /\ f[j].at = "retry"
        /\ \A k \in DOMAIN f : k # j => f[k] = rows[t][k]
    BY <2>1 DEF Typed, RowsTyped, Row
  <2>3. ASSUME NEW d \in calls, OfARow(d) PROVE ~ (d.tab = t /\ d.about = j)
    BY <2>1, <2>3 DEF Watching, CallsHaveRows, OfARow
  <2>4. e.tab = t /\ e.about = j /\ e.kind = "retry"
    BY DEF CallOf
  <2> HIDE DEF f, e
  <2>5. RowMoves(t, j, f)
    BY <2>1, <2>2, <2>3, <2>4 DEF RowMoves
  <2> QED
    BY <2>5, WatchingMoves
<1>6. ASSUME NEW j \in Jobs, Dismiss(t, j) PROVE Watching'
  <2> DEFINE f == Without(t, j)
  <2>1. rows' = [rows EXCEPT ![t] = f] /\ told' = told
    BY <1>6 DEF Dismiss
  <2>2. /\ DOMAIN f = DOMAIN rows[t] \ {j}
        /\ \A k \in DOMAIN f : k \in DOMAIN rows[t] /\ f[k] = rows[t][k]
    BY DEF Without
  <2>3. ASSUME NEW d \in calls', OfARow(d)
        PROVE  d \in calls /\ ~ (d.tab = t /\ d.about = j)
    <3>1. PICK c \in calls :
            \/ /\ d = c
               /\ ~ (c.tab = t /\ c.kind \in {"retry", "poll"} /\ c.about = j)
            \/ d = Orphaned(c)
      BY <1>6 DEF Dismiss, WithoutRow
    <3>2. d # Orphaned(c)
      BY <2>3, Orphans DEF OfARow, Typed, CallsTyped
    <3> QED
      BY <2>3, <3>1, <3>2 DEF OfARow
  <2>4. ASSUME NEW d \in calls', OfARow(d), d.tab = t
        PROVE  d.about \in DOMAIN f
    BY <2>2, <2>3, <2>4 DEF Watching, CallsHaveRows
  <2> HIDE DEF f
  <2> QED
    BY <2>1, <2>2, <2>3, <2>4, WatchingShrinks
<1> QED
  BY <1>1, <1>2, <1>3, <1>4, <1>5, <1>6 DEF User

LEMMA WatchingTick ==
  ASSUME Typed, Watching, Next, NEW t \in Tabs, NEW j \in Jobs, Tick(t, j)
  PROVE  Watching'
<1> DEFINE f == [rows[t] EXCEPT ![j].at = "poll"]
           e == CallOf(t, "poll", j, stored)
<1>1. /\ j \in DOMAIN rows[t] /\ told' = told
      /\ rows[t][j].at = "timer"
      /\ calls' = calls \cup {e}
      /\ rows' = [rows EXCEPT ![t] = f]
  BY DEF Tick
<1>2. /\ DOMAIN f = DOMAIN rows[t] /\ f[j].at = "poll"
      /\ \A k \in DOMAIN f : k # j => f[k] = rows[t][k]
  BY <1>1 DEF Typed, RowsTyped, Row
<1>3. ASSUME NEW d \in calls, OfARow(d) PROVE ~ (d.tab = t /\ d.about = j)
  BY <1>1, <1>3 DEF Watching, CallsHaveRows, OfARow
<1>4. e.tab = t /\ e.about = j /\ e.kind = "poll"
  BY DEF CallOf
<1>5. told[j] = <<>>
  BY <1>1 DEF Watching, ToldIsSettled
<1> HIDE DEF f, e
<1>6. RowMoves(t, j, f)
  BY <1>1, <1>2, <1>3, <1>4, <1>5 DEF RowMoves
<1> QED
  BY <1>6, WatchingMoves

LEMMA WatchingAnswer ==
  ASSUME Typed, Watching, Next, NEW c \in calls, Answered(c)
  PROVE  Watching'
<1>0. /\ c \in Call /\ CallFits(c) /\ c.tab \in Tabs
      /\ told \in [Jobs -> Seq(Ends)]
      /\ OfARow(c) => /\ c.about \in DOMAIN rows[c.tab]
                      /\ rows[c.tab][c.about] \in Row
                      /\ rows[c.tab][c.about].at = c.kind
                      /\ \A d \in calls \ {c} : OfARow(d) =>
                           ~ (d.tab = c.tab /\ d.about = c.about)
  BY DEF Typed, JobsTyped, RowsTyped, CallsTyped, Call, Watching,
     CallsHaveRows, OneCallPerRow
<1>1. CASE LoginAccepted(c)
  BY <1>1, WatchingRests DEF LoginAccepted, CallOf, OfARow, upload
<1>2. CASE MeAnswered(c) \/ BootFails(c)
  BY <1>0, <1>2, WatchingRests, WatchingUnmounts DEF MeAnswered, BootFails
<1>3. CASE Unauthorized(c)
  <2>1. \A j \in Jobs : told'[j] # told[j] => j \in DOMAIN rows[c.tab]
    BY <1>0, <1>3 DEF Unauthorized, OfARow
  <2> QED
    BY <1>0, <1>3, <2>1, WatchingUnmounts DEF Unauthorized
<1>4. CASE NothingCame(c) \/ CallFails(c)
  BY <1>4, WatchingRests DEF NothingCame, CallFails, upload
<1>5. CASE UploadAccepted(c)
  <2>1. calls' = calls \ {c} /\ told' = told
    BY <1>5 DEF UploadAccepted
  <2>2. CASE ~ c.live
    BY <1>5, <2>1, <2>2, WatchingRests DEF UploadAccepted
  <2>3. CASE c.live
    <3> DEFINE f == Watched(c, Len(jobs) + 1)
    <3>1. /\ rows' = [rows EXCEPT ![c.tab] = f]
          /\ c.kind \in {"upload", "retry"}
      BY <1>5, <2>3 DEF UploadAccepted
    <3>2. Len(jobs) + 1 \notin DOMAIN jobs
      BY DEF Typed, JobsTyped
    <3>3. ASSUME NEW k \in DOMAIN f
          PROVE  \/ k \in DOMAIN rows[c.tab] /\ f[k] = rows[c.tab][k]
                 \/ k \notin DOMAIN jobs
      BY <3>2 DEF Watched, Without
    <3>4. DOMAIN rows[c.tab] \ (IF c.kind = "retry" THEN {c.about} ELSE {})
            \subseteq DOMAIN f
      BY DEF Watched, Without
    <3>5. ASSUME NEW d \in calls', OfARow(d), d.tab = c.tab
          PROVE  d.about \in DOMAIN f
      BY <1>0, <2>1, <2>3, <3>1, <3>4, <3>5 DEF Watching, CallsHaveRows, OfARow
    <3> HIDE DEF f
    <3> QED
      BY <1>0, <2>1, <3>1, <3>3, <3>5, WatchingShrinks
  <2> QED
    BY <2>2, <2>3
<1>6. CASE UploadForbidden(c) \/ UploadFails(c)
  <2>1. /\ calls' = calls \ {c} /\ told' = told /\ rows' = Restored(c)
    BY <1>6 DEF UploadForbidden, UploadFails
  <2>2. CASE ~ (c.kind = "retry" /\ c.live)
    BY <2>1, <2>2, WatchingRests DEF Restored
  <2>3. CASE c.kind = "retry" /\ c.live
    <3> DEFINE f == [rows[c.tab] EXCEPT ![c.about].at = "settled"]
    <3>1. rows' = [rows EXCEPT ![c.tab] = f]
      BY <2>1, <2>3 DEF Restored
    <3>2. OfARow(c)
      BY <2>3 DEF OfARow
    <3>3. \A d \in calls' : OfARow(d) =>
            d \in calls /\ ~ (d.tab = c.tab /\ d.about = c.about)
      BY <1>0, <2>1, <3>2
    <3>4. c.about \in DOMAIN rows[c.tab]
      BY <1>0, <3>2
    <3>5. /\ DOMAIN f = DOMAIN rows[c.tab] /\ f[c.about].at = "settled"
          /\ \A k \in DOMAIN f : k # c.about => f[k] = rows[c.tab][k]
      BY <1>0, <3>4 DEF Typed, RowsTyped, Row
    <3> HIDE DEF f
    <3>6. RowMoves(c.tab, c.about, f)
      BY <2>1, <3>1, <3>3, <3>4, <3>5 DEF RowMoves
    <3> QED
      BY <1>0, <3>6, WatchingMoves
  <2> QED
    BY <2>2, <2>3
<1>7. CASE PollAnswered(c) \/ PollFails(c)
  <2>1. PICK s : calls' = calls \ {c} /\ c.kind = "poll" /\ Shows(c, s)
    BY <1>7 DEF PollAnswered, PollFails
  <2>2. CASE ~ c.live
    BY <2>1, <2>2, WatchingRests DEF Shows
  <2>3. CASE c.live
    <3> DEFINE r == [shown |-> s,
                     at |-> IF s \in TERMINAL THEN "settled" ELSE "timer"]
               f == [rows[c.tab] EXCEPT ![c.about] = r]
    <3>1. /\ rows' = [rows EXCEPT ![c.tab] = f]
          /\ told' = Settled(c.about, s)
      BY <2>1, <2>3 DEF Shows, Read
    <3>2. OfARow(c) /\ c.about \in Jobs
      BY <1>0, <2>1, <2>3, BrowserAssumption
         DEF OfARow, CallFits, Typed, JobsTyped, Jobs
    <3>3. told[c.about] = <<>>
      BY <1>0, <2>1, <3>2 DEF Watching, ToldIsSettled
    <3>4. \A k \in Jobs : k # c.about => told'[k] = told[k]
      BY <1>0, <3>1 DEF Settled
    <3>5. told'[c.about] # <<>> => r.at = "settled"
      BY <3>1, <3>3 DEF Settled
    <3> HIDE DEF r
    <3>6. \A d \in calls' : OfARow(d) =>
            d \in calls /\ ~ (d.tab = c.tab /\ d.about = c.about)
      BY <1>0, <2>1, <3>2
    <3>7. c.about \in DOMAIN rows[c.tab]
      BY <1>0, <3>2
    <3>8. /\ DOMAIN f = DOMAIN rows[c.tab] /\ f[c.about] = r
          /\ \A k \in DOMAIN f : k # c.about => f[k] = rows[c.tab][k]
      BY <1>0, <3>7 DEF Typed, RowsTyped
    <3> HIDE DEF f
    <3>9. RowMoves(c.tab, c.about, f)
      BY <3>1, <3>4, <3>5, <3>6, <3>7, <3>8 DEF RowMoves
    <3> QED
      BY <1>0, <3>9, WatchingMoves
  <2> QED
    BY <2>2, <2>3
<1> QED
  BY <1>1, <1>2, <1>3, <1>4, <1>5, <1>6, <1>7 DEF Answered

LEMMA WatchingStep == Typed /\ Watching /\ [Next]_vars => Watching'
<1> SUFFICES ASSUME Typed, Watching, [Next]_vars PROVE Watching'
  OBVIOUS
<1>1. CASE UNCHANGED vars
  BY <1>1 DEF vars, upload, Watching, CallsHaveRows, OneCallPerRow,
     OneRowPerJob, ToldIsSettled
<1>2. CASE Next
  <2>1. ASSUME NEW j \in Jobs, JobEnds(j) PROVE Watching'
    BY <1>2, <2>1, WatchingRests DEF JobEnds
  <2>2. ASSUME NEW k \in Tokens, Expire(k) PROVE Watching'
    BY <1>2, <2>2, WatchingRests DEF Expire, upload
  <2> QED
    BY <1>2, <2>1, <2>2, WatchingUser, WatchingTick, WatchingAnswer DEF Next
<1> QED
  BY <1>1, <1>2

-----------------------------------------------------------------------------
(* What is said of a job when its row is settled.                           *)
LEMMA SuccessIsTrue ==
  ASSUME Typed, Next, NEW j \in Jobs, told'[j] # told[j],
         told[j] = <<>>, told'[j] = <<"SUCCESS">>
  PROVE  jobs[j].status = "SUCCESS"
<1>1. ASSUME NEW c \in calls, NEW s \in Ends, c.kind = "poll",
             told' = [told EXCEPT ![c.about] = Append(@, s)]
      PROVE  c.about = j /\ s = "SUCCESS"
  <2>1. c.about = j /\ told'[j] = Append(told[j], s)
    BY <1>1 DEF Typed, JobsTyped
  <2>2. Append(<<>>, s) = <<s>>
    OBVIOUS
  <2> QED
    BY <2>1, <2>2
<1>2. PICK c \in calls : Unauthorized(c) \/ PollAnswered(c) \/ PollFails(c)
  BY DEF Next, User, Answered, Open, Login, Logout, Ask, Compare, OpenPage,
     LeavePage, Submit, Retry, Dismiss, LoginAccepted, MeAnswered, BootFails,
     NothingCame, CallFails, UploadAccepted, UploadForbidden, UploadFails,
     Tick, JobEnds, Expire, upload
<1>3. ~ Unauthorized(c)
  BY <1>1 DEF Unauthorized, Ends
<1>4. ~ PollFails(c)
  BY <1>1 DEF PollFails, Shows, Settled, Ends
<1>5. CASE PollAnswered(c)
  <2>1. c.about = j /\ Reported(issued[c.token], j) = "SUCCESS"
    BY <1>1, <1>5 DEF PollAnswered, Shows, Settled, TERMINAL
  <2> QED
    BY <2>1 DEF Reported
<1> QED
  BY <1>2, <1>3, <1>4, <1>5

(* For any number of tabs, accounts and jobs: a toast about a job is the    *)
(* first about it, and about a job whose row is there and waits for its     *)
(* status; only a job that succeeded is called indexed.                     *)
THEOREM ToastsOnce == Spec => ToastsAreDue
<1>1. Init => Typed /\ Watching
  BY TypedInit, WatchingInit
<1>2. Typed /\ Watching /\ [Next]_vars => (Typed /\ Watching)'
  BY TypedStep, WatchingStep
<1>3. ASSUME Typed, Watching, [Next]_vars
      PROVE  [\A j \in Jobs : told'[j] # told[j] =>
                /\ told[j] = <<>>
                /\ \E t \in Tabs : j \in DOMAIN rows[t] /\ rows[t][j].at = "poll"
                /\ told'[j] = <<"SUCCESS">> => jobs[j].status = "SUCCESS"]_vars
  <2>1. SUFFICES ASSUME Next, NEW j \in Jobs, told'[j] # told[j]
                 PROVE  /\ told[j] = <<>>
                        /\ \E t \in Tabs : /\ j \in DOMAIN rows[t]
                                           /\ rows[t][j].at = "poll"
                        /\ told'[j] = <<"SUCCESS">> => jobs[j].status = "SUCCESS"
    BY <1>3
  <2>2. PICK c \in calls, s \in Ends :
          /\ c.kind = "poll" /\ c.live
          /\ told' = [told EXCEPT ![c.about] = Append(@, s)]
    BY <1>3, <2>1, ToldStep
  <2>3. c.about = j /\ c.tab \in Tabs
    BY <1>3, <2>1, <2>2 DEF Typed, JobsTyped, CallsTyped, Call
  <2>4. j \in DOMAIN rows[c.tab] /\ rows[c.tab][j].at = "poll"
    BY <1>3, <2>2, <2>3 DEF Watching, CallsHaveRows, OfARow
  <2>5. told[j] = <<>>
    BY <1>3, <2>3, <2>4 DEF Watching, ToldIsSettled
  <2> QED
    BY <1>3, <2>1, <2>3, <2>4, <2>5, SuccessIsTrue
<1> QED
  BY <1>1, <1>2, <1>3, PTL DEF Spec, ToastsAreDue

=============================================================================
