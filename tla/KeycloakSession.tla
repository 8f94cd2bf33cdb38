--------------------------- MODULE KeycloakSession ---------------------------
(***************************************************************************)
(* The authenticated life of one Keycloak object (keycloak.js), from the   *)
(* moment init has resolved with tokens: calls of updateToken that share   *)
(* one refresh request, the session-status iframe that answers every       *)
(* pending check at once, the poll that watches the session, the timer     *)
(* behind onTokenExpired, and clearToken.                                   *)
(*                                                                         *)
(* JavaScript runs one task at a time and then drains its microtasks.      *)
(* `jobs' is the microtask queue: a handler of an external event (a        *)
(* message, an XMLHttpRequest, a timer) runs only when it is empty.  Calls *)
(* of the public API come from the application, which runs in tasks and in *)
(* microtasks of its own, so they need no such guard.                      *)
(***************************************************************************)
EXTENDS Naturals, Sequences, FiniteSets

CONSTANTS
  Calls,          \* the calls of updateToken the application makes
  Forced,         \* those made with minValidity = -1
  IframeEnabled,  \* loginIframe.enable, as init left it
  LoginRequired,  \* kc.loginRequired
  Poll,           \* the owner of the check made by scheduleCheckIframe
  Faults          \* ways in which a 200 answer can make its handler throw

ASSUME ConstantsAssumption ==
  /\ Forced \subseteq Calls
  /\ IframeEnabled \in BOOLEAN
  /\ LoginRequired \in BOOLEAN
  /\ Poll \notin Calls
  /\ Faults \subseteq {"badBody", "listenerThrows"}

VARIABLES
  token,               \* kc.token: which issue of the access token, 0 = none
  refreshToken,        \* kc.refreshToken: the issue it came with, 0 = none
  expiring,            \* isTokenExpired(minValidity) of the current token
  issued,              \* how many token sets setToken has stored
  tokenTimeoutHandle,  \* the issue the remembered timer was set for, 0 = null
  timers,              \* the issues with an onTokenExpired timer running
  promise,             \* what each call of updateToken got back
  refreshQueue,        \* the promises that wait for the refresh request
  requests,            \* refresh requests at the token endpoint
  callbackList,        \* the checks that wait for the session iframe
  iframeIn,            \* messages posted to the session iframe, not yet read
  iframeOut,           \* its answers, not yet delivered to this window
  poll,                \* where the chain of scheduleCheckIframe stands
  jobs,                \* microtasks that keycloak.js has queued
  sessionActive,       \* the server still has the SSO session
  redirected,          \* clearToken has asked for kc.login()
  revived,             \* history: tokens were stored while there were none
  fired                \* history: the listeners the last step has called

tokens == <<token, refreshToken, expiring, issued, tokenTimeoutHandle, timers>>
iframe == <<callbackList, iframeIn, iframeOut>>
vars == <<token, refreshToken, expiring, issued, tokenTimeoutHandle, timers,
          promise, refreshQueue, requests, callbackList, iframeIn, iframeOut,
          poll, jobs, sessionActive, redirected, revived, fired>>

Good      == {"ok", "okNoRefreshToken"}            \* 200 with tokens
Answers   == Good \cup {"badRequest", "failed"} \cup Faults
Request   == [by : Calls, sent : Nat, answer : Answers \cup {"none"}]
Found     == {"unchanged", "changed", "error"}     \* what a check of the session says
Job       == [who : Calls \cup {Poll}, found : Found]
Settled   == {"refreshed", "valid", "error"}       \* true, false, rejected
Listeners == {"onAuthLogout", "onAuthRefreshSuccess", "onAuthRefreshError", "onTokenExpired"}

(***************************************************************************)
(* init resolved with kc.authenticated.  Tokens of a code exchange come    *)
(* with a time skew and so with a timer; tokens handed to init may not,    *)
(* and then count as expired.  The poll was started if the iframe is on.   *)
(***************************************************************************)
Init ==
  /\ token = 1 /\ refreshToken = 1 /\ issued = 1
  /\ tokenTimeoutHandle \in {0, 1}
  /\ timers = {tokenTimeoutHandle} \ {0}
  /\ expiring \in (IF tokenTimeoutHandle = 0 THEN {TRUE} ELSE BOOLEAN)
  /\ promise = [c \in Calls |-> "idle"]
  /\ refreshQueue = <<>> /\ requests = {}
  /\ callbackList = <<>> /\ iframeIn = 0 /\ iframeOut = <<>>
  /\ poll = IF IframeEnabled THEN "timer" ELSE "off"
  /\ jobs = <<>>
  /\ sessionActive = TRUE
  /\ redirected = FALSE /\ revived = FALSE /\ fired = {}

-----------------------------------------------------------------------------
(* The functions the handlers call.                                         *)

\* Mutant of Settle: the answers of earlier calls are lost.
Settle_ForgetsOthers(cs, outcome) == promise' = [c \in cs |-> outcome]

Settle(cs, outcome) ==
  promise' = [c \in Calls |-> IF c \in cs THEN outcome ELSE promise[c]]

\* Mutant of SetToken: the timer of the old token is not cancelled.
SetToken_KeepsTimer(access, refresh) ==
  /\ token' = access
  /\ refreshToken' = refresh
  /\ expiring' = FALSE
  /\ tokenTimeoutHandle' = access
  /\ timers' = timers \cup ({access} \ {0})

\* setToken: the old timer is cancelled, a new one set for a new token.
SetToken(access, refresh) ==
  /\ token' = access
  /\ refreshToken' = refresh
  /\ expiring' = FALSE
  /\ tokenTimeoutHandle' = access
  /\ timers' = (timers \ {tokenTimeoutHandle}) \cup ({access} \ {0})

StoreTokens(refresh) ==
  /\ issued' = issued + 1
  /\ SetToken(issued + 1, refresh)
  /\ revived' = (revived \/ token = 0)

\* Mutant of ClearToken: the refresh token stays.
ClearToken_KeepsRefreshToken ==
  /\ \/ /\ token # 0
        /\ SetToken(0, refreshToken)
        /\ redirected' = (redirected \/ LoginRequired)
     \/ /\ token = 0
        /\ UNCHANGED <<token, refreshToken, expiring, tokenTimeoutHandle, timers, redirected>>
  /\ UNCHANGED <<issued, revived>>

\* kc.clearToken: without a token it does nothing at all.
ClearToken ==
  /\ \/ /\ token # 0
        /\ SetToken(0, 0)
        /\ redirected' = (redirected \/ LoginRequired)
     \/ /\ token = 0
        /\ UNCHANGED <<token, refreshToken, expiring, tokenTimeoutHandle, timers, redirected>>
  /\ UNCHANGED <<issued, revived>>

\* Mutant of LogoutListener: clearToken calls onAuthLogout also without a token.
LogoutListener_Always == {"onAuthLogout"}

LogoutListener == IF token # 0 THEN {"onAuthLogout"} ELSE {}

\* isTokenExpired throws when there is an access token but nothing to refresh it.
NotAuthenticated(c) == c \notin Forced /\ token # 0 /\ refreshToken = 0

\* Mutant of NeedsRefresh: a token that expires soon is good enough.
NeedsRefresh_IgnoresExpiry(c) == c \in Forced \/ token = 0

NeedsRefresh(c) == c \in Forced \/ token = 0 \/ expiring

\* Mutant of Exec: every call that needs a refresh sends a request.
Exec_AlwaysSends(c) ==
  \/ /\ NotAuthenticated(c)
     /\ Settle({c}, "error")
     /\ UNCHANGED <<refreshQueue, requests>>
  \/ /\ ~NotAuthenticated(c) /\ ~NeedsRefresh(c)
     /\ Settle({c}, "valid")
     /\ UNCHANGED <<refreshQueue, requests>>
  \/ /\ ~NotAuthenticated(c) /\ NeedsRefresh(c)
     /\ Settle({c}, "pending")
     /\ refreshQueue' = Append(refreshQueue, c)
     /\ requests' = requests \cup {[by |-> c, sent |-> refreshToken, answer |-> "none"]}

\* exec, the inner function of updateToken.  It reads the tokens anew.
Exec(c) ==
  \/ /\ NotAuthenticated(c)
     /\ Settle({c}, "error")
     /\ UNCHANGED <<refreshQueue, requests>>
  \/ /\ ~NotAuthenticated(c) /\ ~NeedsRefresh(c)
     /\ Settle({c}, "valid")
     /\ UNCHANGED <<refreshQueue, requests>>
  \/ /\ ~NotAuthenticated(c) /\ NeedsRefresh(c)
     /\ Settle({c}, "pending")
     /\ refreshQueue' = Append(refreshQueue, c)
     /\ requests' = IF refreshQueue = <<>>
                    THEN requests \cup {[by |-> c, sent |-> refreshToken, answer |-> "none"]}
                    ELSE requests

\* Mutant of CheckLoginIframe: every check posts a message of its own.
CheckLoginIframe_AlwaysPosts(w) ==
  /\ callbackList' = Append(callbackList, w)
  /\ iframeIn' = iframeIn + 1
  /\ UNCHANGED iframeOut

\* checkLoginIframe: only the first waiting check posts a message.
CheckLoginIframe(w) ==
  /\ callbackList' = Append(callbackList, w)
  /\ iframeIn' = IF callbackList = <<>> THEN iframeIn + 1 ELSE iframeIn
  /\ UNCHANGED iframeOut

-----------------------------------------------------------------------------
(* The application.                                                         *)

UpdateToken(c) ==
  /\ promise[c] = "idle"
  /\ \/ /\ refreshToken = 0
        /\ Settle({c}, "error")
        /\ UNCHANGED <<refreshQueue, requests, iframe>>
     \/ /\ refreshToken # 0 /\ IframeEnabled
        /\ Settle({c}, "pending")
        /\ CheckLoginIframe(c)
        /\ UNCHANGED <<refreshQueue, requests>>
     \/ /\ refreshToken # 0 /\ ~IframeEnabled
        /\ Exec(c)
        /\ UNCHANGED iframe
  /\ fired' = {}
  /\ UNCHANGED <<tokens, poll, jobs, sessionActive, redirected, revived>>

CallClearToken ==
  /\ token # 0
  /\ ClearToken
  /\ fired' = LogoutListener
  /\ UNCHANGED <<promise, refreshQueue, requests, iframe, poll, jobs, sessionActive>>

-----------------------------------------------------------------------------
(* The refresh request: its answer and onreadystatechange.                  *)

\* External: the token endpoint.  Only a refresh token of a live session earns
\* tokens; a request without one, or for a dead session, is a 400.
Answer(r, a) ==
  /\ r.answer = "none"
  /\ (a \in Good \/ a = "listenerThrows") => (sessionActive /\ r.sent # 0)
  /\ (a = "badRequest") => (~sessionActive \/ r.sent = 0)
  /\ requests' = (requests \ {r}) \cup {[r EXCEPT !.answer = a]}
  /\ fired' = {}
  /\ UNCHANGED <<tokens, promise, refreshQueue, iframe, poll, jobs, sessionActive,
                 redirected, revived>>

\* Mutants of Drain: the queue is not emptied; only one promise is popped.
Drain_KeepsQueue(outcome) ==
  /\ Settle({refreshQueue[i] : i \in DOMAIN refreshQueue}, outcome)
  /\ UNCHANGED refreshQueue

Drain_PopsOne(outcome) ==
  /\ Settle({refreshQueue[Len(refreshQueue)]}, outcome)
  /\ refreshQueue' = SubSeq(refreshQueue, 1, Len(refreshQueue) - 1)

Drain(outcome) ==
  /\ Settle({refreshQueue[i] : i \in DOMAIN refreshQueue}, outcome)
  /\ refreshQueue' = <<>>

RefreshSucceeded(r) ==
  /\ jobs = <<>>
  /\ r.answer \in Good
  /\ requests' = requests \ {r}
  /\ StoreTokens(IF r.answer = "ok" THEN issued + 1 ELSE 0)
  /\ Drain("refreshed")
  /\ fired' = {"onAuthRefreshSuccess"}
  /\ UNCHANGED <<iframe, poll, jobs, sessionActive, redirected>>

RefreshRejected(r) ==
  /\ jobs = <<>>
  /\ r.answer \in {"badRequest", "failed"}
  /\ requests' = requests \ {r}
  /\ \/ /\ r.answer = "badRequest"
        /\ ClearToken
        /\ fired' = LogoutListener \cup {"onAuthRefreshError"}
     \/ /\ r.answer = "failed"
        /\ fired' = {"onAuthRefreshError"}
        /\ UNCHANGED <<tokens, redirected, revived>>
  /\ Drain("error")
  /\ UNCHANGED <<iframe, poll, jobs, sessionActive>>

\* JSON.parse or the listener throws: the loop that empties refreshQueue is not reached.
RefreshThrows(r) ==
  /\ jobs = <<>>
  /\ r.answer \in Faults
  /\ requests' = requests \ {r}
  /\ \/ /\ r.answer = "badBody"
        /\ fired' = {}
        /\ UNCHANGED <<tokens, revived>>
     \/ /\ r.answer = "listenerThrows"
        /\ StoreTokens(issued + 1)
        /\ fired' = {"onAuthRefreshSuccess"}
  /\ UNCHANGED <<promise, refreshQueue, iframe, poll, jobs, sessionActive, redirected>>

-----------------------------------------------------------------------------
(* The session-status iframe and the poll.                                  *)

\* External: the page in the iframe compares the session with its cookie.
IframeAnswer(d) ==
  /\ iframeIn > 0
  /\ d = "unchanged" => sessionActive
  /\ d = "changed" => ~sessionActive
  /\ iframeIn' = iframeIn - 1
  /\ iframeOut' = Append(iframeOut, d)
  /\ fired' = {}
  /\ UNCHANGED <<tokens, promise, refreshQueue, requests, callbackList, poll, jobs,
                 sessionActive, redirected, revived>>

\* Mutant of Callbacks: splice leaves one check out.
Callbacks_DropsLast(d) ==
  [i \in 1..(Len(callbackList) - 1) |->
     [who |-> callbackList[Len(callbackList) + 1 - i], found |-> d]]

\* What the then of each check will run; the last check of the list comes first.
Callbacks(d) ==
  [i \in 1..Len(callbackList) |->
     [who |-> callbackList[Len(callbackList) + 1 - i], found |-> d]]

MessageCallback ==
  /\ jobs = <<>>
  /\ iframeOut # <<>>
  /\ LET d == Head(iframeOut) IN
       /\ jobs' = Callbacks(d)
       /\ \/ /\ d = "unchanged"
             /\ fired' = {}
             /\ UNCHANGED <<tokens, redirected, revived>>
          \/ /\ d # "unchanged"
             /\ ClearToken
             /\ fired' = LogoutListener
  /\ callbackList' = <<>>
  /\ iframeOut' = Tail(iframeOut)
  /\ UNCHANGED <<promise, refreshQueue, requests, iframeIn, poll, sessionActive>>

\* updateToken went on waiting for the check; exec ignores what the check found.
RunCallOfCheck ==
  /\ jobs # <<>>
  /\ Head(jobs).who # Poll
  /\ \/ Head(jobs).found # "error" /\ Exec(Head(jobs).who)
     \/ /\ Head(jobs).found = "error"
        /\ Settle({Head(jobs).who}, "error")
        /\ UNCHANGED <<refreshQueue, requests>>
  /\ jobs' = Tail(jobs)
  /\ fired' = {}
  /\ UNCHANGED <<tokens, iframe, poll, sessionActive, redirected, revived>>

\* Mutant of RunPollOfCheck: the next check is scheduled when something changed.
RunPollOfCheck_Inverted ==
  /\ jobs # <<>>
  /\ Head(jobs).who = Poll
  /\ poll' = IF Head(jobs).found # "unchanged" /\ token # 0 THEN "timer" ELSE "off"
  /\ jobs' = Tail(jobs)
  /\ fired' = {}
  /\ UNCHANGED <<tokens, promise, refreshQueue, requests, iframe, sessionActive,
                 redirected, revived>>

\* scheduleCheckIframe after a check of its own: again only if nothing changed.
RunPollOfCheck ==
  /\ jobs # <<>>
  /\ Head(jobs).who = Poll
  /\ poll' = IF Head(jobs).found = "unchanged" /\ token # 0 THEN "timer" ELSE "off"
  /\ jobs' = Tail(jobs)
  /\ fired' = {}
  /\ UNCHANGED <<tokens, promise, refreshQueue, requests, iframe, sessionActive,
                 redirected, revived>>

PollTimer ==
  /\ jobs = <<>>
  /\ poll = "timer"
  /\ poll' = "check"
  /\ CheckLoginIframe(Poll)
  /\ fired' = {}
  /\ UNCHANGED <<tokens, promise, refreshQueue, requests, jobs, sessionActive,
                 redirected, revived>>

-----------------------------------------------------------------------------
(* Time and the server.                                                     *)

TokenAges ==
  /\ token # 0 /\ ~expiring
  /\ expiring' = TRUE
  /\ fired' = {}
  /\ UNCHANGED <<token, refreshToken, issued, tokenTimeoutHandle, timers, promise,
                 refreshQueue, requests, iframe, poll, jobs, sessionActive, redirected, revived>>

TokenTimer(v) ==
  /\ jobs = <<>>
  /\ timers' = timers \ {v}
  /\ expiring' = (token # 0)
  /\ fired' = {"onTokenExpired"}
  /\ UNCHANGED <<token, refreshToken, issued, tokenTimeoutHandle, promise, refreshQueue,
                 requests, iframe, poll, jobs, sessionActive, redirected, revived>>

\* External: the user logs out in another tab, or the session times out.
SessionEnds ==
  /\ sessionActive
  /\ sessionActive' = FALSE
  /\ fired' = {}
  /\ UNCHANGED <<tokens, promise, refreshQueue, requests, iframe, poll, jobs,
                 redirected, revived>>

-----------------------------------------------------------------------------
TokenEndpoint  == \E r \in requests, a \in Answers : Answer(r, a)
RefreshHandler == \E r \in requests : RefreshSucceeded(r) \/ RefreshRejected(r) \/ RefreshThrows(r)
SessionIframe  == \E d \in Found : IframeAnswer(d)
Microtask      == RunCallOfCheck \/ RunPollOfCheck

Next ==
  \/ \E c \in Calls : UpdateToken(c)
  \/ CallClearToken
  \/ TokenEndpoint
  \/ RefreshHandler
  \/ SessionIframe
  \/ MessageCallback
  \/ Microtask
  \/ PollTimer
  \/ TokenAges
  \/ \E v \in timers : TokenTimer(v)
  \/ SessionEnds

(***************************************************************************)
(* Fairness.  The browser runs queued microtasks, and serves each source   *)
(* of tasks again and again: strong fairness, since a handler is disabled  *)
(* while microtasks are pending.  The network answers or fails; the page   *)
(* in the iframe answers.  The application, the user and time owe nothing. *)
(***************************************************************************)
Fairness ==
  /\ WF_vars(Microtask)
  /\ SF_vars(MessageCallback)
  /\ SF_vars(RefreshHandler)
  /\ SF_vars(PollTimer)
  /\ WF_vars(TokenEndpoint)
  /\ WF_vars(SessionIframe)

Spec     == Init /\ [][Next]_vars
FairSpec == Spec /\ Fairness
-----------------------------------------------------------------------------
(* Properties.                                                              *)

TokensTypeOK ==
  /\ token \in Nat /\ refreshToken \in Nat /\ issued \in Nat
  /\ tokenTimeoutHandle \in Nat /\ timers \subseteq Nat
  /\ expiring \in BOOLEAN

CallsTypeOK ==
  /\ promise \in [Calls -> {"idle", "pending"} \cup Settled]
  /\ refreshQueue \in Seq(Calls)
  /\ requests \subseteq Request

ChecksTypeOK ==
  /\ callbackList \in Seq(Calls \cup {Poll})
  /\ iframeIn \in Nat
  /\ iframeOut \in Seq(Found)
  /\ poll \in {"off", "timer", "check"}
  /\ jobs \in Seq(Job)

\* Every variable stays in the range the code gives it.
TypeOK ==
  /\ TokensTypeOK
  /\ CallsTypeOK
  /\ ChecksTypeOK
  /\ sessionActive \in BOOLEAN /\ redirected \in BOOLEAN /\ revived \in BOOLEAN
  /\ fired \subseteq Listeners

\* However many calls of updateToken overlap, at most one refresh request is
\* outside, and whoever asked for it is still in the queue.
SingleFlight ==
  /\ \A r, s \in requests : r = s
  /\ requests # {} => refreshQueue # <<>>

\* Nobody waits in refreshQueue for a request that is not under way: the loop
\* that pops it runs before the next push decides not to send.
QueueServed == refreshQueue # <<>> => requests # {}

\* The checks in callbackList share exactly one message: it is at the iframe
\* or its answer is on the way, and no answer comes without a list to answer.
ListServed ==
  IF callbackList = <<>> THEN iframeIn + Len(iframeOut) = 0
                         ELSE iframeIn + Len(iframeOut) = 1

\* A pending call waits in one place only, and a settled one in none: no call
\* is lost when a list is spliced, and none is answered twice.
Places(c) ==
  {<<"queue", i>> : i \in {j \in DOMAIN refreshQueue : refreshQueue[j] = c}} \cup
  {<<"list", i>> : i \in {j \in DOMAIN callbackList : callbackList[j] = c}} \cup
  {<<"job", i>> : i \in {j \in DOMAIN jobs : jobs[j].who = c}}

OnePlace ==
  \A c \in Calls : IF promise[c] = "pending" THEN \E p \in Places(c) : Places(c) = {p}
                                             ELSE Places(c) = {}

\* An onTokenExpired timer runs only for the token in use: a refresh, a logout
\* and a late answer all leave no timer of an earlier token behind.
TimerOfCurrentToken == timers \subseteq ({token} \ {0})

\* With the iframe enabled, an authenticated session is watched: the chain of
\* scheduleCheckIframe has a timer or a check under way, as long as no late
\* answer brought back tokens that clearToken had removed.
SessionWatched == (IframeEnabled /\ token # 0 /\ ~revived) => poll # "off"

\* What a call is told is so at that moment: "valid" of a token that is there
\* and not about to expire, "refreshed" only together with the new tokens.
AnswersAreTrue ==
  [][\A c \in Calls : promise'[c] # promise[c] =>
       /\ promise'[c] = "valid" => (token' # 0 /\ ~expiring' /\ c \notin Forced)
       /\ promise'[c] = "refreshed" => (token' = issued' /\ issued' > issued)]_vars

\* After clearToken tokens come back only by the answer to a refresh request
\* that was sent before it: a request sent while there are none carries none,
\* and without an older one outside the tokens stay away.
NoResurrection ==
  [][token = 0 =>
       /\ \A r \in requests' : r.sent = 0 \/ \E q \in requests : q.by = r.by /\ q.sent = r.sent
       /\ (\A r \in requests : r.sent = 0) => token' = 0]_vars

\* onAuthLogout is called exactly when the user stops being authenticated,
\* although three handlers and the application may clear the tokens.
LogoutAnnounced ==
  [][("onAuthLogout" \in fired') <=> (token # 0 /\ token' = 0)]_vars

\* Every call of updateToken is answered in the end, whatever the server says.
CallsSettle == \A c \in Calls : (promise[c] = "pending") ~> (promise[c] \in Settled)

\* With the iframe enabled the end of the session is noticed without any call
\* of updateToken, unless a late answer brought tokens back.
LogoutNoticed == (IframeEnabled /\ ~sessionActive) ~> (token = 0 \/ revived)

\* The code implements the shared refresh that its callers rely on.
Refresher == INSTANCE SharedRefresh WITH
  waiting <- {refreshQueue[i] : i \in DOMAIN refreshQueue},
  inFlight <- requests # {}
RefresherLive == Refresher!FairSpec
=============================================================================
