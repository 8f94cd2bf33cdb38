----------------------------- MODULE ResourcesTab -----------------------------
(***************************************************************************)
(* ResourcesTab.tsx of the account console with ShareTheResource,          *)
(* EditTheResource and PermissionRequest: the resources of a user, who     *)
(* else may use them, and the requests of others.  The permissions of a    *)
(* resource are fetched when one of its toggles is used first and are kept *)
(* in `details'.  Every handler goes on, after its awaits, with the        *)
(* `details' and the `key' of the render in which it was clicked.          *)
(***************************************************************************)
EXTENDS Naturals, FiniteSets

CONSTANTS
  Resources, Users, Scopes,
  Wanted,       \* the scopes that a request asks for
  Choices,      \* bound: the sets of scopes that the user picks
  InitShares,   \* what is shared with whom to start with
  InitPending,  \* who has a request pending to start with
  MaxJobs,      \* bound: handlers under way at the same time
  MaxClicks,    \* bound: clicks that start a handler
  MaxRequests,  \* bound: requests made while the page is open
  MaxFailures   \* bound: calls of the account API that fail

ASSUME ResourcesAssumption ==
  /\ Wanted \subseteq Scopes /\ Choices \subseteq SUBSET Scopes
  /\ InitShares \in [Resources -> [Users -> SUBSET Scopes]]
  /\ InitPending \in [Resources -> SUBSET Users]
  /\ MaxJobs \in Nat \ {0} /\ MaxClicks \in Nat /\ MaxFailures \in Nat
  /\ MaxRequests \in Nat

VARIABLES
  shares,    \* server: the scopes of each user on each resource
  pending,   \* server: the users with a request
  withAskers, \* server: permissions list those who have nothing but a request
  requests,  \* how many requests were made since the page is open
  listed,    \* resources[..].shareRequests, as of the last fetch
  key,       \* the state that starts a new fetch
  fetch,     \* the fetch that is not aborted: the requests answered so far
  details,   \* the state of the same name
  form,      \* the permissions that EditTheResource took when it was mounted
  jobs,      \* the handlers under way
  clicks, failures,
  behind,    \* history: resources whose details may be out of date
  answered,  \* history: requests that were answered with success and not made again
  skipped    \* history: the last refresh has not fetched the list

vars == <<shares, pending, withAskers, requests, listed, key, fetch, details, form, jobs, clicks, failures,
          behind, answered, skipped>>
server == <<shares, pending, withAskers, requests>>
list   == <<listed, key, fetch, answered, skipped>>
table  == <<details, form, behind>>

Fields  == {"rowOpen", "shareDialogOpen", "editDialogOpen"}   \* contextOpen works like rowOpen
Nothing == [open |-> {}, known |-> FALSE, permissions |-> <<>>]
NoFetch == [asked |-> FALSE, got |-> <<>>]
Asked   == [asked |-> TRUE, got |-> <<>>]
Slots   == 1..MaxJobs
Idle    == [kind |-> "idle"]
Holders(r) == {u \in Users : shares[r][u] # {}}

\* External: the permissions of a resource.  Whether a server lists those who have
\* nothing but a request is not known here, but it does so always or never.
Permissions(r) ==
  [u \in IF withAskers THEN Holders(r) \cup pending[r] ELSE Holders(r) |-> shares[r][u]]

\* After the first fetch.
Init ==
  /\ shares = InitShares /\ pending = InitPending
  /\ withAskers \in BOOLEAN /\ requests = 0
  /\ listed = InitPending /\ key = 1 /\ fetch = NoFetch
  /\ details = [r \in Resources |-> Nothing] /\ form = [r \in Resources |-> <<>>]
  /\ jobs = [s \in Slots |-> Idle]
  /\ clicks = 0 /\ failures = 0
  /\ behind = {} /\ answered = {} /\ skipped = FALSE

\* External: somebody asks for scopes, for the first time or once more.
RequestMade(r, u) ==
  /\ requests < MaxRequests /\ requests' = requests + 1
  /\ u \notin pending[r] /\ ~(Wanted \subseteq shares[r][u])
  /\ pending' = [pending EXCEPT ![r] = @ \cup {u}]
  /\ answered' = answered \ {<<r, u>>}
  /\ UNCHANGED <<shares, withAskers, table, listed, key, fetch, skipped, jobs, clicks, failures>>

-----------------------------------------------------------------------------
(* The state of the page.                                                   *)

\* setDetails.  A dialog that it mounts takes the permissions into its form.
SetDetails(new) ==
  /\ details' = new
  /\ form' = [r \in Resources |->
                IF "editDialogOpen" \notin new[r].open THEN <<>>
                ELSE IF "editDialogOpen" \in details[r].open THEN form[r] ELSE new[r].permissions]

\* Mutant of Reset: a change that went well leaves the details as they are.
Reset_Keeps == UNCHANGED table

\* setDetails({}): every row is closed and asks again when it is opened.
Reset == SetDetails([r \in Resources |-> Nothing]) /\ behind' = {}

\* Mutant of Restart: a fetch that is under way is waited for.
Restart_Waits == fetch' = IF fetch.asked THEN fetch ELSE Asked

\* usePromise: the fetch of the dependencies before is aborted, another one begins.
Restart == fetch' = Asked

\* refresh, with the key of the render: setKey does nothing when it has that value already.
Refresh(old) ==
  /\ key' = old + 1
  /\ IF key = old + 1 THEN UNCHANGED fetch /\ skipped' = TRUE
     ELSE Restart /\ skipped' = FALSE
  /\ UNCHANGED listed

\* onFilter and the pages: other params, another fetch.
SetParams ==
  /\ clicks < MaxClicks /\ clicks' = clicks + 1
  /\ Restart /\ skipped' = FALSE
  /\ UNCHANGED <<server, table, listed, key, answered, jobs, failures>>

\* The requests of each resource are answered on their own.
RequestsServed(r) ==
  /\ fetch.asked /\ r \notin DOMAIN fetch.got
  /\ fetch' = [fetch EXCEPT !.got = [q \in DOMAIN @ \cup {r} |-> IF q = r THEN pending[r] ELSE @[q]]]
  /\ UNCHANGED <<server, table, listed, key, answered, skipped, jobs, clicks, failures>>

FetchArrives ==
  /\ fetch.asked /\ DOMAIN fetch.got = Resources
  /\ listed' = fetch.got
  /\ fetch' = NoFetch
  /\ UNCHANGED <<server, table, key, answered, skipped, jobs, clicks, failures>>

\* Nobody catches it: the list stays.
FetchFails ==
  /\ fetch.asked /\ failures < MaxFailures /\ failures' = failures + 1
  /\ fetch' = NoFetch /\ skipped' = TRUE
  /\ UNCHANGED <<server, table, listed, key, answered, jobs, clicks>>

-----------------------------------------------------------------------------
(* The handlers.  A job knows the details and the key of its render.        *)

\* History: permissions or details have changed, or a call has failed, under the other handlers.
Disturb(s) ==
  [t \in Slots |-> IF t # s /\ jobs[t] # Idle THEN [jobs[t] EXCEPT !.alone = FALSE] ELSE jobs[t]]

Click(s, job) ==
  /\ jobs[s] = Idle /\ \A t \in Slots : t < s => jobs[t] # Idle
  /\ clicks < MaxClicks /\ clicks' = clicks + 1
  /\ jobs' = [jobs EXCEPT ![s] = job]
  /\ UNCHANGED <<server, failures>>

WriteJob(kind, r, todo) ==
  [kind |-> kind, r |-> r, step |-> "put", todo |-> todo, failed |-> FALSE, alone |-> TRUE]

ToggleJob(r, field) ==
  [kind |-> "toggle", r |-> r, step |-> "read", todo |-> {}, failed |-> FALSE, alone |-> TRUE,
   field |-> field, seen |-> details, past |-> behind, got |-> <<>>]

DecideJob(r, u, approve) ==
  [kind |-> "decide", r |-> r, step |-> "read", todo |-> {}, failed |-> FALSE, alone |-> TRUE,
   user |-> u, approve |-> approve, key |-> key, was |-> shares[r]]

\* Mutant of ToggleUnknown: the row is opened at once, its permissions come later.
ToggleUnknown_OpensFirst(s, r, field) ==
  /\ ~details[r].known /\ details[r].open = {}
  /\ Click(s, ToggleJob(r, field))
  /\ SetDetails([details EXCEPT ![r].open = {field}])
  /\ UNCHANGED <<list, behind>>

\* toggleOpen of a row whose permissions are not known: they are fetched.
ToggleUnknown(s, r, field) ==
  /\ ~details[r].known /\ field # "editDialogOpen"
  /\ Click(s, ToggleJob(r, field))
  /\ UNCHANGED <<list, table>>

\* toggleOpen of the others: nothing to wait for.
ToggleKnown(r, field) ==
  LET open == details[r].open
  IN /\ details[r].known
     /\ field = "editDialogOpen" => "rowOpen" \in open /\ details[r].permissions # <<>>
     /\ field # "rowOpen" => field \notin open
     /\ clicks < MaxClicks /\ clicks' = clicks + 1
     /\ SetDetails([details EXCEPT ![r].open = IF field \in open THEN open \ {field} ELSE open \cup {field}])
     /\ UNCHANGED <<server, list, jobs, failures, behind>>

\* onClose of a dialog.
CloseDialog ==
  /\ \E r \in Resources : details[r].open \ {"rowOpen"} # {}
  /\ clicks < MaxClicks /\ clicks' = clicks + 1
  /\ Reset
  /\ jobs' = Disturb(0)
  /\ UNCHANGED <<server, list, failures>>

\* Everybody is left without scopes, in one call.
RemoveShare(s, r) ==
  /\ "rowOpen" \in details[r].open /\ details[r].permissions # <<>>
  /\ Click(s, WriteJob("unshare", r, {[u \in DOMAIN details[r].permissions |-> {}]}))
  /\ UNCHANGED <<list, table>>

\* A call for each user.  The names that were added have no permissions yet as far as
\* the dialog knows; validateUser does not look at the one typed last.
AddShare(s, r, users, scopes) ==
  /\ "shareDialogOpen" \in details[r].open
  /\ users \ DOMAIN details[r].permissions # {}
  /\ Cardinality(users \cap DOMAIN details[r].permissions) <= 1
  /\ Click(s, WriteJob("share", r, {[v \in {u} |-> scopes] : u \in users}))
  /\ UNCHANGED <<list, table>>

\* A call for each user of the form, one of whom got other scopes.
EditShares(s, r, u, scopes) ==
  /\ "editDialogOpen" \in details[r].open /\ u \in DOMAIN form[r]
  /\ Click(s, WriteJob("edit", r, {[v \in {w} |-> IF w = u THEN scopes ELSE form[r][w]] :
                                      w \in DOMAIN form[r]}))
  /\ UNCHANGED <<list, table>>

ApproveDeny(s, r, u, approve) ==
  /\ u \in listed[r]
  /\ Click(s, DecideJob(r, u, approve))
  /\ UNCHANGED <<list, table>>

-----------------------------------------------------------------------------
(* What follows the awaits.                                                 *)

\* Mutant of Decision: an accepted user has what he asked for, and nothing else.
Decision_ForgetsOld(job, permissions) == IF job.approve THEN Wanted ELSE permissions[job.user]

Decision(job, permissions) ==
  IF job.approve THEN permissions[job.user] \cup Wanted ELSE permissions[job.user]

\* fetchPermission is answered.  `find(..)!' of a user who is not there throws.
ReadServed(s) ==
  LET job == jobs[s]
  IN /\ job # Idle /\ job.step = "read"
     /\ LET p == Permissions(job.r)
        IN jobs' = [jobs EXCEPT ![s] =
             IF job.kind = "toggle" THEN [@ EXCEPT !.step = "go", !.got = p]
             ELSE IF job.user \in DOMAIN p
             THEN [@ EXCEPT !.step = "put", !.todo = {[v \in {job.user} |-> Decision(job, p)]}]
             ELSE Idle]
     /\ UNCHANGED <<server, list, table, clicks, failures>>

\* The rest of toggleOpen: the details of its render, and its row.
ToggleEnds(s) ==
  LET job == jobs[s]
  IN /\ job # Idle /\ job.step = "go"
     /\ SetDetails([job.seen EXCEPT ![job.r] =
                      [open |-> {job.field}, known |-> TRUE, permissions |-> job.got]])
     /\ behind' = IF job.alone THEN (behind \cup job.past) \ {job.r} ELSE Resources
     /\ jobs' = [jobs EXCEPT ![s] = Idle]
     /\ UNCHANGED <<server, list, clicks, failures>>

\* One call that changes permissions, at the server.  A user's request goes with it.
PutServed(s, put) ==
  LET job == jobs[s]
  IN /\ job # Idle /\ put \in job.todo
     /\ shares' = [shares EXCEPT ![job.r] =
                     [u \in Users |-> IF u \in DOMAIN put THEN put[u] ELSE @[u]]]
     /\ pending' = [pending EXCEPT ![job.r] = @ \ DOMAIN put]
     /\ behind' = IF job.kind = "decide" \/ job.failed THEN behind \cup {job.r} ELSE behind
     /\ jobs' = [Disturb(s) EXCEPT ![s].todo = @ \ {put}]
     /\ UNCHANGED <<withAskers, requests, list, details, form, clicks, failures>>

\* One call fails: the user is told so, the other calls of a Promise.all go on.
CallFails(s) ==
  LET job == jobs[s]
  IN /\ job # Idle /\ failures < MaxFailures /\ failures' = failures + 1
     /\ \/ /\ job.step = "read"
           /\ jobs' = [jobs EXCEPT ![s] = Idle]
           /\ UNCHANGED behind
        \/ \E put \in job.todo :
             /\ jobs' = [Disturb(s) EXCEPT ![s].todo = @ \ {put}, ![s].failed = TRUE]
             /\ behind' = behind \cup {job.r}
     /\ UNCHANGED <<server, list, details, form, clicks>>

\* All calls are answered: removeShare and onClose reset the details, a decision
\* refreshes the list.
JobEnds(s) ==
  LET job == jobs[s]
  IN /\ job # Idle /\ job.step = "put" /\ job.todo = {}
     /\ jobs' = [Disturb(s) EXCEPT ![s] = Idle]
     /\ \/ job.failed /\ UNCHANGED <<table, list>>
        \/ /\ ~job.failed /\ job.kind = "decide"
           /\ Refresh(job.key)
           /\ answered' = answered \cup ({<<job.r, job.user>>} \ {<<job.r, u>> : u \in pending[job.r]})
           /\ UNCHANGED table
        \/ /\ ~job.failed /\ job.kind # "decide"
           /\ Reset
           /\ UNCHANGED list
     /\ UNCHANGED <<server, clicks, failures>>

-----------------------------------------------------------------------------
Clicked(s) ==
  \E r \in Resources :
    \/ \E field \in Fields : ToggleUnknown(s, r, field)
    \/ RemoveShare(s, r)
    \/ \E users \in SUBSET Users, scopes \in Choices : AddShare(s, r, users, scopes)
    \/ \E u \in Users, scopes \in Choices : EditShares(s, r, u, scopes)
    \/ \E u \in Users, approve \in BOOLEAN : ApproveDeny(s, r, u, approve)

Goes(s) ==
  \/ ReadServed(s)
  \/ ToggleEnds(s)
  \/ jobs[s] # Idle /\ \E put \in jobs[s].todo : PutServed(s, put)
  \/ CallFails(s)
  \/ JobEnds(s)

Next ==
  \/ \E s \in Slots : Clicked(s) \/ Goes(s)
  \/ \E r \in Resources, field \in Fields : ToggleKnown(r, field)
  \/ CloseDialog
  \/ SetParams
  \/ \E r \in Resources : RequestsServed(r)
  \/ FetchArrives
  \/ FetchFails
  \/ \E r \in Resources, u \in Users : RequestMade(r, u)

Spec == Init /\ [][Next]_vars
-----------------------------------------------------------------------------
(* Properties.                                                              *)

\* Every variable stays in the range the code gives it.
TypeOK ==
  /\ shares \in [Resources -> [Users -> SUBSET Scopes]]
  /\ \A r \in Resources :
       /\ pending[r] \subseteq Users /\ listed[r] \subseteq Users
       /\ details[r].open \subseteq Fields /\ DOMAIN details[r].permissions \subseteq Users
       /\ details[r].open # {} => details[r].known
       /\ DOMAIN form[r] \subseteq Users
  /\ key \in Nat /\ behind \subseteq Resources

\* When no handler is under way, the permissions that a row, a dialog or the check
\* for users who are there already go by are those of the server, except after an
\* accepted request, a call that failed, or a toggle whose awaits something has overtaken.
Given(p) == {<<u, p[u]>> : u \in {v \in DOMAIN p : p[v] # {}}}

SharesShown ==
  (\A s \in Slots : jobs[s] = Idle) =>
    \A r \in Resources \ behind :
      details[r].known => Given(details[r].permissions) = Given(shares[r])

\* A request that was answered with success is not offered again once the list is
\* there, unless the refresh was lost.
AnsweredGone ==
  (~fetch.asked /\ ~skipped) => \A a \in answered : a[2] \notin listed[a[1]]

\* An answer that nothing has overtaken gives the user what he asked for, or nothing,
\* and takes no scope from him or from anybody else, whatever the page has cached.
AcceptAdds ==
  [][\A s \in Slots :
       LET job == jobs[s]
       IN (job # Idle /\ jobs'[s] = Idle /\ job.kind = "decide" /\ job.step = "put"
             /\ job.alone /\ ~job.failed)
            => shares[job.r] = [job.was EXCEPT ![job.user] =
                                  IF job.approve THEN @ \cup Wanted ELSE @]]_vars

-----------------------------------------------------------------------------
(* What the page says and the code does not do.                             *)

\* translation.json:150, the button "Unshare all": when it has told "Resource
\* successfully un-shared." and nothing has overtaken it, nobody is left.
UnshareRemovesAll ==
  [][\A s \in Slots :
       LET job == jobs[s]
       IN (job # Idle /\ jobs'[s] = Idle /\ job.kind = "unshare" /\ job.alone /\ ~job.failed)
            => \A u \in Users : shares[job.r][u] = {}]_vars
=============================================================================
