# Keycloak UI: formal models

TLA+ specifications of the parts of this repository that carry state across
asynchronous steps, the TLC configurations that check them on small instances,
and theorems about them that TLAPS proves for every instance.

The repository is a monorepo: two single-page applications (the admin console
and the account console) and the libraries they share. Most of its 1300 files
render forms over one resource and make one call per button. The logic that is
hard to get right sits in few places: the JavaScript adapter `keycloak-js`, which
owns the session and the tokens; the hooks and contexts with which the consoles
fetch data and follow the realm; and the pages whose handlers are chains of
calls. These are modelled.

Contents: [1 The system](#1-the-system) - [2 What is hard](#2-what-is-hard) -
[3 Modules](#3-modules-and-the-code-they-model) - [4 Runs](#4-runs) -
[5 Fairness](#5-fairness) - [6 Proofs](#6-proofs) - [7 Findings](#7-findings) -
[8 Limits](#8-abstractions-and-limits) - [9 Plan](#9-plan)

To check everything, in this directory:

    tlc -workers 2 -config session_safety.cfg MCKeycloakSession     # a run
    tlapm KeycloakSession_proofs.tla                                # the proofs of a module


## 1 The system

    application (admin-ui, account-ui)
       |  useFetch / useAlerts / contexts          React state of each page
       v
    keycloak-admin-client  --getAccessToken-->  keycloak-js  <--> session iframe
       |  agent.ts: one fetch per call              |   ^ messages, timers, redirects
       v                                            v   |
    admin REST API  <------ the server ------>  token endpoint, login pages
                                                    ^
                        other tabs: localStorage or cookies

| Component | State it keeps | Operations | Correct when | Status |
|---|---|---|---|---|
| keycloak-js, session (`keycloak.js` 575-700, 963-1020, 1206-1298) | tokens, `refreshQueue`, `loginIframe.callbackList`, the timer of `onTokenExpired`, the poll | `updateToken`, answers of the refresh, `messageCallback`, `scheduleCheckIframe`, `clearToken` | each call is answered once and truthfully, refreshes are shared, the session stays watched, logout is announced once | modelled: KeycloakSession |
| keycloak-js, init (60-327, 720-798, 1206-1337) | init options, `loginIframe.enable`, `silentCheckSsoRedirectUri`, the promise of init | `init`, `processInit`, `onLoad`, `processCallback`, silent check, third-party cookie check | what init promises agrees with tokens, listeners, poll and redirects; init ends | modelled: KeycloakInit |
| keycloak-js, callback storage (390-473, 1056-1150, 1620-1729) | `kc-callback-<state>` entries shared by all tabs | `add`, `get`, `clearExpired` | a used callback is not found again, pending logins are not lost, old ones go | modelled: CallbackStorage |
| keycloak-js, token clock (583-601, 963-1020) | `timeSkew`, `tokenParsed.exp`, the delay of the timer | `isTokenExpired`, `setToken` | what is believed of a token's life is true within a known error | modelled: TokenClock |
| keycloak-js, Cordova adapters (1400-1615) | in-app browser windows | login, logout in a window | | not modelled: neither console uses it |
| keycloak-js, configuration and URLs | | `loadConfig`, `createLoginUrl`, ... | | not modelled beyond success and failure: formatting |
| keycloak-js, UMA client (`keycloak-authz.js`) | `rpt`, one shared `then` | `authorize`, `entitlement` | overlapping calls keep their callbacks and permissions | not modelled: planned, neither console loads it |
| admin client (`client.ts`, `agent.ts`) | base URL, realm, token provider | one request per method, after awaiting a token | a request goes to the realm it is meant for | partly: AdminRealm |
| admin client, resources | none | tables of paths | | not modelled: no state |
| admin console, data fetching (`AdminClient.tsx`) | one AbortController per effect | `useFetch`, the token provider | only the latest fetch reaches a mounted component | partly: KeycloakDataTable, AdminRealm |
| admin console, data table (`KeycloakDataTable.tsx`, `PaginatingTableToolbar.tsx`, `TableToolbar.tsx`) | `first`, `max`, `search`, `rows`, cached data, `selected` | paging, search, selection, row actions, refresh | rows, page, spinner and checkboxes agree; selection survives paging | partly: KeycloakDataTable (see 8) |
| admin console, realm and access (`RealmContext`, `Access`, `WhoAmI`, `NewRealmForm`, `RealmSelector`) | the realm of the URL, that of the client, the access list | switch of the realm, new realm | pages show, and act on, the realm they are in; the access list is that of the realm | partly: AdminRealm |
| admin console, authentication flows (`execution-model.ts`, `FlowDetails.tsx`, `FlowDiagram.tsx`) | the tree of executions | drag and drop, delete, add | the tree fits the rows, the diagram is connected, chains of calls end with the flow that was drawn | partly: ExecutionList, FlowDiagram, FlowDetails |
| admin console, forms and pages | one form each | load, save | | not modelled: rendering and single calls |
| account console, resources and sharing | `details` per row, `key` | toggle a row, share, edit, unshare, answer a request | what the page shows of the shares is true; answers take nothing away | partly: ResourcesTab |
| account console, requests and sessions | | `request`, `usePromise` | as `useFetch` | partly: `usePromise` in ResourcesTab |
| ui-shared (alerts, stored state) | list of alerts, items of `localStorage` | add, hide, store | no alert is lost; tabs agree | not modelled: planned |
| masthead, test server, build, Cypress | | | | not modelled: rendering and tooling |

How they interact: the consoles call `init` once per page load and start to
render when it resolves; every REST call awaits `updateToken` first; so the
refresh queue is shared by all requests of a page. The session iframe, the
token endpoint and the timers call back into keycloak-js as separate tasks, and
promises resume callers as microtasks between them. Tabs share only the callback
storage and the server's session. In a console, `useFetch` turns promises into
React state and aborts what a newer render has made stale. One admin client
serves all pages; the realm its requests go to is set by an effect of
`RealmContextProvider`, while its pages come and go. Handlers of buttons are not
aborted by anything: they go on after their awaits with the state of the render
in which they were clicked.


## 2 What is hard

Each hazard is listed at its line in `PROJECT.json`. In groups:

- **Interleavings.** Calls of `updateToken` overlap and share a request (631), and
  the checks of the session share a message (1290) whose list is spliced while
  the microtasks of its promises are queued (1252). Overlapping fetches of a table
  come back in any order. Permissions change between the two calls with which a request
  is accepted (`PermissionRequest.tsx` 51).
- **State read before a wait and used after it.** `updateToken` looks for a refresh
  token before it waits for the iframe and reads it again afterwards (606, 626); a
  refresh may be answered after `clearToken` (650); the URL of a request is put together
  before its token is there (`agent.ts` 199).
- **Handlers of an earlier render.** A toggle spreads the `details` of its render over
  what others have set meanwhile (`ResourcesTab.tsx` 122), `refresh` sets the `key` of its
  render plus one (66), `selected` flags of rows are those of the render in which the
  fetch began (`KeycloakDataTable.tsx` 246).
- **The switch of the realm.** Effects of pages run before the one that tells the client about
  the realm (`RealmContext.tsx` 32); the access list comes from two sources (`Access.tsx` 25);
  a new realm has none until `whoAmI` is answered again (`NewRealmForm.tsx` 57).
- **Chains of calls.** A row dropped on another level is deleted, added, and moved step by
  step (`FlowDetails.tsx` 109); one call fails, or two chains overlap. The watch over the
  session is a chain of timers in which each link starts the next (1274).
- **Partial failure.** Listeners and `JSON.parse` run in the handler of the refresh
  before its queue is emptied (648); the nonce is compared after the tokens were
  stored (781); given tokens may fail to refresh with or without being cleared (283);
  one of the calls of a `Promise.all` fails (`ShareTheResource.tsx` 78).
- **Exceptions.** One thrown in a promise chain of `init` rejects its promise; one thrown in the
  handler of a request or a message is lost, and nobody settles it (765, 884, 209).
- **Renders and effects.** Under the legacy `render` an answer may be taken between the commit
  of a new page and the effect that aborts it (`AdminClient.tsx` 47, 57).
- **Timeouts.** The answer to the cookie check may come after its timeout (1331);
  other waits have no timeout at all (1336).
- **Several tabs.** One callback URL in two tabs (1648), clean-up of one tab while
  another logs in, by a loop that deletes keys while it counts through them (1624).
- **Numbers.** Seconds and milliseconds, two clocks, a 32-bit timer (995, 1007);
  a page beyond the end (KeycloakDataTable.tsx 467); a recursion that steps the index of
  its caller back and forth (`execution-model.ts` 55).


## 3 Modules and the code they model

Every definition that stands for code has its lines in `PROJECT.json` under `map`.
Definitions marked "Mutant of" are plausible bugs of the definition below them;
they take no part in a specification and serve to show that a property notices.
Each component module `X` has an `MCX` that names the elements of a small instance and
an `X_proofs` with its theorems.

### KeycloakSession (abstract: SharedRefresh)

One `Keycloak` object after `init` has resolved with tokens.

| Variable | Code |
|---|---|
| `token`, `refreshToken` | `kc.token`, `kc.refreshToken`, as the number of the token set; 0 is absent |
| `expiring` | what `isTokenExpired(minValidity)` says (its arithmetic is TokenClock) |
| `tokenTimeoutHandle`, `timers` | `kc.tokenTimeoutHandle` and the timers the browser really runs |
| `promise` | what each call of `updateToken` has got back |
| `refreshQueue`, `requests` | `refreshQueue`, requests at the token endpoint with the refresh token they carry |
| `callbackList`, `iframeIn`, `iframeOut` | `loginIframe.callbackList`, messages to and from the iframe |
| `poll` | where the chain of `scheduleCheckIframe` stands |
| `jobs` | the microtask queue, for what keycloak.js itself queues |
| `sessionActive` | whether the server still has the session |

Actions: `UpdateToken`, `CallClearToken` (the application); `RefreshSucceeded`,
`RefreshRejected`, `RefreshThrows` (`onreadystatechange`, three outcomes);
`MessageCallback`, `RunCallOfCheck`, `RunPollOfCheck`, `PollTimer` (the iframe);
`TokenTimer`; and, external, `Answer`, `IframeAnswer`, `TokenAges`, `SessionEnds`.
A handler of an event runs only when `jobs` is empty: JavaScript drains
microtasks before the next task. The application may act at any time, since its
own code runs in tasks and microtasks alike.

`SharedRefresh` says what callers may rely on: a call begins, is decided or joins
the refresh under way, and a refresh lands for all who wait, in one step, "refreshed"
only with a new token. `RefresherLive` is the refinement, with `waiting` the
contents of `refreshQueue` and `inFlight` the existence of a request.

### KeycloakInit

One page load from `kc.init` to its promise. `options` are the init options that
change the control flow, the flow of the client, and what the URL brings back;
`stage` is the callback that init waits for. `enable`, `silentUri` and
`cookieListener` are what the third-party cookie check reads and writes. `heard`
counts the listeners. `Fulfil` and `Reject` are the two ways to settle
`initPromise`; `processInit`, `onLoad`, `processCallback` and `authSuccess` are one
operator or action each. Each answer may also be one whose handler throws: a body that
does not parse, a listener of the application, a message that is no callback. `Thrown`
says what becomes of it: with a `catch` of init above it a rejection, in the handler of a
request or of a message nothing: the stage is `hung`.

### CallbackStorage

`expires` is the storage: one entry per state parameter, in key order, with its
expiry. `kind` is what `createCallbackStorage` chose. Tabs have event loops of their own
and share the storage without a lock, so `callbackStorage.get` is two actions, the look-up
(`ReadCallback`) and the removal (`RemoveCallback`), between which the other tab may do anything.
`CreateLoginUrl` (`callbackStorage.add`) and either end of `get` run `clearExpired`,
whose loop forgets to step back after a removal: the key after a removed one
is passed over. `Removed` states that outcome instead of running the loop: an expired
key goes unless the one before it went. `Tick` lets cookies expire by themselves.

### TokenClock

`now` in milliseconds of the page, the server's clock at an `offset`. `SetToken`
estimates the skew from the middle of request and answer, in whole seconds, and
sets the timer; `IsTokenExpired` rounds as the code does; `Delay` is what `setTimeout`
does with a delay that needs more than 32 bits.

### KeycloakDataTable

The table of the admin console, its toolbar, and `useFetch`. A `kind` is one of the three
ways in which a caller uses it: `"pages"` (a loader with `isPaginated`), `"once"` (a
loader for the whole list), `"array"` (the list as a property). `table` is the component:
`page` holds `first`, `max` and `search`; `rows` and `flagged` the state `rows` with the
`selected` flag; `filteredData` the memo of the search; `requests` what `useFetch` awaits, with
what the callback of that render knows; `shown` (history) the query the rows answer, and `behind`
the items that were (de)selected since it was asked.

`Render` is one render with its commit. It makes the memo anew if the page changed and notes in
`due` that the dependencies of `useFetch` did. The effect itself (`Effect`: abort, `setLoading(true)`,
the new request) runs later: at the latest before the next render (`Flushed`), or on its own
(`RunEffects`). In between the old request is live: its answer, a click, or another change may come
first. After an await every `setState` is a render of its own, so `Callback` is a chain of them.
An aborted request is dropped (`Abort`), because `then` and `catch` look at the signal before they do anything.

### AdminRealm

The admin console between two realms. `realm` and `page` are the URL; `realmName` is
that of the one admin client; `whoAmI` and `access` the two contexts about rights; `data` the
realm whose items the list page shows; `requests` what the client has under way, each with
the realm in its URL, the one it is meant for, and whether it still waits for its token.

`Commit` is one navigation with its effects in React's order: the page's effect, which may make a
request with the realm the client has, then those of `RealmContextProvider` (`Configure`) and
`AccessContextProvider` (`HeldAfter`), then the render that their state causes. Who may
navigate where is in `SelectRealm` (the selector: to the dashboard), `OpenPage` (the
navigation: same realm), `OpenUrl` (history and bookmarks: anywhere) and `RealmsRefreshed` (the
new realm). `AskToken` is `agent.ts` with the provider of `AdminClient.tsx`: a failed
`updateToken` starts a login and the request goes out all the same. `WhoAmIAnswered`,
`ListAnswered`, `ItemDeleted`, `KeyValueAdded` and `RequestFailed` are the answers.
`strayed` (history) marks a list page that an URL has put under another realm, and the requests
made on it: for them the properties claim nothing (section 7).

### ExecutionList, FlowDiagram, FlowDetails

`ExecutionList` is `execution-model.ts` as operators: `Expandable` (the recursion that turns rows
with a level into a tree), `Order` (what is drawn), `ParentNode`, and `GetChange` (what a drop
asks for). Rows are named by their place in the list of the server, and a tree gives the places in the list of each
row: the recursions become functions over places, which can be proved about.
`FlowDiagram` are the nodes and edges, list by list. `FlowDetails` is the page:
`rows` its last fetch, `collapsed` the closed sub-flows, `jobs` the chains of calls, at most
two; `children` and `made` are the server, external, as the calls of the page need it: deleting
takes what is below along, adding appends, and a sub-flow cannot be added as an execution.
`Drop`, `Delete`, `Add` start a chain; `CallDone` and `CallFailed` are one call of it;
`Rest` is what `executeChange` has left to do. `kept` and `alarmed` are history: what nobody has
deleted, and whether a chain has ended in an alert since the last refresh.

### ResourcesTab

The tab "My resources" of the account console with its dialogs. `shares` and `pending` are the server, and
`withAskers` says whether its permissions list users who have nothing but a request, always or never;
`RequestMade` is a request that comes while the page is open;
`listed`, `key` and `fetch` the list of requests under `usePromise`; `details` the permissions
kept per row, with the toggles that are open; `form` what `EditTheResource` took when it was mounted;
`jobs` the handlers between their awaits. A handler is a record with what it knows: its
render's `details` (`seen`) or `key`, the calls it has `todo`, and whether one has `failed`.

`ToggleUnknown`, `ReadServed` and `ToggleEnds` are `toggleOpen`; `RemoveShare`, `AddShare` and `EditShares`
start the writes of `removeShare` and the two dialogs; `ApproveDeny` with `ReadServed` and `Decision`
is `approveDeny`; `PutServed` and `CallFails` are one call of a `Promise.all`; `JobEnds` what follows it
(`setDetails({})`, or `refresh` with the old key). Closing a dialog resets the details too.
History: `behind`, the resources whose details may be out of date because a request was accepted,
a call failed or a toggle was overtaken; `answered`, less what was asked for anew; `skipped`, the last refresh fetched nothing;
and `alone` in a job, nothing has overtaken it.


## 4 Runs

| Run | Module | States | Checks | Shows |
|---|---|---|---|---|
| `session_safety` | MCKeycloakSession | 238 000 | `SingleFlight` `OnePlace` `TimerOfCurrentToken` `SessionWatched` `AnswersAreTrue` `NoResurrection` | three overlapping calls, one forced, with the iframe, `login-required` and 200 answers whose handler throws: no call is lost or answered twice, one refresh at a time, the poll never dies while the user is logged in, no answer is false |
| `session_liveness` | MCKeycloakSession | 13 700 | `CallsSettle` `LogoutNoticed` `RefresherLive` | without such faults every call settles, a logout elsewhere is noticed, and the shared refresh is implemented with its liveness |
| `session_stuck_queue` | MCKeycloakSession | violation | `CallsSettle` | finding 1 |
| `init_all` | MCKeycloakInit | 14 000 | `TypeOK` `SuccessHeard` `PollStarted` `FalseIsTrue` `InitEnds` | every combination of options and callbacks, every answer of server, frames and timers, those that do not parse and listeners that throw included; init ends unless an exception is lost |
| `storage_shared` | MCCallbackStorage | 3 660 000 | `OneTimeUse` `PendingKept` `Cleaned` | two tabs that interleave between look-up and removal, four logins, both storages, states in any key order |
| `clock_estimate` | MCTokenClock | 1 010 000 | `ValidLongEnough` `RefreshedWhenNeeded` `CalledOnTime` | belief and truth about a token differ by less than a second and half the time of its request |
| `table_pages` | MCKeycloakDataTable | 3 090 000 | `TypeOK` `SpinnerEnds` `PageShown` `CheckboxesAreTrue` `SelectionKept` | answers come late or never, also between a commit and its effects, and the list changes: the spinner ends, a table at rest shows its page, checkboxes show the selection |
| `admin_realm` | MCAdminRealm | 101 000 | `RightRealm` `PageOfRealm` `AccessOfRealm` `ListUnderWay` `AccessArrives` `LossNoticed` | requests that wait for a token while the user switches the realm go where they were meant to; the access list arrives, also in a realm made a moment ago; the end of the session leads to the login |
| `flow_moves` | MCFlowDetails | 74 000 | `TypeOK` `TreeOfRows` `DiagramIsConnected` `ViewIsServer` `DropLands` | two overlapping chains on three shapes of a flow, one failure: the tree and the diagram fit the rows, the page ends with the server's flow, a drop lands where it was drawn |
| `flow_subflow` | MCFlowDetails | violation | `MoveLosesNothing` | finding 2 |
| `account_resources` | MCResourcesTab | 2 330 000 | `TypeOK` `SharesShown` `AnsweredGone` `AcceptAdds` | three overlapping handlers, a request that comes meanwhile and one failing call: what the page shows is the server's but for the named exceptions, answered requests go, accepting one takes nothing away |
| `account_unshare` | MCResourcesTab | violation | `UnshareRemovesAll` | finding 3 |

A comment above each property says what it means. Those easily misread:

- `NoResurrection` does not say that tokens stay away after `clearToken`: a refresh
  under way brings them back, in the code and in the model. It says that nothing
  else does. `SessionWatched` excludes the sessions revived in that way, which the
  code indeed leaves unwatched, because the poll has stopped.
- `RightRealm` and `PageOfRealm` exclude pages that an URL has brought under another realm,
  for which the code does what the names deny.
- `OneTimeUse` does not say that a callback is accepted once: two tabs that both find it before
  either removes it are both accepted. It says that nobody finds it after one has come through.
- `InitEnds` excludes the pages that an exception has left `hung`; section 7 lists them all.
- `SpinnerEnds` does not say that the spinner turns whenever an answer is awaited: an old answer
  that is taken before the effect of a new page turns it off. `PageShown` and `CheckboxesAreTrue` speak
  of a table with no effect to come (`due`), the first also of one that awaits nothing: for a moment
  after each commit the code has the old rows under the new page. A search of an unpaginated table is
  covered: what is shown is the page of some of its hits (of which, the stale memo decides).
- `SharesShown` excludes `behind`, `AnsweredGone` the refreshes that were skipped, `AcceptAdds`
  the decisions that another handler has overtaken. Each exclusion is a weakness of the code listed
  in section 7; the properties say that there is no other.
- `DropLands` speaks of a drop that no other chain has disturbed. Within a sub-flow and on
  the way up it says where the execution lands; for a drop to another sub-flow and for a drag
  downwards to the top level only that nothing else moves, since the code does not keep what
  was drawn there.

Deadlock is not checked: init ends, calls, clicks and logins run out, the clock is bounded and a
page may be left. What must not stop is stated as liveness.

**Bounds.**

- *Session*: the number of calls is the only bound of the state space; token
  numbers and queues are bounded by it. Two calls show sharing, a third may begin
  while the first two are being answered. One of them is forced, so that the
  queue mixes calls for which `expiring` matters with one for which it does
  not. Theorems cover any number of calls, both settings of the iframe and of
  `login-required`, and all faults.
- *Init*: none. Every combination of options is an initial state, and a page load is finite.
- *Storage*: `Lifetime = 1`, `MaxTime = 4`, four states. Three logins may be pending
  or expired when a fourth starts: the shortest row of keys in which the loop
  removes one, passes over one, and removes another.
- *Clock*: a token of 2 s, steps of 300 and 700 ms up to 4.5 s, offsets that are no
  whole seconds: every case of rounding, tokens that expire during their own request, and
  two refreshes in a row. `TimerRange` is far above any delay, as it is in practice.
- *Table*: three items of which a search finds two, pages of one or two rows,
  `first` up to 2 (`MaxFirst`). A list of three in pages of two has a last page that the deletion of
  one row empties, and pages of one have two neighbours. Nothing bounds clicks or requests: only
  the live request is kept, and that there is one at most is part of `SpinnerEnds`.
- *Realm*: the login realm, a second one and one that is created on the way; the user may
  open lists in some and not in others. `MaxRequests = 2` are a request of the page before and
  one of the page after, or either with `whoAmI`. Nothing counts navigations: they go on for ever.
- *Flows*: two sub-flows, one in the other, side by side, or one empty; two changes
  (`MaxChanges`), so that two chains overlap or a second one starts from a page that the
  first has left stale; one failing call (`MaxFailures`). `DiagramIsConnected` runs through
  all assignments of alternative, disabled and other requirements to the rows.
- *Resources*: two resources, two users, one shared and one asked for to start with; three
  handlers at a time (`MaxJobs`), which a toggle overtaken by a write under a decision
  needs, three clicks that start one (`MaxClicks`; four for the trace of finding 3), one request that
  comes while the page is open (`MaxRequests`), one failing call.


## 5 Fairness

**KeycloakSession.** Weak fairness for `Microtask`: the browser runs what is queued
before anything else. Strong fairness for `MessageCallback`, `RefreshHandler` and
`PollTimer`: each is disabled while microtasks are pending and enabled again after
them, so weak fairness would let the scheduler miss it for ever, while the event
loop serves every source of tasks. Weak fairness for `TokenEndpoint` (a
request is answered or fails: `onreadystatechange` reaches state 4 either way) and for
`SessionIframe` (the page in the iframe answers each message). None for the application, the user,
the token's age or the end of the session: they owe nothing. `Answer` with a fault leaves
no obligation either; `CallsSettle` holds where `Faults` is empty and fails where it is not.

**KeycloakInit.** The page's own events (configuration, DOM, network, timers)
and the hidden frames answer (`Page`, `Frames`); what the answer is, a good one, an error or one whose
handler throws, is left open. A frame that stays silent is a case that the code does
not survive (section 7).

**AdminRealm.** For each kind of request, live or aborted: `updateToken` settles, which is
`CallsSettle` of KeycloakSession, and what was sent is answered or fails. Nothing is assumed of the
user, who may navigate for ever, nor of the form.

The other modules state safety only.


## 6 Proofs

Eight modules hold theorems. None uses an assumption beyond those the modules
state for their constants, which TLC evaluates in every run (`ConstantsAssumption`,
`StorageAssumption`, `ClockAssumption`, `RealmAssumption`, `TableAssumption`, ...). They are typing facts. Two
theorems have a hypothesis on top: `LifespanFits` (a lifespan in milliseconds is below 2^31) for
`TimerOnTime`, without which the timer fires at once, or early; and `Faults = {}` (no 200 answer
whose handler throws) for `SharedRefreshImplemented`, without which finding 1 is a counterexample.

**KeycloakSession_proofs.** `TypeCorrect` first, with one lemma for each helper
(`SettleType`, `ExecType`, ...). Each safety property has an induction of its own
above `TypeOK`, one step for each action:

| Theorem | Inductive invariant | Why the property alone is not enough |
|---|---|---|
| `SingleFlightHolds` | `QueueInv`: `SingleFlight`, and `QueueServed` when there are no faults | two facts hold each other up: a request is sent only when the queue is empty, and the queue is empty only when no request is outside |
| `TimerHolds` | `TimerInv`: the only timer is the remembered one, and that is 0 or of the current token | `setToken` cancels the handle it remembers, not the timers there are |
| `ListHolds` | `ListServed`, inductive as it is | |
| `WatchHolds` | `WatchInv`: also, every queued microtask of a check found "unchanged" or there is no token | the poll ends in a microtask after the handler that cleared the tokens; in between no token may appear |
| `OnePlaceHolds` | `PlacesInv`: no list holds a call twice (`NoDoubles`), no two lists hold the same, and a call is pending just when one holds it | the iframe's message splices the whole list into microtasks, and an answer empties the whole queue: each must hold nothing twice |
| `NoResurrectionHolds`, `LogoutAnnouncedHolds`, `AnswersAreTrueHolds` | `TokensInv`: tokens come and go together, and only a request with a refresh token has a good answer | action properties, from the invariant of the state before |

`SharedRefreshImplemented` is the safety half of the refinement: under `QueueInv`, `TokensInv` and
`PlacesInv` every step of the page is a step of SharedRefresh or leaves `promise`, the queue, the token and
whether a request is outside as they are (`RefinementStep`). An answer empties the queue in one step of
the abstract specification, for which nobody may stand in it twice or without being pending. TLC checks
the same refinement with its liveness (`RefresherLive`).

**KeycloakInit_proofs.** One induction for `SuccessHeard`, `PollStarted` and `FalseIsTrue`. What a stage
may do depends on how init got there, so `InitInv` adds `Ways` (which tokens the page holds at which
stage, and what the options must have been), `SettledAtTheEnd` (only the hybrid flow goes on
once the promise is settled) and `NothingEarly` (success is announced with the answer). `InitEnds` is left to TLC.

**CallbackStorage_proofs.** `StorageInv` links storage and history: an accepted state is
used and gone; an unused one is not stored; a stored one has its deadline; a tab away from the
application has a used one. It gives `OneTimeUseHolds` and `PendingKeptHolds`, for any number of tabs and
logins and any lifetime, whatever `clearExpired` passes over: the proof needs only that it removes expired keys. `CleanedHolds` is about what it passes over: to each
expired key that it leaves belongs the one before, which it removes, and never the same one to two
(`HalfGoes`); so at most half are left, in whatever order the keys stand.

**TokenClock_proofs.** `EstimateInv`: the time of issue lies between request and answer
(`IssuedInTime`), hence the skew errs by less than a second and half the trip
(`SkewEstimate`). `ValidLongEnoughHolds` and `RefreshedWhenNeededHolds` follow with the
rounding of `isTokenExpired` (`Rounding`), for every lifespan and offset of the
clocks. `TimerInv`, that the timer is due at the believed expiry, adds `TimerOnTime`, which is
`CalledOnTime`.

**KeycloakDataTable_proofs.** One invariant, `TableInv`, gives all four and the types. A step is a chain of
renders, so the lemmas are about one render and what it keeps: `Good` (one request, which asks for the page
unless an effect is to come; no cache where the loader has pages; the memo and the rows are pages of some of
the hits), `Awaited` (the spinner needs a request), `Flagged` (the flags are those of the selection, but for what was
clicked since the request) and `Rests` (what a table with nothing to come shows). `PageShown` is not inductive: the rows
that will be shown are those of the request, which asks for the page only once the effect has run. `TypeOK` is the only
part that needs `Items` to be finite.

**AdminRealm_proofs.** `RealmInv` for `RightRealm`, `PageOfRealm` and `ListUnderWay`. None of them
is inductive: an answer becomes `data`, so `ListOfRealm` says of the live list request what
`PageOfRealm` says of the data. One lemma (`CommitStep`) covers the navigations.
`AccessOfRealm` is inductive above the types.

**FlowDetails_proofs.** For flows of any depth and size:

| Theorem | Inductive invariant | The argument |
|---|---|---|
| `TypeCorrect` | `TypeInv`: also, a chain that has deleted an execution and is to add it again, or is to add a new one, is the only one that holds it, and the flow does not | `add` appends without a look at what the flow holds |
| `ViewIsServerHolds` | `ViewInv`: with nothing under way after a chain that went well, the rows of the server are asked for, or answered and still those of the server, or on the page | each chain that succeeds ends with `refresh`, which aborts the fetch before it; one that fails is excluded by `alarmed` |
| `TreeOfRowsHolds`, `DiagramIsConnectedHolds` | `RowsInv`: the rows of the page and of the answer under way are rows of the table, with a level | the rest is about any list of rows with a level |

The last two rest on facts about the recursive functions, by induction along the rows. `Chain` says what
`transformToExpandableList` returns from any row inside any other: the rows of a larger level up to the next
that is not, each followed by the first row that is not below it. The last row's is known first, the others
follow (`ChainStep`). Hence `Branch` for the lists of the tree; hence a row stands in the list of the nearest one
above it of a smaller level (`ListsAreNearest`), and what `order` reads from a place of a list is a stretch
of the rows (`OrderIsList`). In the diagram an edge leads to each row from the start or a row above it
(`EdgeToRow`), and to the end of each list from its last row or from the end of that row's own
(`EdgeToEnd`): counting edges, the rows are reached downwards and the ends upwards.

**ResourcesTab_proofs.** Three inductions above one of types (`TypeInv`, with the shape of a handler of each
kind):

| Theorem | Inductive invariant | The argument |
|---|---|---|
| `SharesShownHolds` | `SharesInv`: what a row, and what an overtaken-by-nothing toggle, knows of a resource is the server's, or a writer with no failed call is under way for it | a writer resets all details when it ends, and every change marks the others as overtaken; a decision or a failure puts the resource into `behind` |
| `AnsweredGoneHolds` | `AnsweredInv`: an answered request that was not made anew is pending no more (`Gone`), `answered` holds pairs of a resource and a user (`Pairs`), and a fetch begun after the answer does not find it (`Fetched`) | `refresh` either fetches anew or is skipped |
| `AcceptAddsHolds` | `DecideInv`: until its write is served, an undisturbed decision finds the shares as they were when it was clicked; afterwards they are what it owes | any other write marks it |

`ListHolds`, `LogoutAnnouncedHolds` and some `TypeCorrect` state facts that no run checks; the proofs of
others rest on them.

**Only model-checked.** Liveness (`CallsSettle`, `LogoutNoticed`, `InitEnds`, `AccessArrives`, `LossNoticed`) and the
liveness half of the refinement, `RefresherLive`: temporal proofs under fairness need `ENABLED`, which is out of
this prover's reach. `DropLands`, which compares what was drawn with the flow after a chain of calls: its
proof needs `order` with closed sub-flows and the rows of the server in terms of its flow. The other
safety properties are proved. The library's induction theorems take an operator as a parameter and cannot be
used here; what the recursive functions give is proved from the least element of a set of numbers (`LeastNat`).


## 7 Findings

1. **A queue that is stuck for ever** (`session_stuck_queue`). The handler of a 200
   answer parses the body (648) and calls `onAuthRefreshSuccess` (652) before it
   empties `refreshQueue`. If either throws, the promise stays in the queue, its length is
   never 1 again, no request is sent any more, and no later call that needs a refresh is answered.
2. **A sub-flow that is lost** (`flow_subflow`). A row dropped on another level is deleted and added again
   with its provider (`FlowDetails.tsx` 109-114). A sub-flow has none: it is deleted with everything below it,
   the second call is refused, and the page shows an alert over the old rows.
   `ExecutionList.test.ts:107`, "Move a parent to the top", expects the change to be made.
3. **"Unshare all" leaves somebody** (`account_unshare`). It writes empty scopes for the users in the
   details of the row (`ResourcesTab.tsx` 91-107), as fetched when the row was opened. In the trace the row is
   opened, then another user asks for the resource, the list is fetched again (another page or filter), and the
   request is accepted, which does not touch the details. That user is not among them, and the page says "Resource successfully un-shared." all the same
   (`translation.json:150`, 152).

Seen while modelling, part of the models unless noted, and without a run of their own because no
document says otherwise, the effect is mild, or it happens outside of the runs' bounds:

*keycloak-js*
- `updateToken` may ask with `refresh_token=undefined` when the check it waits for has cleared the
  tokens (606, 626); keycloak.d.ts:522 says "if a refresh token is available". The server refuses it.
- Tokens that come back after `clearToken` come without `onAuthSuccess` and unwatched (650).
- `messageReceiveTimeout` serves the cookie check only (1336; keycloak.d.ts:192 gives it as an
  example): a silent session iframe or silent check leaves init pending.
- An exception in the handler of a request or a message leaves the promise of init pending: a configuration
  that does not parse (884, 939), a code answer that does not (765), `onAuthSuccess`, `onAuthError` or `onAuthLogout`
  that throw in those handlers (788, 792) or in that of the silent check (209) and of the session iframe
  (1249), and a refresh of given tokens that meets finding 1 (277, 648).
- An OIDC provider has no `thirdPartyCookiesIframe`: with the session iframe, or a silent check, init rejects (1305).
- Two tabs with the same callback URL may both find it before either removes it (1648, 1650). Both go on with the code,
  which the server then accepts once.
- In the implicit and hybrid flows the poll is not started at the point where the
  promise resolves; `PollStarted` is stated for the standard flow.
- `init` may resolve with `true` after an `onAuthError`: given tokens that could not be refreshed
  stay when the server did not answer 400, and a silent check that comes back with an
  error of `prompt=none` then resolves with them; `SuccessHeard` excludes it.

*Table*
- Two quick clicks on "next", or the deletion of the last row of the last page, lead to a page beyond the end,
  which shows the empty state without a toolbar to go back (KeycloakDataTable.tsx:467).
- The memo of the search does not depend on the data it searches (294): a
  search typed before the data arrive finds nothing.
- A table that is not paginated answers `refresh` from its cache (323).
- An answer of before that is taken between the commit of a new page and its effect shows the old rows under the
  new page until the new answer comes, and, when it comes right after `setLoading(true)`, turns off the spinner of
  a request that is under way (338-339, AdminClient.tsx:57). A row that is clicked while an answer is under way may show
  what it was before (246).
- Only the first search resets `first` (316): a search that narrows another, or finds less than the page before
  where the loader is not asked, may show an empty page of hits.
- Select-all selects the row that was loaded only to know whether there is a next page (365).
- A new page size sets `first` to the number of the page less one, not to an index (PaginatingTableToolbar.tsx:58).

*Realm*
- History, a bookmark or a typed URL that changes the realm and mounts a list in the same commit asks
  the realm of before (RealmContext.tsx:32); one that keeps the page keeps the items of the old realm, and row actions go
  to the new one. These are the `strayed` pages.
- LocalizationTab.tsx:320 sets the client to the realm of an earlier render when its answer comes,
  wherever the user is by then.
- A realm without an access list keeps that of the realm before (Access.tsx:25).
- `whoAmI` is fetched outside the ErrorBoundary (App.tsx:89): its failure removes the whole console.
- The save of NewRealmForm goes on, and navigates, after the form was left.

*Flows*
- A change of level goes to the first sub-flow of that level, at its end first; rows of one level in different
  sub-flows are moved inside their own; a drag downwards to the top level is off by one.
- A call that fails is followed by no refresh. A change of level loses requirement and configuration (not modelled).
- A required execution that an alternative one follows is drawn without an edge that leaves it (FlowDiagram.tsx:146).

*Account console*
- Of two toggles that overlap the later one closes the row that the earlier has opened, or brings details back
  that were reset meanwhile (ResourcesTab.tsx:122).
- Two decisions of one render set the same key: the second is followed by no fetch (66).
- After an accepted request the cached permissions are old, so "Edit" and "Done" write the old scopes back.
- `find(..)!` throws for a requestor whom the permissions do not list (PermissionRequest.tsx:45): with a server that
  lists only holders a first request can be neither accepted nor denied.
- When one call of a `Promise.all` fails, others have been made, and the details are not reset.
- Of two alerts added in one render the first is lost (Alerts.tsx:45; not modelled).


## 8 Abstractions and limits

- *Session*: a listener that calls `updateToken` from inside a handler is not modelled. Redirects do
  not end the page: `redirected` only records that `login` was asked for. Tokens
  are numbers; that a token set has no refresh token is an answer of its own.
  One check of `isTokenExpired` stands for all values of `minValidity` other than -1.
- *Init*: URLs, PKCE and redirect options are left out, as are options on which init throws at once. Tokens that
  parse as an answer can be decoded. The network answers once per request.
- *Storage*: keys of other scripts are left out; one that follows a removed key would be
  passed over in the place of a state. The loop of `clearExpired` is one step with the access next to it,
  though other tabs may come in between: it removes only what has expired, which nobody stores again, so two
  loops at a time remove nothing else and may only pass over more keys. `Cleaned` speaks of a run that nobody
  disturbs. Private modes that fail in mid-life are left out.
- *Clock*: both clocks run at the same rate. Tokens of the implicit flow, whose
  request left with another page, are left out. Timers are late, never early.
- *Table*: a commit and its render are one step, and so are the renders that follow one await, which no
  other task can come between. Aborted requests are not kept. Detail columns, disabled rows, `isSearching` and the stored page size are left out.
  The pager of PatternFly, an external component, is taken to pass to `onPerPageSelect` the number of the
  current page, or that of the last page when the new size leaves fewer.
  Row actions are those that delete their item; a list given as a property changes when the parent changes it.
- *Realm*: one page stands for all that need a right and list something without naming the realm; the
  rights of a realm are one set. RecentRealms, a list in `localStorage`, is left out. Effects run with their commit:
  those of the page and of both contexts run in one flush, in the order of `Commit`, and an answer taken before the flush
  sets the same state as one taken before the commit, since these callbacks only store what came (a page that is
  gone stores nothing). In the gap a list page has no request yet, about which `ListUnderWay` says nothing. A creation whose
  reply is lost, though the server has made the realm, is left out. The realms of a `whoAmI` answer are those of the server at that moment.
- *Flows*: the server's rules for its calls are external, as far as the page relies on them. A change of the
  requirement (`update`), binding and duplicating a flow, and the keyboard of the data list are left out. Names are ids.
  A fetch that fails is left out: the error boundary then takes the page away. A drag is one step from its start to its
  end; a fetch that arrives in between is a disturbance, of which `DropLands` does not speak. Effects run with their
  commit, which makes no difference here, since the callback of the fetch only stores what came.
- *Resources*: `contextOpen`, the menu of a row, works like `rowOpen` and is left out. Whether the server
  lists among the permissions a user who has nothing but a request is not known from this repository: it does so always
  or never (`withAskers`). Effects run with their commit, as in *Flows*, and for the same reason. The pages of the list and
  its filter are one action, `SetParams`. The tab "shared with me" only lists.
- Everything the table in section 1 marks "not modelled" or "partly".

Why the rest is not modelled: the admin console has some hundred forms and dialogs, each with the state of one
resource and one call per button, and the admin client some thirty classes that name paths. What could go wrong
there is a wrong field or path, which a type checker and a test of that form find, and about which a model
would say only what the source says. Cypress tests, the build and generated translations are no part of the running system.


## 9 Plan

| | Module | Properties | Proofs |
|---|---|---|---|
| done | KeycloakSession, SharedRefresh | section 4 | all safety properties, safety half of the refinement |
| done | KeycloakInit, TokenClock, KeycloakDataTable, AdminRealm, ResourcesTab | section 4 | all safety properties |
| done | CallbackStorage | section 4 | all |
| done | ExecutionList, FlowDiagram, FlowDetails | section 4 | all but `DropLands` |
| open | KeycloakSession | a listener that calls `updateToken` (652) | |
| open | UmaAuthorization (`keycloak-authz.js` 60, 110) | every `authorize` gets the callbacks it was given; permissions only grow | |
| open | Alerts, StoredState, RecentRealms | no alert is lost; tabs agree | |

A further abstract specification: what a fetch hook promises (the latest answer or none), of which
the table, the list of AdminRealm and `usePromise` in ResourcesTab would be implementations.
