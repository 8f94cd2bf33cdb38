------------------------------ MODULE AdminRealm ------------------------------
(***************************************************************************)
(* The admin console between two realms: the realm of the URL, the realm   *)
(* that the one admin client sends its requests to, the access list that   *)
(* the routes ask, and the pages whose effects make requests through that  *)
(* client, which waits for a token before it sends anything.               *)
(*                                                                         *)
(* A navigation is one commit of React followed by its effects, children   *)
(* first: the effect of the page runs before that of RealmContextProvider, *)
(* which tells the client about the realm.  What the effects set is        *)
(* rendered in the same task.  One page stands for all those that need a   *)
(* right of the user and fetch a list without naming the realm.            *)
(***************************************************************************)
EXTENDS Naturals, FiniteSets

CONSTANTS
  Realms,       \* names of realms
  LoginRealm,   \* environment.loginRealm, which the user logged in to
  Existing,     \* the realms there are when the console starts
  MayList,      \* those whose access list lets the user open the pages that need a right
  NoRealm,      \* no realm: access or data that has not arrived
  MaxRequests   \* bound: requests under way

ASSUME RealmAssumption ==
  /\ LoginRealm \in Existing
  /\ Existing \subseteq Realms /\ MayList \subseteq Realms
  /\ NoRealm \notin Realms

VARIABLES
  realm,        \* RealmContext: the realm of the URL
  page,         \* the route shown
  realmName,    \* adminClient.realmName
  whoAmI,       \* the realms in realm_access of the last whoAmI answer
  access,       \* AccessContext: the realm whose access types are held
  data,         \* the realm whose items the list page shows
  requests,     \* what adminClient has under way
  form,         \* NewRealmForm: what its save waits for
  existing,     \* the realms of the server
  token,        \* keycloak has a token
  loginAsked,   \* the token provider has called keycloak.login()
  strayed       \* history: a URL has put the list page under another realm

vars == <<realm, page, realmName, whoAmI, access, data, requests, form, existing,
          token, loginAsked, strayed>>

Pages == {"dashboard", "list", "addRealm", "localization", "error", "gone"}
Routes == {"dashboard", "list", "addRealm", "localization"}

Request == [kind : {"whoAmI", "list", "delete", "localize"},
            realm : Realms,                 \* the realm in its URL
            for : Realms,                   \* the realm it is meant for
            stage : {"token", "sent"},
            bearer : BOOLEAN,               \* sent with a token
            live : BOOLEAN,                 \* its signal is not aborted, its page not left
            strayed : BOOLEAN]              \* history: `strayed' or a wrong client when it was made

NoForm == [step |-> "none", realm |-> LoginRealm]
Form   == [step : {"none", "saving", "refreshing"}, realm : Realms]

Call(kind, url, for, history) ==
  [kind |-> kind, realm |-> url, for |-> for, stage |-> "token", bearer |-> FALSE,
   live |-> TRUE, strayed |-> history]

\* The routes ask hasAccess of the access list that is held, of whatever realm.
Allowed(held, p) == p \in {"list", "localization"} => held \in MayList
Mounted == page = "list" /\ Allowed(access, page)

\* Mutant of Abort: one controller for all fetches.
Abort_All(kinds) == {[q EXCEPT !.live = FALSE] : q \in requests}

\* The signal of a fetch is aborted, or the page whose handler waits is gone.
Abort(kinds) == {IF q.kind \in kinds THEN [q EXCEPT !.live = FALSE] ELSE q : q \in requests}
OfPage == {"list", "delete"}

\* Mutant of HeldAfter: the list of the first realm is kept.
HeldAfter_Never(me, r) == IF access = NoRealm /\ r \in me THEN r ELSE access

\* The effect of AccessContextProvider: a realm without an access list changes nothing.
HeldAfter(me, r) == IF r \in me THEN r ELSE access

\* What initAdminClient and the first commit leave behind.
Init ==
  /\ realm \in Realms /\ realmName = realm
  /\ page \in Routes
  /\ whoAmI = {} /\ access = NoRealm /\ data = NoRealm
  /\ requests = {Call("whoAmI", LoginRealm, LoginRealm, FALSE)}
  /\ form = NoForm
  /\ existing = Existing
  /\ token = TRUE /\ loginAsked = FALSE /\ strayed = FALSE

-----------------------------------------------------------------------------
(* Navigation.                                                              *)

\* The effect of RealmContextProvider on [realm].
Configure(r) == realmName' = r

\* One commit with its effects.  The page may be kept, since no effect of it
\* depends on the realm; it may be new in this commit, when its effect runs
\* before the client is told; or in the next, when the access list has changed.
Commit(r, p, byUrl) ==
  LET held  == HeldAfter(whoAmI, r)
      to    == IF page = "error" THEN "error" ELSE p
      first == to = "list" /\ Allowed(access, to)
      last  == to = "list" /\ Allowed(held, to)
      kept  == Mounted /\ first /\ last
      stray == IF kept THEN strayed \/ (byUrl /\ r # realm) ELSE first /\ r # realmName
      old   == IF kept THEN requests ELSE Abort(OfPage)
  IN /\ page # "gone"
     /\ Cardinality(requests) < MaxRequests
     /\ requests' = old \cup
          IF first /\ ~Mounted
          THEN {[Call("list", realmName, r, stray) EXCEPT !.live = last]}
          ELSE IF last /\ ~kept THEN {Call("list", r, r, FALSE)} ELSE {}
     /\ data' = IF kept THEN data ELSE NoRealm
     /\ strayed' = (last /\ stray)
     /\ realm' = r /\ page' = to /\ access' = held
     /\ Configure(r)

\* Mutant of SelectRealm: the selector keeps the page.
SelectRealm_KeepsPage(r) ==
  /\ r \in existing
  /\ Commit(r, page, FALSE)
  /\ UNCHANGED <<whoAmI, form, existing, token, loginAsked>>

\* RealmSelector links to the dashboard of the realm.
SelectRealm(r) ==
  /\ r \in existing
  /\ Commit(r, "dashboard", FALSE)
  /\ UNCHANGED <<whoAmI, form, existing, token, loginAsked>>

\* The links of the navigation stay in the realm.
OpenPage(p) ==
  /\ p # page
  /\ Commit(realm, p, FALSE)
  /\ UNCHANGED <<whoAmI, form, existing, token, loginAsked>>

\* The browser's back and forward, bookmarks and typed URLs lead anywhere.
OpenUrl(r, p) ==
  /\ <<r, p>> # <<realm, page>>
  /\ Commit(r, p, TRUE)
  /\ UNCHANGED <<whoAmI, form, existing, token, loginAsked>>

-----------------------------------------------------------------------------
(* Requests: agent.ts and the token provider.                               *)

\* Mutant of AskToken: a failed update of the token is ignored.
AskToken_NoLogin(q, ok) ==
  /\ ok => token
  /\ requests' = (requests \ {q}) \cup {[q EXCEPT !.stage = "sent", !.bearer = token]}
  /\ UNCHANGED loginAsked

\* Mutant of AskToken: the URL is put together after the token has come.
AskToken_LateUrl(q, ok) ==
  /\ ok => token
  /\ requests' = (requests \ {q}) \cup
       {[q EXCEPT !.stage = "sent", !.bearer = token,
                  !.realm = IF q.kind \in {"list", "delete"} THEN realmName ELSE q.realm]}
  /\ loginAsked' = (loginAsked \/ ~ok)

\* URL and options were read before the token is asked for; after an updateToken
\* that failed the provider starts a login and answers with what there is.
AskToken(q, ok) ==
  /\ ok => token
  /\ requests' = (requests \ {q}) \cup {[q EXCEPT !.stage = "sent", !.bearer = token]}
  /\ loginAsked' = (loginAsked \/ ~ok)

TokenArrives(q, ok) ==
  /\ q.stage = "token"
  /\ AskToken(q, ok)
  /\ UNCHANGED <<realm, page, realmName, whoAmI, access, data, form, existing, token, strayed>>

\* External: keycloak-js clears the tokens when the session has ended.
SessionEnds ==
  /\ token
  /\ token' = FALSE
  /\ UNCHANGED <<realm, page, realmName, whoAmI, access, data, requests, form, existing,
                 loginAsked, strayed>>

Answered(q) == q.stage = "sent" /\ q.bearer

\* The answer sets whoAmI, its effect the access list; the page asked for by the
\* URL may be mounted only now, or be left because the new list forbids it.
WhoAmIAnswered(q) ==
  /\ q.kind = "whoAmI" /\ Answered(q)
  /\ whoAmI' = IF q.live THEN existing ELSE whoAmI
  /\ LET held  == HeldAfter(whoAmI', realm)
         shown == page = "list" /\ Allowed(held, page)
     IN /\ access' = held
        /\ requests' = IF Mounted = shown THEN requests \ {q}
                       ELSE (Abort(OfPage) \ {q}) \cup
                              IF shown THEN {Call("list", realmName, realm, realmName # realm)}
                                       ELSE {}
        /\ data' = IF Mounted = shown THEN data ELSE NoRealm
        /\ strayed' = IF Mounted = shown THEN strayed ELSE shown /\ realmName # realm
  /\ UNCHANGED <<realm, page, realmName, form, existing, token, loginAsked>>

ListAnswered(q) ==
  /\ q.kind = "list" /\ Answered(q)
  /\ requests' = requests \ {q}
  /\ data' = IF q.live THEN q.realm ELSE data
  /\ UNCHANGED <<realm, page, realmName, whoAmI, access, form, existing, token, loginAsked, strayed>>

\* A failed fetch is thrown in the next render.  Only the pages are inside the
\* ErrorBoundary: WhoAmIContextProvider is outside, and React removes everything.
RequestFailed(q) ==
  /\ q.stage = "sent"
  /\ requests' = IF q.live /\ q.kind \in {"whoAmI", "list"} THEN Abort(OfPage) \ {q} ELSE requests \ {q}
  /\ \/ /\ q.live /\ q.kind \in {"whoAmI", "list"}
        /\ page' = IF q.kind = "list" THEN "error" ELSE "gone"
        /\ data' = NoRealm /\ strayed' = FALSE
     \/ /\ ~(q.live /\ q.kind \in {"whoAmI", "list"})
        /\ UNCHANGED <<page, data, strayed>>
  /\ UNCHANGED <<realm, realmName, whoAmI, access, form, existing, token, loginAsked>>

-----------------------------------------------------------------------------
(* What the pages do.                                                       *)

\* A row action: the item is one of the list shown, the realm is the client's.
DeleteItem ==
  /\ Mounted /\ data # NoRealm
  /\ Cardinality(requests) < MaxRequests
  /\ requests' = requests \cup {Call("delete", realmName, data, strayed \/ realmName # realm)}
  /\ UNCHANGED <<realm, page, realmName, whoAmI, access, data, form, existing, token,
                 loginAsked, strayed>>

\* The table is mounted anew with its key after the call.
ItemDeleted(q) ==
  /\ q.kind = "delete" /\ Answered(q)
  /\ IF q.live
     THEN /\ requests' = (Abort({"list"}) \ {q}) \cup
                           {Call("list", realmName, realm, realmName # realm)}
          /\ data' = NoRealm /\ strayed' = (realmName # realm)
     ELSE /\ requests' = requests \ {q}
          /\ UNCHANGED <<data, strayed>>
  /\ UNCHANGED <<realm, page, realmName, whoAmI, access, form, existing, token, loginAsked>>

\* LocalizationTab names the realm of its render in the request ...
AddKeyValue ==
  /\ page = "localization" /\ Allowed(access, page)
  /\ Cardinality(requests) < MaxRequests
  /\ requests' = requests \cup {Call("localize", realm, realm, FALSE)}
  /\ UNCHANGED <<realm, page, realmName, whoAmI, access, data, form, existing, token,
                 loginAsked, strayed>>

\* ... and tells the client about it when the answer comes, wherever the user is by then.
KeyValueAdded(q) ==
  /\ q.kind = "localize" /\ Answered(q)
  /\ requests' = requests \ {q}
  /\ realmName' = q.for
  /\ UNCHANGED <<realm, page, whoAmI, access, data, form, existing, token, loginAsked, strayed>>

SaveRealm(r) ==
  /\ page = "addRealm" /\ form = NoForm
  /\ r \in Realms \ existing
  /\ form' = [step |-> "saving", realm |-> r]
  /\ UNCHANGED <<realm, page, realmName, whoAmI, access, data, requests, existing, token,
                 loginAsked, strayed>>

\* Mutant of RealmCreated: the access lists are not fetched again.
RealmCreated_NoRefresh ==
  /\ form.step = "saving" /\ page # "gone"
  /\ existing' = existing \cup {form.realm}
  /\ form' = [form EXCEPT !.step = "refreshing"]
  /\ UNCHANGED <<realm, page, realmName, whoAmI, access, data, requests, token, loginAsked, strayed>>

\* save goes on although the form may be gone: whoAmI is fetched again, the
\* refresh of the realms is awaited.
RealmCreated ==
  /\ form.step = "saving" /\ page # "gone"
  /\ existing' = existing \cup {form.realm}
  /\ form' = [form EXCEPT !.step = "refreshing"]
  /\ requests' = Abort({"whoAmI"}) \cup {Call("whoAmI", LoginRealm, LoginRealm, FALSE)}
  /\ UNCHANGED <<realm, page, realmName, whoAmI, access, data, token, loginAsked, strayed>>

\* The realm was not created, or updateToken of the refresh failed: an alert.
SaveRealmFailed ==
  /\ form.step # "none"
  /\ form' = NoForm
  /\ UNCHANGED <<realm, page, realmName, whoAmI, access, data, requests, existing, token,
                 loginAsked, strayed>>

RealmsRefreshed ==
  /\ form.step = "refreshing"
  /\ token
  /\ Commit(form.realm, "dashboard", FALSE)
  /\ form' = NoForm
  /\ UNCHANGED <<whoAmI, existing, token, loginAsked>>

-----------------------------------------------------------------------------
Provider == \E q \in requests, ok \in BOOLEAN : TokenArrives(q, ok)

Arrives(q) ==
  WhoAmIAnswered(q) \/ ListAnswered(q) \/ ItemDeleted(q) \/ KeyValueAdded(q) \/ RequestFailed(q)

Navigation ==
  \/ \E r \in Realms : SelectRealm(r)
  \/ \E p \in Routes : OpenPage(p)
  \/ \E r \in Realms, p \in Routes : OpenUrl(r, p)

NewRealm == (\E r \in Realms : SaveRealm(r)) \/ RealmCreated \/ SaveRealmFailed \/ RealmsRefreshed

Next ==
  \/ Navigation
  \/ Provider
  \/ SessionEnds
  \/ \E q \in requests : Arrives(q)
  \/ DeleteItem
  \/ AddKeyValue
  \/ NewRealm

\* updateToken settles (KeycloakSession), and the server answers or the fetch fails.
Fairness ==
  \A kind \in {"whoAmI", "list", "delete", "localize"}, live \in BOOLEAN :
    LET mine == {q \in requests : q.kind = kind /\ q.live = live}
    IN /\ WF_vars(\E q \in mine, ok \in BOOLEAN : TokenArrives(q, ok))
       /\ WF_vars(\E q \in mine : Arrives(q))

Spec     == Init /\ [][Next]_vars
FairSpec == Spec /\ Fairness
-----------------------------------------------------------------------------
(* Properties.                                                              *)

\* Every variable stays in the range the code gives it.
TypeOK ==
  /\ realm \in Realms /\ page \in Pages /\ realmName \in Realms
  /\ whoAmI \subseteq Realms /\ access \in Realms \cup {NoRealm} /\ data \in Realms \cup {NoRealm}
  /\ requests \subseteq Request /\ form \in Form /\ existing \subseteq Realms
  /\ token \in BOOLEAN /\ loginAsked \in BOOLEAN /\ strayed \in BOOLEAN

\* A request goes to the realm it is meant for, although it waits for a token
\* while the user may move on, unless it was made on a page that had come with
\* a switch of the realm, or through a client set to another realm.
RightRealm == \A q \in requests : ~q.strayed => q.realm = q.for

\* A page that was opened inside a realm shows items of that realm only.
PageOfRealm == (~strayed /\ data # NoRealm) => data = realm

\* The access list held is of the realm shown, whichever comes first: the
\* answer to whoAmI or the realm; or that answer has no list for the realm.
AccessOfRealm == access = realm \/ realm \notin whoAmI

\* A list page is never left without its data and without a request for them.
ListUnderWay ==
  (Mounted /\ data = NoRealm) => \E q \in requests : q.kind = "list" /\ q.live

\* Who goes to an existing realm gets the access list of it in the end, also in
\* a realm that was created a moment before, or a failure removes the console.
AccessArrives ==
  \A r \in Realms : (realm = r /\ r \in existing) ~> (access = r \/ realm # r \/ page = "gone")

\* After the end of the session the next request leads to the login.
LossNoticed ==
  (~token /\ \E q \in requests : q.stage = "token" /\ q.live) ~> loginAsked

=============================================================================
