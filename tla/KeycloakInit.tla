----------------------------- MODULE KeycloakInit -----------------------------
(***************************************************************************)
(* kc.init (keycloak.js): from the load of the configuration to the moment *)
(* the promise that init returned is settled, or the page has left for the *)
(* login screen.  One page load is one behaviour; what the application     *)
(* asked for and what the URL brought back are chosen in Init.             *)
(*                                                                         *)
(* `stage' is the callback that init is waiting for.  What happens after   *)
(* init (the poll, updateToken) is KeycloakSession.                        *)
(*                                                                         *)
(* The answers include bodies that do not parse, and the application's     *)
(* listeners may throw.  An exception inside a promise chain of init       *)
(* rejects its promise; one inside the handler of a request or of a        *)
(* message is lost, and init is "hung": nothing settles its promise.       *)
(***************************************************************************)
EXTENDS Naturals

CONSTANTS
  OnLoads,    \* values of initOptions.onLoad, "none" when it is not given
  Flows,      \* values of kc.flow
  Callbacks   \* what the URL of the page brings: "none", "success", "error"
              \* or "errorOfNone", an error of a login with prompt=none

ASSUME InitConstantsAssumption ==
  /\ OnLoads \subseteq {"none", "check-sso", "login-required"}
  /\ Flows \subseteq {"standard", "implicit", "hybrid"}
  /\ Callbacks \subseteq {"none", "success", "error", "errorOfNone"}

Options == [onLoad : OnLoads, flow : Flows, callback : Callbacks,
            tokens : BOOLEAN,        \* initOptions.token and refreshToken are given
            checkLoginIframe : BOOLEAN,
            oidcProvider : BOOLEAN,  \* the configuration names an OIDC provider
            silent : BOOLEAN,        \* silentCheckSsoRedirectUri is given
            fallback : BOOLEAN]      \* silentCheckSsoFallback

VARIABLES
  options,
  stage,           \* what init waits for
  promise,         \* the promise init returned
  token,           \* kc.token: "none", "given" by the application, or "issued"
  enable,          \* loginIframe.enable
  iframe,          \* loginIframe.iframe: "none", "loading" or "ready"
  silentUri,       \* kc.silentCheckSsoRedirectUri is set
  cookieListener,  \* the listener of check3pCookiesSupported is registered
  polls,           \* how often scheduleCheckIframe has started a chain
  redirected,      \* window.location.replace was called
  heard            \* how often each listener was called

vars == <<options, stage, promise, token, enable, iframe, silentUri, cookieListener,
          polls, redirected, heard>>

cookies == <<enable, silentUri, cookieListener>>

Stages == {"config", "dom", "cookies", "start",
           "setupForCallback", "exchange",
           "setupForTokens", "checkForTokens", "refresh",
           "setupForSso", "checkForSso", "silent", "end", "hung"}

Init ==
  /\ options \in Options
  /\ stage = "config"
  /\ promise = "pending"
  /\ token = "none"
  /\ enable = options.checkLoginIframe
  /\ iframe = "none"
  /\ silentUri = options.silent
  /\ cookieListener = FALSE
  /\ polls = 0
  /\ redirected = FALSE
  /\ heard = [onAuthSuccess |-> 0, onAuthError |-> 0, onReady |-> 0]

-----------------------------------------------------------------------------
(* Settling.  initPromise is settled at most once; its then calls onReady    *)
(* and resolves init's promise with kc.authenticated.                        *)

Heard(l) == [heard EXCEPT ![l] = @ + 1]

\* Mutant of Fulfil: init resolves with the token in the place of the flag.
Fulfil_WithToken(t, hs) ==
  IF promise = "pending"
  THEN /\ promise' = t
       /\ heard' = [hs EXCEPT !.onReady = @ + 1]
  ELSE promise' = promise /\ heard' = hs

\* initPromise.setSuccess with the token t in place, after the listeners hs; an
\* onReady that throws rejects init's promise.
Fulfil(t, hs) ==
  IF promise = "pending"
  THEN /\ promise' \in {IF t = "none" THEN "false" ELSE "true", "error"}
       /\ heard' = [hs EXCEPT !.onReady = @ + 1]
  ELSE promise' = promise /\ heard' = hs

Reject(hs) ==
  /\ promise' = IF promise = "pending" THEN "error" ELSE promise
  /\ heard' = hs

\* Something threw after the listeners hs, in a chain with a catch or without.
Thrown(caught, hs) ==
  \/ caught /\ stage' = "end" /\ Reject(hs)
  \/ ~caught /\ stage' = "hung" /\ heard' = hs /\ UNCHANGED promise

\* Mutants of ClearToken: no login is asked for; the token stays.
ClearToken_NoLogin ==
  /\ token' = "none"
  /\ UNCHANGED redirected

ClearToken_KeepsToken ==
  /\ token' = token
  /\ redirected' = (redirected \/ (token # "none" /\ options.onLoad = "login-required"))

\* kc.clearToken: with login-required it asks for a login.
ClearToken ==
  /\ token' = "none"
  /\ redirected' = (redirected \/ (token # "none" /\ options.onLoad = "login-required"))

\* Mutant of ScheduleCheckIframe: it looks for the token before it is stored.
ScheduleCheckIframe_TooEarly(t) ==
  polls' = IF enable /\ token # "none" THEN polls + 1 ELSE polls

\* scheduleCheckIframe: only with the iframe enabled and a token.
ScheduleCheckIframe(t) == polls' = IF enable /\ t # "none" THEN polls + 1 ELSE polls

\* Mutant of SetupCheckLoginIframe: the iframe is never added to the document.
SetupCheckLoginIframe_NotAdded(next) ==
  /\ stage' = next
  /\ UNCHANGED iframe

\* setupCheckLoginIframe: nothing to load when disabled or loaded before.
SetupCheckLoginIframe(next) ==
  /\ stage' = next
  /\ iframe' = IF enable /\ iframe = "none" THEN "loading" ELSE iframe

IframeUp == ~enable \/ iframe = "ready"

-----------------------------------------------------------------------------
(* Before processInit.                                                      *)

LoadConfig ==
  /\ stage = "config"
  /\ \/ stage' = "dom" /\ UNCHANGED <<promise, heard>>
     \/ stage' = "end" /\ Reject(heard)
     \/ Thrown(FALSE, heard)              \* the body does not parse
  /\ UNCHANGED <<options, token, cookies, iframe, polls, redirected>>

\* domReady, then check3pCookiesSupported, which throws when the endpoints are
\* those of an OIDC provider: they have no thirdPartyCookiesIframe.
DomReady ==
  /\ stage = "dom"
  /\ \/ /\ (enable \/ silentUri) /\ ~options.oidcProvider
        /\ stage' = "cookies" /\ cookieListener' = TRUE
        /\ UNCHANGED <<promise, heard>>
     \/ /\ (enable \/ silentUri) /\ options.oidcProvider
        /\ Thrown(TRUE, heard)
        /\ UNCHANGED cookieListener
     \/ /\ ~(enable \/ silentUri)
        /\ stage' = "start"
        /\ UNCHANGED <<promise, heard, cookieListener>>
  /\ UNCHANGED <<options, token, enable, iframe, silentUri, polls, redirected>>

\* The listener stays registered after the timeout: the message may come late.
CookieMessage(supported) ==
  /\ cookieListener
  /\ cookieListener' = FALSE
  /\ enable' = (enable /\ supported)
  /\ silentUri' = (silentUri /\ (supported \/ ~options.fallback))
  /\ stage' = IF stage = "cookies" THEN "start" ELSE stage
  /\ UNCHANGED <<options, promise, token, iframe, polls, redirected, heard>>

\* applyTimeoutToPromise: messageReceiveTimeout has passed.
CookieTimeout ==
  /\ stage = "cookies"
  /\ stage' = "end"
  /\ Reject(heard)
  /\ UNCHANGED <<options, token, cookies, iframe, polls, redirected>>

-----------------------------------------------------------------------------
(* processInit and onLoad.                                                  *)

\* onLoad: a silent check, a redirect with or without prompt=none, or a check
\* of the session first.
OnLoad ==
  \/ /\ options.onLoad = "check-sso" /\ enable
     /\ SetupCheckLoginIframe("setupForSso")
     /\ UNCHANGED redirected
  \/ /\ options.onLoad = "check-sso" /\ ~enable /\ silentUri
     /\ stage' = "silent"
     /\ UNCHANGED <<iframe, redirected>>
  \/ /\ \/ options.onLoad = "check-sso" /\ ~enable /\ ~silentUri
        \/ options.onLoad = "login-required"
     /\ stage' = "end" /\ redirected' = TRUE
     /\ UNCHANGED iframe

ProcessInit ==
  /\ stage = "start"
  /\ \/ /\ options.callback # "none"
        /\ SetupCheckLoginIframe("setupForCallback")
        /\ UNCHANGED <<promise, token, redirected, heard>>
     \/ /\ options.callback = "none" /\ options.tokens
        /\ token' = "given"
        /\ IF enable THEN SetupCheckLoginIframe("setupForTokens")
                     ELSE stage' = "refresh" /\ UNCHANGED iframe
        /\ UNCHANGED <<promise, redirected, heard>>
     \/ /\ options.callback = "none" /\ ~options.tokens /\ options.onLoad # "none"
        /\ OnLoad
        /\ UNCHANGED <<promise, token, heard>>
     \/ /\ options.callback = "none" /\ ~options.tokens /\ options.onLoad = "none"
        /\ stage' = "end"
        /\ Fulfil(token, heard)
        /\ UNCHANGED <<token, iframe, redirected>>
  /\ UNCHANGED <<options, cookies, polls>>

\* iframe.onload
IframeLoaded ==
  /\ iframe = "loading"
  /\ iframe' = "ready"
  /\ UNCHANGED <<options, stage, promise, token, cookies, polls, redirected, heard>>

-----------------------------------------------------------------------------
(* processCallback.                                                         *)

\* Mutant of AuthSuccess: onAuthSuccess is not called.
AuthSuccess_Silent(nonceOk, fulfil) ==
  IF nonceOk
  THEN /\ token' = "issued"
       /\ IF fulfil THEN Fulfil("issued", heard)
                    ELSE UNCHANGED <<promise, heard>>
       /\ UNCHANGED redirected
  ELSE /\ token' = "none"
       /\ redirected' = (redirected \/ options.onLoad = "login-required")
       /\ Reject(heard)

\* authSuccess: the nonce is compared after the tokens were stored.
AuthSuccess(nonceOk, fulfil) ==
  IF nonceOk
  THEN /\ token' = "issued"
       /\ IF fulfil THEN Fulfil("issued", Heard("onAuthSuccess"))
                    ELSE UNCHANGED <<promise, heard>>
       /\ UNCHANGED redirected
  ELSE /\ token' = "none"
       /\ redirected' = (redirected \/ options.onLoad = "login-required")
       /\ Reject(heard)

\* onAuthSuccess throws before setSuccess, onAuthLogout before login and setError.
AuthSuccessThrows(nonceOk, fulfil, caught) ==
  /\ \/ nonceOk /\ fulfil /\ token' = "issued" /\ Thrown(caught, Heard("onAuthSuccess"))
     \/ ~nonceOk /\ token' = "none" /\ Thrown(caught, heard)
  /\ UNCHANGED redirected

\* Its first branch: onActionUpdate throws, or the URL is no callback at all.
ProcessCallback(callback, caught) ==
  \/ /\ Thrown(caught, heard)
     /\ UNCHANGED <<token, redirected>>
  \/ /\ callback = "errorOfNone"
     /\ stage' = "end"
     /\ Fulfil(token, heard)
     /\ UNCHANGED <<token, redirected>>
  \/ /\ callback = "error"
     /\ \/ stage' = "end" /\ Reject(Heard("onAuthError"))
        \/ Thrown(caught, Heard("onAuthError"))
     /\ UNCHANGED <<token, redirected>>
  \/ /\ callback = "success" /\ options.flow = "standard"
     /\ stage' = "exchange"
     /\ UNCHANGED <<promise, token, redirected, heard>>
  \/ /\ callback = "success" /\ options.flow # "standard"
     /\ \E nonceOk \in BOOLEAN :
          \/ /\ AuthSuccess(nonceOk, TRUE)
             /\ stage' = IF options.flow = "hybrid" THEN "exchange" ELSE "end"
          \/ AuthSuccessThrows(nonceOk, TRUE, caught)

CallbackAfterSetup ==
  /\ stage = "setupForCallback" /\ IframeUp
  /\ ProcessCallback(options.callback, TRUE)
  /\ UNCHANGED <<options, cookies, iframe, polls>>

\* The answer to the request that exchanges the code for tokens: tokens, an error,
\* or one that ends in an exception (a body that does not parse, a listener).
CodeExchanged ==
  /\ stage = "exchange"
  /\ \/ \E nonceOk \in BOOLEAN :
          /\ AuthSuccess(nonceOk, options.flow = "standard")
          /\ ScheduleCheckIframe(token')
          /\ stage' = "end"
     \/ /\ stage' = "end" /\ Reject(Heard("onAuthError"))
        /\ UNCHANGED <<token, redirected, polls>>
     \/ /\ \E nonceOk \in BOOLEAN : AuthSuccessThrows(nonceOk, options.flow = "standard", FALSE)
        /\ UNCHANGED polls
     \/ /\ \E hs \in {heard, Heard("onAuthError")} : Thrown(FALSE, hs)
        /\ UNCHANGED <<token, redirected, polls>>
  /\ UNCHANGED <<options, cookies, iframe>>

-----------------------------------------------------------------------------
(* Tokens given by the application.                                         *)

CheckAfterSetup ==
  /\ IframeUp
  /\ \/ stage = "setupForTokens" /\ stage' = "checkForTokens"
     \/ stage = "setupForSso" /\ stage' = "checkForSso"
  /\ UNCHANGED <<options, promise, token, cookies, iframe, polls, redirected, heard>>

\* The iframe answered the check of the given tokens.
TokensChecked(found) ==
  /\ stage = "checkForTokens"
  /\ \/ /\ found = "unchanged" /\ stage' = "end"
        /\ Fulfil(token, Heard("onAuthSuccess"))
        /\ ScheduleCheckIframe(token)
        /\ UNCHANGED <<token, redirected>>
     \/ /\ found = "unchanged"
        /\ Thrown(TRUE, Heard("onAuthSuccess"))
        /\ UNCHANGED <<token, redirected, polls>>
     \/ /\ found = "changed" /\ stage' = "end"
        /\ ClearToken
        /\ Fulfil("none", heard)
        /\ UNCHANGED polls
     \/ /\ found = "error" /\ stage' = "end"
        /\ ClearToken
        /\ Reject(heard)
        /\ UNCHANGED polls
     \/ /\ found # "unchanged"            \* onAuthLogout throws: no callback is called
        /\ token' = "none"
        /\ Thrown(FALSE, heard)
        /\ UNCHANGED <<redirected, polls>>
  /\ UNCHANGED <<options, cookies, iframe>>

\* updateToken(-1) without the iframe: refreshed, ...
TokensRefreshed ==
  /\ stage = "refresh"
  /\ token' = "issued"
  /\ stage' = "end"
  /\ Fulfil("issued", Heard("onAuthSuccess"))
  /\ UNCHANGED <<options, cookies, iframe, polls, redirected>>

\* ... never settled, the queue of updateToken being emptied after the line that
\* threw: parsing the answer, onAuthRefreshSuccess, onAuthLogout or onAuthRefreshError ...
RefreshHangs ==
  /\ stage = "refresh"
  /\ Thrown(FALSE, heard)
  /\ \/ token' \in {token, "issued"} /\ UNCHANGED redirected
     \/ token' = "none" /\ UNCHANGED redirected
     \/ ClearToken
  /\ UNCHANGED <<options, cookies, iframe, polls>>

\* ... or caught by init: the refresh failed, was refused (400), or onAuthSuccess
\* threw after it.  onAuthError may throw in its turn.
RefreshFailed(why) ==
  LET hs    == IF why = "thrown" THEN Heard("onAuthSuccess") ELSE heard
      error == [hs EXCEPT !.onAuthError = @ + 1]
  IN  /\ stage = "refresh"
      /\ token' = IF why = "failed" THEN token ELSE IF why = "refused" THEN "none" ELSE "issued"
      /\ \/ /\ options.onLoad # "none"
            /\ OnLoad
            /\ heard' = error
            /\ UNCHANGED promise
         \/ /\ options.onLoad = "none"
            /\ stage' = "end"
            /\ Reject(error)
            /\ UNCHANGED <<iframe, redirected>>
         \/ /\ Thrown(FALSE, error)
            /\ redirected' = (redirected \/ (why = "refused" /\ options.onLoad = "login-required"))
            /\ UNCHANGED iframe
      /\ UNCHANGED <<options, cookies, polls>>

-----------------------------------------------------------------------------
(* check-sso.                                                               *)

SsoChecked(found) ==
  /\ stage = "checkForSso"
  /\ \/ /\ found = "unchanged"
        /\ stage' = "end"
        /\ Fulfil(token, heard)
        /\ UNCHANGED <<token, redirected>>
     \/ /\ found = "changed"
        /\ token' = "none"
        /\ IF silentUri THEN stage' = "silent" /\ UNCHANGED redirected
                        ELSE stage' = "end" /\ redirected' = TRUE
        /\ UNCHANGED <<promise, heard>>
     \/ /\ found = "error"
        /\ stage' = "end"
        /\ token' = "none"
        /\ Reject(heard)
        /\ UNCHANGED redirected
  /\ UNCHANGED <<options, cookies, iframe, polls>>

\* The page in the hidden iframe posts the URL it was redirected to.  An error is
\* taken for one of prompt=none only while the state of the request is stored.
SilentMessage(callback) ==
  /\ stage = "silent"
  /\ ProcessCallback(callback, FALSE)
  /\ UNCHANGED <<options, cookies, iframe, polls>>

-----------------------------------------------------------------------------
Found == {"unchanged", "changed", "error"}

Page ==
  \/ LoadConfig \/ DomReady \/ ProcessInit \/ CallbackAfterSetup \/ CheckAfterSetup
  \/ CookieTimeout
  \/ CodeExchanged
  \/ TokensRefreshed \/ RefreshHangs
  \/ \E why \in {"failed", "refused", "thrown"} : RefreshFailed(why)
  \/ IframeLoaded

Frames ==
  \/ \E supported \in BOOLEAN : CookieMessage(supported)
  \/ \E found \in Found : TokensChecked(found) \/ SsoChecked(found)
  \/ \E callback \in {"success", "error", "errorOfNone"} : SilentMessage(callback)

Next == Page \/ Frames

(***************************************************************************)
(* Fairness.  Loading, the network and timers answer.  So do the pages in  *)
(* the hidden frames: keycloak.js limits only its wait for the first of    *)
(* them, the third-party cookie check, and relies on the others.  What an  *)
(* answer is, a good one, an error or one that throws, is left open.       *)
(***************************************************************************)
Spec     == Init /\ [][Next]_vars
FairSpec == Spec /\ WF_vars(Page) /\ WF_vars(Frames)

-----------------------------------------------------------------------------
(* Properties.                                                              *)

\* Every variable stays in the range the code gives it.
TypeOK ==
  /\ options \in Options
  /\ stage \in Stages
  /\ promise \in {"pending", "true", "false", "error"}
  /\ token \in {"none", "given", "issued"}
  /\ enable \in BOOLEAN /\ silentUri \in BOOLEAN /\ cookieListener \in BOOLEAN
  /\ redirected \in BOOLEAN
  /\ iframe \in {"none", "loading", "ready"}
  /\ polls \in Nat
  /\ heard \in [{"onAuthSuccess", "onAuthError", "onReady"} -> Nat]

\* An application that init told "authenticated" has heard onAuthSuccess once,
\* whichever of the six ways led there, unless an onAuthError came before.
SuccessHeard ==
  (promise = "true" /\ heard.onAuthError = 0) => heard.onAuthSuccess = 1

\* In the standard flow a page that ends init authenticated with the session
\* iframe enabled has started one poll of it, and no page starts two.
PollStarted ==
  /\ polls <= 1
  /\ (stage = "end" /\ promise = "true" /\ enable /\ options.flow = "standard") => polls = 1

\* What init tells the application agrees with the tokens: after an answer of
\* "not authenticated" none are left, given, issued or half checked, though each
\* of the ways to that answer clears them, or not, in a place of its own.  And with
\* login-required it gives that answer only when a login was asked for, or when the
\* login the page comes from was one that may not ask the user.
FalseIsTrue ==
  promise = "false" =>
    /\ token = "none"
    /\ options.onLoad = "login-required" => (redirected \/ options.callback = "errorOfNone")

\* init ends: its promise is settled or the page is on its way to the login, unless
\* an exception was lost in the handler of a request or of a message.
InitEnds == <>(promise # "pending" \/ redirected \/ stage = "hung")
=============================================================================
