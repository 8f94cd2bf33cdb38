------------------------- MODULE KeycloakInit_proofs -------------------------
(***************************************************************************)
(* What holds of kc.init for any set of options, flows and callbacks: what *)
(* its promise says agrees with the tokens and the listeners, and a page   *)
(* that ends authenticated polls its session.                              *)
(*                                                                         *)
(* None of the three properties is inductive: each follows from what was   *)
(* true when init took the way that ends here.  Ways records that, stage   *)
(* by stage.                                                               *)
(***************************************************************************)
EXTENDS KeycloakInit, TLAPS

BeforeTokens == {"config", "dom", "cookies", "start", "setupForCallback",
                 "setupForSso", "checkForSso"}

\* Which stages the options lead to, and what the page holds on arrival.
Ways ==
  /\ stage \in BeforeTokens => token = "none"
  /\ stage \in {"setupForTokens", "checkForTokens", "refresh"} => token = "given"
  /\ stage \in {"setupForSso", "checkForSso", "silent"} => options.onLoad = "check-sso"
  /\ stage = "refresh" => ~enable
  /\ (stage = "silent" /\ token # "none") => (~enable /\ heard.onAuthError > 0)

\* Only the hybrid flow goes on once the promise is settled, and never after a "false".
SettledAtTheEnd ==
  /\ stage \notin {"exchange", "end", "hung"} => promise = "pending"
  /\ stage = "exchange" => promise # "false"
  /\ (stage = "exchange" /\ options.flow = "standard") => promise = "pending"

\* Success is announced together with the answer, unless an exception came between
\* the two, and the poll starts at the end.
NothingEarly ==
  /\ (promise = "pending" /\ heard.onAuthError = 0 /\ stage # "hung") => heard.onAuthSuccess = 0
  /\ stage # "end" => polls = 0

InitInv ==
  /\ TypeOK /\ Ways /\ SettledAtTheEnd /\ NothingEarly
  /\ SuccessHeard /\ PollStarted /\ FalseIsTrue

-----------------------------------------------------------------------------
(* The listeners, counted by name.                                          *)

LEMMA HeardFacts ==
  ASSUME TypeOK
  PROVE  /\ heard.onAuthSuccess \in Nat /\ heard.onAuthError \in Nat
         /\ Heard("onAuthSuccess") \in [{"onAuthSuccess", "onAuthError", "onReady"} -> Nat]
         /\ Heard("onAuthSuccess").onAuthSuccess = heard.onAuthSuccess + 1
         /\ Heard("onAuthSuccess").onAuthError = heard.onAuthError
         /\ Heard("onAuthError") \in [{"onAuthSuccess", "onAuthError", "onReady"} -> Nat]
         /\ Heard("onAuthError").onAuthSuccess = heard.onAuthSuccess
         /\ Heard("onAuthError").onAuthError = heard.onAuthError + 1
  BY DEF TypeOK, Heard

\* Fulfil settles a pending promise by the token; onReady is all it adds to hs.
LEMMA FulfilFacts ==
  ASSUME TypeOK, NEW t,
         NEW hs \in [{"onAuthSuccess", "onAuthError", "onReady"} -> Nat], Fulfil(t, hs)
  PROVE  /\ promise = "pending" => promise' \in {IF t = "none" THEN "false" ELSE "true", "error"}
         /\ promise # "pending" => promise' = promise
         /\ heard' \in [{"onAuthSuccess", "onAuthError", "onReady"} -> Nat]
         /\ heard'.onAuthSuccess = hs.onAuthSuccess
         /\ heard'.onAuthError = hs.onAuthError
  BY DEF TypeOK, Fulfil

\* An exception rejects a pending promise or leaves the page hung.
LEMMA ThrownFacts ==
  ASSUME TypeOK, NEW caught \in BOOLEAN,
         NEW hs \in [{"onAuthSuccess", "onAuthError", "onReady"} -> Nat], Thrown(caught, hs)
  PROVE  /\ heard' = hs
         /\ stage' = IF caught THEN "end" ELSE "hung"
         /\ promise' = IF caught /\ promise = "pending" THEN "error" ELSE promise
  BY DEF TypeOK, Thrown, Reject

LEMMA OptionsFacts ==
  ASSUME TypeOK
  PROVE  /\ options.onLoad \in {"none", "check-sso", "login-required"}
         /\ options.flow \in {"standard", "implicit", "hybrid"}
         /\ options.callback \in {"none", "success", "error", "errorOfNone"}
  BY InitConstantsAssumption DEF TypeOK, Options

-----------------------------------------------------------------------------
(* The steps.                                                               *)

LEMMA InitStep == Init => InitInv
<1> SUFFICES ASSUME Init PROVE InitInv
  OBVIOUS
<1>1. \A h : h = [onAuthSuccess |-> 0, onAuthError |-> 0, onReady |-> 0]
           => h \in [{"onAuthSuccess", "onAuthError", "onReady"} -> Nat]
  <2>1. [onAuthSuccess |-> 0, onAuthError |-> 0, onReady |-> 0]
          \in [onAuthSuccess : Nat, onAuthError : Nat, onReady : Nat]
    OBVIOUS
  <2> QED BY <2>1, SMT
<1>2. TypeOK
  BY <1>1 DEF Init, TypeOK, Stages, Options
<1> QED BY <1>2 DEF Init, InitInv, Ways, BeforeTokens, SettledAtTheEnd, NothingEarly,
                    SuccessHeard, PollStarted, FalseIsTrue

USE DEF Stages, BeforeTokens

LEMMA BeforeStep ==
  ASSUME InitInv, LoadConfig \/ DomReady \/ CookieTimeout \/ IframeLoaded \/ CheckAfterSetup
  PROVE  InitInv'
<1> USE OptionsFacts, HeardFacts
<1>1. CASE LoadConfig
  BY <1>1 DEF LoadConfig, Thrown, Reject, cookies, InitInv, TypeOK, Ways, SettledAtTheEnd, NothingEarly,
              SuccessHeard, PollStarted, FalseIsTrue
<1>2. CASE DomReady
  BY <1>2 DEF DomReady, Thrown, Reject, InitInv, TypeOK, Ways, SettledAtTheEnd, NothingEarly,
              SuccessHeard, PollStarted, FalseIsTrue
<1>3. CASE CookieTimeout
  BY <1>3 DEF CookieTimeout, Reject, cookies, InitInv, TypeOK, Ways, SettledAtTheEnd, NothingEarly,
              SuccessHeard, PollStarted, FalseIsTrue
<1>4. CASE IframeLoaded
  BY <1>4 DEF IframeLoaded, cookies, InitInv, TypeOK, Ways, SettledAtTheEnd, NothingEarly,
              SuccessHeard, PollStarted, FalseIsTrue
<1>5. CASE CheckAfterSetup
  BY <1>5 DEF CheckAfterSetup, cookies, InitInv, TypeOK, Ways, SettledAtTheEnd, NothingEarly,
              SuccessHeard, PollStarted, FalseIsTrue
<1> QED BY <1>1, <1>2, <1>3, <1>4, <1>5

LEMMA CookieStep ==
  ASSUME InitInv, NEW supported \in BOOLEAN, CookieMessage(supported)
  PROVE  InitInv'
<1>1. /\ enable' \in BOOLEAN /\ (enable' => enable)
      /\ silentUri' \in BOOLEAN /\ cookieListener' = FALSE
  BY DEF CookieMessage, InitInv, TypeOK
<1>2. /\ options' = options /\ promise' = promise /\ token' = token /\ iframe' = iframe
      /\ polls' = polls /\ redirected' = redirected /\ heard' = heard
      /\ stage' = IF stage = "cookies" THEN "start" ELSE stage
  BY DEF CookieMessage
<1>3. TypeOK'
  BY <1>1, <1>2 DEF InitInv, TypeOK
<1>4. Ways'
  BY <1>1, <1>2 DEF InitInv, TypeOK, Ways
<1>5. SettledAtTheEnd' /\ NothingEarly'
  BY <1>1, <1>2 DEF InitInv, TypeOK, SettledAtTheEnd, NothingEarly
<1>6. SuccessHeard' /\ FalseIsTrue'
  BY <1>2 DEF InitInv, SuccessHeard, FalseIsTrue
<1>7. PollStarted'
  BY <1>1, <1>2 DEF InitInv, PollStarted
<1> QED BY <1>3, <1>4, <1>5, <1>6, <1>7 DEF InitInv

\* processInit chooses the way; only the last of its branches ends init.
LEMMA ProcessInitStep ==
  ASSUME InitInv, ProcessInit
  PROVE  InitInv'
<1> USE OptionsFacts, HeardFacts
<1>1. CASE options.callback # "none"
  BY <1>1 DEF ProcessInit, SetupCheckLoginIframe, cookies, InitInv, TypeOK, Ways, SettledAtTheEnd,
              NothingEarly, SuccessHeard, PollStarted, FalseIsTrue
<1>2. CASE options.callback = "none" /\ options.tokens
  BY <1>2 DEF ProcessInit, SetupCheckLoginIframe, cookies, InitInv, TypeOK, Ways, SettledAtTheEnd,
              NothingEarly, SuccessHeard, PollStarted, FalseIsTrue
<1>3. CASE options.callback = "none" /\ ~options.tokens /\ options.onLoad # "none"
  BY <1>3 DEF ProcessInit, OnLoad, SetupCheckLoginIframe, cookies, InitInv, TypeOK, Ways,
              SettledAtTheEnd, NothingEarly, SuccessHeard, PollStarted, FalseIsTrue
<1>4. CASE options.callback = "none" /\ ~options.tokens /\ options.onLoad = "none"
  <2>1. Fulfil(token, heard) /\ token = "none" /\ stage' = "end"
        /\ UNCHANGED <<options, token, iframe, redirected, enable, silentUri, cookieListener, polls>>
    BY <1>4 DEF ProcessInit, cookies, InitInv, Ways
  <2>2. /\ heard' \in [{"onAuthSuccess", "onAuthError", "onReady"} -> Nat]
        /\ heard'.onAuthSuccess = heard.onAuthSuccess
        /\ heard'.onAuthError = heard.onAuthError
        /\ promise' \in {"pending", "true", "false", "error"}
        /\ promise = "pending" => promise' \in {"false", "error"}
    BY <2>1, FulfilFacts DEF InitInv, TypeOK
  <2> HIDE OptionsFacts, HeardFacts
  <2>3. TypeOK'
    BY <1>4, <2>1, <2>2 DEF InitInv, TypeOK, ProcessInit
  <2> QED BY <1>4, <2>1, <2>2, <2>3 DEF ProcessInit, InitInv, TypeOK, Ways, SettledAtTheEnd,
              NothingEarly, SuccessHeard, PollStarted, FalseIsTrue
<1> QED BY <1>1, <1>2, <1>3, <1>4 DEF ProcessInit

-----------------------------------------------------------------------------
\* What processCallback leaves when the page may end init by it.
LEMMA CallbackStep ==
  ASSUME InitInv, NEW callback \in {"none", "success", "error", "errorOfNone"},
         stage \in {"setupForCallback", "silent"},
         stage = "setupForCallback" => callback = options.callback,
         NEW caught \in BOOLEAN, ProcessCallback(callback, caught), UNCHANGED <<options, cookies, iframe, polls>>
  PROVE  InitInv'
<1> USE OptionsFacts, HeardFacts
<1>0. UNCHANGED <<enable, silentUri, cookieListener>>
  BY DEF cookies
<1>t. ASSUME NEW hs \in {heard, Heard("onAuthError")}, Thrown(caught, hs),
             UNCHANGED <<token, redirected>>
      PROVE  InitInv'
  <2>1. hs \in [{"onAuthSuccess", "onAuthError", "onReady"} -> Nat]
        /\ hs.onAuthSuccess = heard.onAuthSuccess /\ hs.onAuthError \in Nat
        /\ hs.onAuthError >= heard.onAuthError
    BY DEF InitInv, TypeOK
  <2>2. /\ heard' = hs
        /\ stage' = IF caught THEN "end" ELSE "hung"
        /\ promise' = IF caught THEN "error" ELSE "pending"
    BY <1>t, <2>1, ThrownFacts DEF InitInv, TypeOK, SettledAtTheEnd
  <2>3. TypeOK'
    BY <1>0, <1>t, <2>1, <2>2 DEF InitInv, TypeOK
  <2> QED BY <1>0, <1>t, <2>1, <2>2, <2>3 DEF InitInv, TypeOK, Ways, SettledAtTheEnd, NothingEarly,
              SuccessHeard, PollStarted, FalseIsTrue
<1>x. ASSUME NEW nonceOk \in BOOLEAN, AuthSuccessThrows(nonceOk, TRUE, caught)
      PROVE  InitInv'
  <2>1. PICK hs \in {heard, Heard("onAuthSuccess")} :
            /\ Thrown(caught, hs) /\ token' \in {"none", "issued"} /\ UNCHANGED redirected
    BY <1>x DEF AuthSuccessThrows
  <2>2. hs \in [{"onAuthSuccess", "onAuthError", "onReady"} -> Nat]
        /\ hs.onAuthSuccess \in Nat /\ hs.onAuthError = heard.onAuthError
    BY DEF InitInv, TypeOK
  <2>3. /\ heard' = hs
        /\ stage' = IF caught THEN "end" ELSE "hung"
        /\ promise' = IF caught THEN "error" ELSE "pending"
    BY <2>1, <2>2, ThrownFacts DEF InitInv, TypeOK, SettledAtTheEnd
  <2>4. TypeOK'
    BY <1>0, <2>1, <2>2, <2>3 DEF InitInv, TypeOK
  <2> QED BY <1>0, <2>1, <2>2, <2>3, <2>4 DEF InitInv, TypeOK, Ways, SettledAtTheEnd, NothingEarly,
              SuccessHeard, PollStarted, FalseIsTrue
<1> HIDE DEF Thrown, AuthSuccessThrows
<1>1. CASE callback = "errorOfNone" /\ Fulfil(token, heard) /\ stage' = "end"
           /\ UNCHANGED <<token, redirected>>
  <2>1. Fulfil(token, heard) /\ stage' = "end" /\ UNCHANGED <<token, redirected>>
    BY <1>1
  <2> QED BY <1>0, <1>1, <2>1, FulfilFacts DEF InitInv, TypeOK, Ways, SettledAtTheEnd,
              NothingEarly, SuccessHeard, PollStarted, FalseIsTrue
<1>2. CASE callback = "error" /\ stage' = "end" /\ Reject(Heard("onAuthError"))
           /\ UNCHANGED <<token, redirected>>
  BY <1>0, <1>2 DEF Reject, InitInv, TypeOK, Ways, SettledAtTheEnd,
              NothingEarly, SuccessHeard, PollStarted, FalseIsTrue
<1>3. CASE callback = "success" /\ options.flow = "standard" /\ stage' = "exchange"
           /\ UNCHANGED <<promise, token, redirected, heard>>
  BY <1>0, <1>3 DEF InitInv, TypeOK, Ways, SettledAtTheEnd,
              NothingEarly, SuccessHeard, PollStarted, FalseIsTrue
<1>4. ASSUME callback = "success", options.flow # "standard",
             NEW nonceOk \in BOOLEAN, AuthSuccess(nonceOk, TRUE),
             stage' = IF options.flow = "hybrid" THEN "exchange" ELSE "end"
      PROVE  InitInv'
  <2>1. AuthSuccess(nonceOk, TRUE)
    BY <1>4
  <2>2. stage' = IF options.flow = "hybrid" THEN "exchange" ELSE "end"
    BY <1>4
  <2>3. CASE nonceOk
    <3>1. Fulfil("issued", Heard("onAuthSuccess")) /\ token' = "issued" /\ UNCHANGED redirected
      BY <2>1, <2>3 DEF AuthSuccess
    <3> QED BY <1>0, <1>4, <2>2, <3>1, FulfilFacts DEF InitInv, TypeOK, Ways, SettledAtTheEnd,
              NothingEarly, SuccessHeard, PollStarted, FalseIsTrue
  <2>4. CASE ~nonceOk
    BY <1>0, <1>4, <2>1, <2>2, <2>4 DEF AuthSuccess, Reject, InitInv, TypeOK, Ways,
              SettledAtTheEnd, NothingEarly, SuccessHeard, PollStarted, FalseIsTrue
  <2> QED BY <2>3, <2>4
<1> HIDE OptionsFacts, HeardFacts
<1> HIDE DEF Stages, BeforeTokens
<1> QED BY <1>t, <1>x, <1>1, <1>2, <1>3, <1>4 DEF ProcessCallback

\* The exchange ends init in the standard flow; in the hybrid flow it only adds
\* the refresh token and the poll to what was answered before.
LEMMA ExchangeStep ==
  ASSUME InitInv, CodeExchanged
  PROVE  InitInv'
<1> USE OptionsFacts, HeardFacts
<1>0. stage = "exchange" /\ UNCHANGED <<options, iframe>>
      /\ UNCHANGED <<enable, silentUri, cookieListener>>
  BY DEF CodeExchanged, cookies
<1>1. ASSUME NEW nonceOk \in BOOLEAN, AuthSuccess(nonceOk, options.flow = "standard"),
             ScheduleCheckIframe(token'), stage' = "end"
      PROVE  InitInv'
  <2>1. CASE nonceOk /\ options.flow = "standard"
    <3>1. Fulfil("issued", Heard("onAuthSuccess")) /\ token' = "issued" /\ UNCHANGED redirected
      BY <1>1, <2>1 DEF AuthSuccess
    <3> QED BY <1>0, <1>1, <2>1, <3>1, FulfilFacts DEF ScheduleCheckIframe, InitInv, TypeOK, Ways,
              SettledAtTheEnd, NothingEarly, SuccessHeard, PollStarted, FalseIsTrue
  <2>2. CASE nonceOk /\ options.flow # "standard"
    BY <1>0, <1>1, <2>2 DEF AuthSuccess, ScheduleCheckIframe, InitInv, TypeOK, Ways,
              SettledAtTheEnd, NothingEarly, SuccessHeard, PollStarted, FalseIsTrue
  <2>3. CASE ~nonceOk
    BY <1>0, <1>1, <2>3 DEF AuthSuccess, Reject, ScheduleCheckIframe, InitInv, TypeOK, Ways,
              SettledAtTheEnd, NothingEarly, SuccessHeard, PollStarted, FalseIsTrue
  <2> QED BY <2>1, <2>2, <2>3
<1>2. CASE stage' = "end" /\ Reject(Heard("onAuthError")) /\ UNCHANGED <<token, redirected, polls>>
  BY <1>0, <1>2 DEF Reject, InitInv, TypeOK, Ways, SettledAtTheEnd, NothingEarly,
              SuccessHeard, PollStarted, FalseIsTrue
<1>3. ASSUME NEW nonceOk \in BOOLEAN, AuthSuccessThrows(nonceOk, options.flow = "standard", FALSE),
             UNCHANGED polls
      PROVE  InitInv'
  <2>1. CASE nonceOk
    BY <1>0, <1>3, <2>1 DEF AuthSuccessThrows, Thrown, InitInv, TypeOK, Ways, SettledAtTheEnd,
              NothingEarly, SuccessHeard, PollStarted, FalseIsTrue
  <2>2. CASE ~nonceOk
    BY <1>0, <1>3, <2>2 DEF AuthSuccessThrows, Thrown, InitInv, TypeOK, Ways, SettledAtTheEnd,
              NothingEarly, SuccessHeard, PollStarted, FalseIsTrue
  <2> QED BY <2>1, <2>2
<1>4. ASSUME NEW hs \in {heard, Heard("onAuthError")}, Thrown(FALSE, hs),
             UNCHANGED <<token, redirected, polls>>
      PROVE  InitInv'
  BY <1>0, <1>4 DEF Thrown, InitInv, TypeOK, Ways, SettledAtTheEnd, NothingEarly,
              SuccessHeard, PollStarted, FalseIsTrue
<1> HIDE OptionsFacts, HeardFacts
<1> QED BY <1>1, <1>2, <1>3, <1>4 DEF CodeExchanged

-----------------------------------------------------------------------------
\* The check of given tokens: each of its answers ends init.
LEMMA TokensCheckedStep ==
  ASSUME InitInv, NEW found, TokensChecked(found)
  PROVE  InitInv'
<1> USE OptionsFacts, HeardFacts
<1>0. stage = "checkForTokens" /\ token = "given" /\ UNCHANGED <<options, iframe>>
      /\ UNCHANGED <<enable, silentUri, cookieListener>>
  BY DEF TokensChecked, cookies, InitInv, Ways
<1>1. CASE stage' = "end" /\ Fulfil(token, Heard("onAuthSuccess")) /\ ScheduleCheckIframe(token)
           /\ UNCHANGED <<token, redirected>>
  BY <1>0, <1>1, FulfilFacts DEF ScheduleCheckIframe, InitInv, TypeOK, Ways,
              SettledAtTheEnd, NothingEarly, SuccessHeard, PollStarted, FalseIsTrue
<1>2. CASE Thrown(TRUE, Heard("onAuthSuccess")) /\ UNCHANGED <<token, redirected, polls>>
  BY <1>0, <1>2 DEF Thrown, Reject, InitInv, TypeOK, Ways, SettledAtTheEnd, NothingEarly,
              SuccessHeard, PollStarted, FalseIsTrue
<1>3. CASE stage' = "end" /\ ClearToken /\ Fulfil("none", heard) /\ UNCHANGED polls
  BY <1>0, <1>3, FulfilFacts DEF ClearToken, InitInv, TypeOK, Ways,
              SettledAtTheEnd, NothingEarly, SuccessHeard, PollStarted, FalseIsTrue
<1>4. CASE stage' = "end" /\ ClearToken /\ Reject(heard) /\ UNCHANGED polls
  BY <1>0, <1>4 DEF ClearToken, Reject, InitInv, TypeOK, Ways,
              SettledAtTheEnd, NothingEarly, SuccessHeard, PollStarted, FalseIsTrue
<1>5. CASE token' = "none" /\ Thrown(FALSE, heard) /\ UNCHANGED <<redirected, polls>>
  BY <1>0, <1>5 DEF Thrown, InitInv, TypeOK, Ways, SettledAtTheEnd, NothingEarly,
              SuccessHeard, PollStarted, FalseIsTrue
<1> HIDE OptionsFacts, HeardFacts
<1> QED BY <1>1, <1>2, <1>3, <1>4, <1>5 DEF TokensChecked

\* The refresh of given tokens, and what onLoad makes of its failure.
LEMMA RefreshStep ==
  ASSUME InitInv, TokensRefreshed \/ RefreshHangs
                  \/ \E why \in {"failed", "refused", "thrown"} : RefreshFailed(why)
  PROVE  InitInv'
<1> USE OptionsFacts, HeardFacts
<1>1. CASE TokensRefreshed
  <2>1. /\ stage = "refresh" /\ token' = "issued" /\ stage' = "end"
        /\ Fulfil("issued", Heard("onAuthSuccess"))
        /\ UNCHANGED <<options, iframe, polls, redirected, enable, silentUri, cookieListener>>
    BY <1>1 DEF TokensRefreshed, cookies
  <2> QED BY <2>1, FulfilFacts DEF InitInv, TypeOK, Ways, SettledAtTheEnd, NothingEarly,
              SuccessHeard, PollStarted, FalseIsTrue
<1>2. CASE RefreshHangs
  BY <1>2 DEF RefreshHangs, Thrown, ClearToken, cookies, InitInv, TypeOK, Ways, SettledAtTheEnd,
              NothingEarly, SuccessHeard, PollStarted, FalseIsTrue
<1>3. ASSUME NEW why \in {"failed", "refused", "thrown"}, RefreshFailed(why) PROVE InitInv'
  <2> DEFINE hs == IF why = "thrown" THEN Heard("onAuthSuccess") ELSE heard
  <2> DEFINE error == [hs EXCEPT !.onAuthError = @ + 1]
  <2>1. /\ stage = "refresh" /\ ~enable /\ token' \in {token, "none", "issued"}
        /\ UNCHANGED <<options, polls, enable, silentUri, cookieListener>>
    BY <1>3 DEF RefreshFailed, cookies, InitInv, Ways
  <2>2. /\ error \in [{"onAuthSuccess", "onAuthError", "onReady"} -> Nat]
        /\ error.onAuthError > 0
    <3>1. hs \in [{"onAuthSuccess", "onAuthError", "onReady"} -> Nat]
      BY DEF InitInv, TypeOK
    <3>2. \A h \in [{"onAuthSuccess", "onAuthError", "onReady"} -> Nat] :
            /\ [h EXCEPT !.onAuthError = @ + 1]
                  \in [{"onAuthSuccess", "onAuthError", "onReady"} -> Nat]
            /\ [h EXCEPT !.onAuthError = @ + 1].onAuthError > 0
      OBVIOUS
    <3> HIDE DEF hs
    <3> QED BY <3>1, <3>2
  <2>3. \/ options.onLoad # "none" /\ OnLoad /\ heard' = error /\ UNCHANGED promise
        \/ stage' = "end" /\ Reject(error) /\ UNCHANGED <<iframe, redirected>>
        \/ Thrown(FALSE, error) /\ redirected' \in BOOLEAN /\ (redirected => redirected')
           /\ UNCHANGED iframe
    BY <1>3 DEF RefreshFailed, InitInv, TypeOK
  <2> HIDE DEF error
  <2>4. CASE options.onLoad # "none" /\ OnLoad /\ heard' = error /\ UNCHANGED promise
    <3>1. \/ stage' = "silent" /\ options.onLoad = "check-sso" /\ UNCHANGED <<iframe, redirected>>
          \/ stage' = "end" /\ redirected' = TRUE /\ UNCHANGED iframe
      BY <2>1, <2>4 DEF OnLoad
    <3>2. promise = "pending" /\ polls = 0
      BY <2>1 DEF InitInv, SettledAtTheEnd, NothingEarly
    <3>3. TypeOK'
      BY <2>1, <2>2, <2>4, <3>1 DEF InitInv, TypeOK
    <3>4. Ways'
      BY <2>1, <2>2, <2>4, <3>1 DEF InitInv, Ways
    <3>5. SettledAtTheEnd' /\ NothingEarly' /\ SuccessHeard' /\ PollStarted' /\ FalseIsTrue'
      BY <2>1, <2>2, <2>4, <3>1, <3>2 DEF SettledAtTheEnd, NothingEarly,
              SuccessHeard, PollStarted, FalseIsTrue
    <3> QED BY <3>3, <3>4, <3>5 DEF InitInv
  <2>5. CASE stage' = "end" /\ Reject(error) /\ UNCHANGED <<iframe, redirected>>
    BY <2>1, <2>2, <2>5 DEF Reject, InitInv, TypeOK, Ways,
              SettledAtTheEnd, NothingEarly, SuccessHeard, PollStarted, FalseIsTrue
  <2>6. CASE Thrown(FALSE, error) /\ redirected' \in BOOLEAN /\ (redirected => redirected')
             /\ UNCHANGED iframe
    BY <2>1, <2>2, <2>6 DEF Thrown, InitInv, TypeOK, Ways,
              SettledAtTheEnd, NothingEarly, SuccessHeard, PollStarted, FalseIsTrue
  <2> QED BY <2>3, <2>4, <2>5, <2>6
<1> QED BY <1>1, <1>2, <1>3

LEMMA SsoCheckedStep ==
  ASSUME InitInv, NEW found, SsoChecked(found)
  PROVE  InitInv'
<1> USE OptionsFacts, HeardFacts
<1>0. stage = "checkForSso" /\ token = "none" /\ UNCHANGED <<options, iframe, polls>>
      /\ UNCHANGED <<enable, silentUri, cookieListener>>
  BY DEF SsoChecked, cookies, InitInv, Ways
<1>1. CASE found = "unchanged"
  <2>1. Fulfil(token, heard) /\ stage' = "end" /\ UNCHANGED <<token, redirected>>
    BY <1>1 DEF SsoChecked
  <2> QED BY <1>0, <2>1, FulfilFacts DEF InitInv, TypeOK, Ways, SettledAtTheEnd, NothingEarly,
              SuccessHeard, PollStarted, FalseIsTrue
<1>2. CASE found # "unchanged"
  BY <1>0, <1>2 DEF SsoChecked, Reject, InitInv, TypeOK, Ways, SettledAtTheEnd, NothingEarly,
              SuccessHeard, PollStarted, FalseIsTrue
<1> QED BY <1>1, <1>2

-----------------------------------------------------------------------------
LEMMA InitHolds == Spec => []InitInv
<1>1. InitInv /\ [Next]_vars => InitInv'
  <2> SUFFICES ASSUME InitInv, [Next]_vars PROVE InitInv'
    OBVIOUS
  <2>1. CASE Page
    <3>1. CASE CallbackAfterSetup
      BY <3>1, CallbackStep, OptionsFacts DEF CallbackAfterSetup, InitInv
    <3> QED BY <2>1, <3>1, BeforeStep, ProcessInitStep, ExchangeStep, RefreshStep DEF Page
  <2>2. CASE Frames
    <3>1. ASSUME NEW callback \in {"success", "error", "errorOfNone"}, SilentMessage(callback)
          PROVE  InitInv'
      BY <3>1, CallbackStep DEF SilentMessage
    <3> QED BY <2>2, <3>1, CookieStep, TokensCheckedStep, SsoCheckedStep DEF Frames
  <2>3. CASE UNCHANGED vars
    BY <2>3 DEF vars, InitInv, TypeOK, Ways, SettledAtTheEnd, NothingEarly,
                SuccessHeard, PollStarted, FalseIsTrue
  <2> QED BY <2>1, <2>2, <2>3 DEF Next
<1> QED BY <1>1, InitStep, PTL DEF Spec

\* Every variable of a page that runs kc.init stays in range, for any options.
THEOREM TypeCorrect == Spec => []TypeOK
<1>1. InitInv => TypeOK
  BY DEF InitInv
<1> QED BY <1>1, InitHolds, PTL

\* A page told "authenticated" has heard onAuthSuccess exactly once, unless it
\* heard onAuthError (authSuccess, processInit).
THEOREM SuccessHeardHolds == Spec => []SuccessHeard
<1>1. InitInv => SuccessHeard
  BY DEF InitInv
<1> QED BY <1>1, InitHolds, PTL

\* In the standard flow an authenticated page with the iframe polls its session,
\* once (scheduleCheckIframe).
THEOREM PollStartedHolds == Spec => []PollStarted
<1>1. InitInv => PollStarted
  BY DEF InitInv
<1> QED BY <1>1, InitHolds, PTL

\* A page told "not authenticated" holds no token, and with login-required it is
\* on its way to the login or comes from one that may not ask (clearToken, login).
THEOREM FalseIsTrueHolds == Spec => []FalseIsTrue
<1>1. InitInv => FalseIsTrue
  BY DEF InitInv
<1> QED BY <1>1, InitHolds, PTL
=============================================================================
