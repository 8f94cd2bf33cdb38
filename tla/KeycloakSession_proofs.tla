------------------------ MODULE KeycloakSession_proofs ------------------------
(***************************************************************************)
(* Theorems about KeycloakSession, for any number of calls, with or        *)
(* without the session iframe.                                             *)
(***************************************************************************)
EXTENDS KeycloakSession, TLAPS

-----------------------------------------------------------------------------
(* Type correctness: first what the shared functions return.                *)

\* Settle keeps every promise in the range of what callers are told.
LEMMA SettleType ==
  ASSUME CallsTypeOK, NEW cs, NEW o \in {"pending"} \cup Settled, Settle(cs, o)
  PROVE  promise' \in [Calls -> {"idle", "pending"} \cup Settled]
BY DEF CallsTypeOK, Settle

\* exec, wherever it runs, keeps promises, queue and requests well typed.
LEMMA ExecType ==
  ASSUME TokensTypeOK, CallsTypeOK, NEW c \in Calls, Exec(c)
  PROVE  CallsTypeOK'
<1>1. promise' \in [Calls -> {"idle", "pending"} \cup Settled]
  BY DEF CallsTypeOK, Exec, Settle, Settled
<1>2. refreshQueue' \in Seq(Calls)
  <2>1. refreshQueue \in Seq(Calls)
    BY DEF CallsTypeOK
  <2>2. refreshQueue' = refreshQueue \/ refreshQueue' = Append(refreshQueue, c)
    BY DEF Exec
  <2> QED BY <2>1, <2>2
<1>3. requests' \subseteq Request
  <2>1. [by |-> c, sent |-> refreshToken, answer |-> "none"] \in Request
    BY DEF TokensTypeOK, Request
  <2> QED BY <2>1 DEF CallsTypeOK, Exec
<1> QED BY <1>1, <1>2, <1>3 DEF CallsTypeOK

\* A waiter joins callbackList.
LEMMA CheckType ==
  ASSUME ChecksTypeOK, NEW w \in Calls \cup {Poll}, CheckLoginIframe(w)
  PROVE  /\ callbackList' \in Seq(Calls \cup {Poll})
         /\ iframeIn' \in Nat
         /\ iframeOut' = iframeOut
<1>1. callbackList \in Seq(Calls \cup {Poll}) /\ callbackList' = Append(callbackList, w)
  BY DEF ChecksTypeOK, CheckLoginIframe
<1>2. iframeIn \in Nat /\ iframeIn' \in {iframeIn, iframeIn + 1} /\ iframeOut' = iframeOut
  BY DEF ChecksTypeOK, CheckLoginIframe
<1> QED BY <1>1, <1>2

\* The microtasks of a message are jobs of the waiters in the list.
LEMMA CallbacksType ==
  ASSUME ChecksTypeOK, NEW d \in Found
  PROVE  Callbacks(d) \in Seq(Job)
<1> DEFINE n == Len(callbackList)
<1>1. n \in Nat /\ \A i \in 1..n : callbackList[n + 1 - i] \in Calls \cup {Poll}
  BY DEF ChecksTypeOK
<1>2. \A i \in 1..n : [who |-> callbackList[n + 1 - i], found |-> d] \in Job
  BY <1>1 DEF Job
<1>3. Callbacks(d) \in [1..n -> Job]
  BY <1>2 DEF Callbacks
<1> QED BY <1>1, <1>3

\* setToken and clearToken keep the tokens and their timer well typed.
LEMMA ClearType ==
  ASSUME TokensTypeOK, redirected \in BOOLEAN, revived \in BOOLEAN, ClearToken
  PROVE  TokensTypeOK' /\ redirected' \in BOOLEAN /\ revived' \in BOOLEAN
<1>1. TokensTypeOK'
  <2>1. CASE token # 0
    <3>1. SetToken(0, 0) /\ issued' = issued
      BY <2>1 DEF ClearToken
    <3> QED BY <3>1 DEF TokensTypeOK, SetToken
  <2>2. CASE token = 0
    BY <2>2 DEF TokensTypeOK, ClearToken
  <2> QED BY <2>1, <2>2
<1>2. redirected' \in BOOLEAN /\ revived' \in BOOLEAN
  BY ConstantsAssumption, Zenon DEF ClearToken
<1> QED BY <1>1, <1>2

\* setToken for a refresh keeps the types.
LEMMA StoreType ==
  ASSUME TokensTypeOK, revived \in BOOLEAN, NEW r \in Nat, StoreTokens(r)
  PROVE  TokensTypeOK' /\ revived' \in BOOLEAN
<1>1. TokensTypeOK'
  <2>1. issued + 1 \in Nat /\ issued' = issued + 1
    BY DEF TokensTypeOK, StoreTokens
  <2>2. token' = issued + 1 /\ refreshToken' = r /\ tokenTimeoutHandle' = issued + 1
        /\ expiring' = FALSE
    BY DEF StoreTokens, SetToken
  <2>3. timers' \subseteq Nat
    BY <2>1 DEF TokensTypeOK, StoreTokens, SetToken
  <2> QED BY <2>1, <2>2, <2>3 DEF TokensTypeOK
<1>2. revived' \in BOOLEAN
  BY Zenon DEF StoreTokens
<1> QED BY <1>1, <1>2

\* Answering everyone in the queue leaves a well-typed, empty queue.
LEMMA DrainType ==
  ASSUME CallsTypeOK, NEW o \in Settled, NEW r, Drain(o), requests' = requests \ {r}
  PROVE  CallsTypeOK'
<1>1. promise' \in [Calls -> {"idle", "pending"} \cup Settled]
  BY SettleType DEF Drain
<1>2. refreshQueue' \in Seq(Calls)
  BY DEF Drain
<1> QED BY <1>1, <1>2 DEF CallsTypeOK

-----------------------------------------------------------------------------
\* Every step of the page keeps the types.
LEMMA TypeStep == TypeOK /\ [Next]_vars => TypeOK'
<1> SUFFICES ASSUME TypeOK, [Next]_vars
             PROVE  TypeOK'
  OBVIOUS
<1> USE DEF TypeOK
<1>1. ASSUME NEW c \in Calls, UpdateToken(c) PROVE TypeOK'
  <2>1. TokensTypeOK' /\ sessionActive' \in BOOLEAN /\ redirected' \in BOOLEAN
        /\ revived' \in BOOLEAN /\ fired' \subseteq Listeners
    BY <1>1 DEF UpdateToken, TokensTypeOK, tokens
  <2>2. CASE refreshToken = 0
    <3>1. CallsTypeOK'
      BY <1>1, <2>2, SettleType DEF UpdateToken, CallsTypeOK, Settled
    <3>2. ChecksTypeOK'
      BY <1>1, <2>2 DEF UpdateToken, ChecksTypeOK, iframe
    <3> QED BY <2>1, <3>1, <3>2
  <2>3. CASE refreshToken # 0 /\ IframeEnabled
    <3>1. CallsTypeOK'
      BY <1>1, <2>3, SettleType DEF UpdateToken, CallsTypeOK
    <3>2. CheckLoginIframe(c) /\ UNCHANGED <<poll, jobs>>
      BY <1>1, <2>3 DEF UpdateToken
    <3>3. ChecksTypeOK'
      BY <3>2, CheckType DEF ChecksTypeOK
    <3> QED BY <2>1, <3>1, <3>3
  <2>4. CASE refreshToken # 0 /\ ~IframeEnabled
    <3>1. CallsTypeOK'
      BY <1>1, <2>4, ExecType DEF UpdateToken
    <3>2. ChecksTypeOK'
      BY <1>1, <2>4 DEF UpdateToken, ChecksTypeOK, iframe
    <3> QED BY <2>1, <3>1, <3>2
  <2> QED BY <2>2, <2>3, <2>4, ConstantsAssumption
<1>2. ASSUME CallClearToken PROVE TypeOK'
  <2>1. TokensTypeOK' /\ redirected' \in BOOLEAN /\ revived' \in BOOLEAN
    BY <1>2, ClearType DEF CallClearToken
  <2>2. CallsTypeOK' /\ ChecksTypeOK' /\ sessionActive' \in BOOLEAN /\ fired' \subseteq Listeners
    BY <1>2 DEF CallClearToken, CallsTypeOK, ChecksTypeOK, iframe, LogoutListener, Listeners
  <2> QED BY <2>1, <2>2
<1>3. ASSUME NEW r \in requests, NEW a \in Answers, Answer(r, a) PROVE TypeOK'
  <2>1. [r EXCEPT !.answer = a] \in Request
    BY DEF CallsTypeOK, Request
  <2>2. CallsTypeOK'
    BY <1>3, <2>1 DEF Answer, CallsTypeOK
  <2>3. TokensTypeOK' /\ ChecksTypeOK' /\ sessionActive' \in BOOLEAN
        /\ redirected' \in BOOLEAN /\ revived' \in BOOLEAN /\ fired' \subseteq Listeners
    BY <1>3 DEF Answer, TokensTypeOK, ChecksTypeOK, tokens, iframe
  <2> QED BY <2>2, <2>3
<1>4. ASSUME NEW r \in requests, RefreshSucceeded(r) PROVE TypeOK'
  <2>1. TokensTypeOK' /\ revived' \in BOOLEAN
    <3>1. (IF r.answer = "ok" THEN issued + 1 ELSE 0) \in Nat
      BY DEF TokensTypeOK
    <3> QED BY <1>4, <3>1, StoreType DEF RefreshSucceeded
  <2>2. CallsTypeOK'
    BY <1>4, DrainType DEF RefreshSucceeded, Settled
  <2>3. ChecksTypeOK' /\ sessionActive' \in BOOLEAN /\ redirected' \in BOOLEAN
        /\ fired' \subseteq Listeners
    BY <1>4 DEF RefreshSucceeded, ChecksTypeOK, iframe, Listeners
  <2> QED BY <2>1, <2>2, <2>3
<1>5. ASSUME NEW r \in requests, RefreshRejected(r) PROVE TypeOK'
  <2>1. TokensTypeOK' /\ redirected' \in BOOLEAN /\ revived' \in BOOLEAN
    <3>1. CASE ClearToken
      BY <3>1, ClearType
    <3>2. CASE UNCHANGED <<tokens, redirected, revived>>
      BY <3>2 DEF tokens, TokensTypeOK
    <3> QED BY <1>5, <3>1, <3>2 DEF RefreshRejected
  <2>2. CallsTypeOK'
    BY <1>5, DrainType DEF RefreshRejected, Settled
  <2>3. ChecksTypeOK' /\ sessionActive' \in BOOLEAN /\ fired' \subseteq Listeners
    BY <1>5 DEF RefreshRejected, ChecksTypeOK, iframe, Listeners, LogoutListener
  <2> QED BY <2>1, <2>2, <2>3
<1>6. ASSUME NEW r \in requests, RefreshThrows(r) PROVE TypeOK'
  <2>1. TokensTypeOK' /\ revived' \in BOOLEAN
    <3>1. CASE StoreTokens(issued + 1)
      <4>1. issued + 1 \in Nat
        BY DEF TokensTypeOK
      <4> QED BY <3>1, <4>1, StoreType
    <3>2. CASE UNCHANGED <<tokens, revived>>
      BY <3>2 DEF tokens, TokensTypeOK
    <3> QED BY <1>6, <3>1, <3>2 DEF RefreshThrows
  <2>2. CallsTypeOK' /\ ChecksTypeOK' /\ sessionActive' \in BOOLEAN /\ redirected' \in BOOLEAN
    BY <1>6 DEF RefreshThrows, CallsTypeOK, ChecksTypeOK, iframe
  <2>3. fired' \subseteq Listeners
    BY <1>6 DEF RefreshThrows, Listeners
  <2> QED BY <2>1, <2>2, <2>3
<1>7. ASSUME NEW d \in Found, IframeAnswer(d) PROVE TypeOK'
  <2>1. iframeIn' \in Nat /\ iframeOut' \in Seq(Found)
    <3>1. iframeOut \in Seq(Found) /\ iframeOut' = Append(iframeOut, d)
      BY <1>7 DEF IframeAnswer, ChecksTypeOK
    <3>2. iframeIn \in Nat /\ iframeIn > 0 /\ iframeIn' = iframeIn - 1
      BY <1>7 DEF IframeAnswer, ChecksTypeOK
    <3> QED BY <3>1, <3>2
  <2>2. ChecksTypeOK'
    BY <1>7, <2>1 DEF IframeAnswer, ChecksTypeOK
  <2>3. TokensTypeOK' /\ CallsTypeOK' /\ sessionActive' \in BOOLEAN
        /\ redirected' \in BOOLEAN /\ revived' \in BOOLEAN /\ fired' \subseteq Listeners
    BY <1>7 DEF IframeAnswer, TokensTypeOK, CallsTypeOK, tokens
  <2> QED BY <2>2, <2>3
<1>8. ASSUME MessageCallback PROVE TypeOK'
  <2>1. Head(iframeOut) \in Found
        /\ Tail(iframeOut) \in Seq(Found)
    BY <1>8 DEF MessageCallback, ChecksTypeOK
  <2>2. jobs' \in Seq(Job)
    BY <1>8, <2>1, CallbacksType DEF MessageCallback
  <2>3. callbackList' \in Seq(Calls \cup {Poll})
    BY <1>8 DEF MessageCallback
  <2>4. ChecksTypeOK'
    BY <1>8, <2>1, <2>2, <2>3 DEF MessageCallback, ChecksTypeOK
  <2>5. TokensTypeOK' /\ redirected' \in BOOLEAN /\ revived' \in BOOLEAN
    <3>1. CASE ClearToken
      BY <3>1, ClearType
    <3>2. CASE UNCHANGED <<tokens, redirected, revived>>
      BY <3>2 DEF tokens, TokensTypeOK
    <3> QED BY <1>8, <3>1, <3>2 DEF MessageCallback
  <2>6. CallsTypeOK' /\ sessionActive' \in BOOLEAN /\ fired' \subseteq Listeners
    BY <1>8 DEF MessageCallback, CallsTypeOK, Listeners, LogoutListener
  <2> QED BY <2>4, <2>5, <2>6
<1>9. ASSUME RunCallOfCheck PROVE TypeOK'
  <2>1. Head(jobs) \in Job /\ Tail(jobs) \in Seq(Job)
    BY <1>9 DEF RunCallOfCheck, ChecksTypeOK
  <2>2. Head(jobs).who \in Calls
    BY <1>9, <2>1 DEF RunCallOfCheck, Job
  <2>3. CallsTypeOK'
    <3>1. CASE Exec(Head(jobs).who)
      BY <3>1, <2>2, ExecType
    <3>2. CASE Settle({Head(jobs).who}, "error") /\ UNCHANGED <<refreshQueue, requests>>
      BY <3>2, SettleType DEF CallsTypeOK, Settled
    <3> QED BY <1>9, <3>1, <3>2 DEF RunCallOfCheck
  <2>4. ChecksTypeOK'
    BY <1>9, <2>1 DEF RunCallOfCheck, ChecksTypeOK, iframe
  <2>5. TokensTypeOK' /\ sessionActive' \in BOOLEAN /\ redirected' \in BOOLEAN
        /\ revived' \in BOOLEAN /\ fired' \subseteq Listeners
    BY <1>9 DEF RunCallOfCheck, TokensTypeOK, tokens
  <2> QED BY <2>3, <2>4, <2>5
<1>10. ASSUME RunPollOfCheck PROVE TypeOK'
  <2>1. Tail(jobs) \in Seq(Job)
    BY <1>10 DEF RunPollOfCheck, ChecksTypeOK
  <2>2. ChecksTypeOK'
    BY <1>10, <2>1 DEF RunPollOfCheck, ChecksTypeOK, iframe
  <2>3. TokensTypeOK' /\ CallsTypeOK' /\ sessionActive' \in BOOLEAN /\ redirected' \in BOOLEAN
        /\ revived' \in BOOLEAN /\ fired' \subseteq Listeners
    BY <1>10 DEF RunPollOfCheck, TokensTypeOK, CallsTypeOK, tokens
  <2> QED BY <2>2, <2>3
<1>11. ASSUME PollTimer PROVE TypeOK'
  <2>1. CheckLoginIframe(Poll) /\ poll' = "check" /\ jobs' = jobs
    BY <1>11 DEF PollTimer
  <2>2. ChecksTypeOK'
    BY <2>1, CheckType DEF ChecksTypeOK
  <2>3. TokensTypeOK' /\ CallsTypeOK' /\ sessionActive' \in BOOLEAN /\ redirected' \in BOOLEAN
        /\ revived' \in BOOLEAN /\ fired' \subseteq Listeners
    BY <1>11 DEF PollTimer, TokensTypeOK, CallsTypeOK, tokens
  <2> QED BY <2>2, <2>3
<1>12. ASSUME TokenAges PROVE TypeOK'
  BY <1>12 DEF TokenAges, TokensTypeOK, CallsTypeOK, ChecksTypeOK, iframe
<1>13. ASSUME NEW v \in timers, TokenTimer(v) PROVE TypeOK'
  BY <1>13 DEF TokenTimer, TokensTypeOK, CallsTypeOK, ChecksTypeOK, iframe, Listeners
<1>14. ASSUME SessionEnds PROVE TypeOK'
  BY <1>14 DEF SessionEnds, TokensTypeOK, CallsTypeOK, ChecksTypeOK, tokens, iframe
<1>15. ASSUME UNCHANGED vars PROVE TypeOK'
  BY <1>15 DEF vars, TokensTypeOK, CallsTypeOK, ChecksTypeOK
<1> QED
  BY <1>1, <1>2, <1>3, <1>4, <1>5, <1>6, <1>7, <1>8, <1>9, <1>10, <1>11, <1>12, <1>13,
     <1>14, <1>15
  DEF Next, TokenEndpoint, RefreshHandler, SessionIframe, Microtask

\* The page keeps every variable in the range the code gives it, for any calls.
THEOREM TypeCorrect == Spec => []TypeOK
<1>1. Init => TypeOK
  <2> SUFFICES ASSUME Init PROVE TypeOK
    OBVIOUS
  <2>1. TokensTypeOK
    <3>1. expiring \in BOOLEAN
      BY Zenon DEF Init
    <3> QED BY <3>1 DEF Init, TokensTypeOK
  <2>2. CallsTypeOK
    BY DEF Init, CallsTypeOK
  <2>3. ChecksTypeOK
    BY DEF Init, ChecksTypeOK
  <2> QED BY <2>1, <2>2, <2>3 DEF Init, TypeOK
<1> QED BY <1>1, TypeStep, PTL DEF Spec

-----------------------------------------------------------------------------
(* The refresh queue.                                                       *)

\* The queue is served as long as no handler of a 200 answer throws.
QueueInv == SingleFlight /\ (Faults = {} => QueueServed)

\* exec sends a request exactly when it finds the queue empty.
LEMMA ExecQueue ==
  ASSUME CallsTypeOK, QueueInv, NEW c \in Calls, Exec(c)
  PROVE  QueueInv'
<1>1. CASE UNCHANGED <<refreshQueue, requests>>
  BY <1>1 DEF QueueInv, SingleFlight, QueueServed
<1>2. CASE /\ refreshQueue' = Append(refreshQueue, c)
           /\ requests' = IF refreshQueue = <<>>
                THEN requests \cup {[by |-> c, sent |-> refreshToken, answer |-> "none"]}
                ELSE requests
  <2>1. refreshQueue' # <<>>
    <3>1. refreshQueue \in Seq(Calls)
      BY DEF CallsTypeOK
    <3> QED BY <1>2, <3>1
  <2>2. CASE refreshQueue = <<>>
    <3>1. requests = {}
      BY <2>2 DEF QueueInv, SingleFlight
    <3>2. requests' = {[by |-> c, sent |-> refreshToken, answer |-> "none"]}
      BY <1>2, <2>2, <3>1
    <3> QED BY <2>1, <3>2, Zenon DEF QueueInv, SingleFlight, QueueServed
  <2>3. CASE refreshQueue # <<>>
    BY <1>2, <2>1, <2>3 DEF QueueInv, SingleFlight, QueueServed
  <2> QED BY <2>2, <2>3
<1> QED BY <1>1, <1>2 DEF Exec

\* The only request outside is removed in the step that empties the queue.
LEMMA QueueStep == TypeOK /\ QueueInv /\ [Next]_vars => QueueInv'
<1> SUFFICES ASSUME TypeOK, QueueInv, [Next]_vars
             PROVE  QueueInv'
  OBVIOUS
<1> USE DEF QueueInv, SingleFlight, QueueServed
<1>1. ASSUME NEW c \in Calls, UpdateToken(c) PROVE QueueInv'
  <2>1. CASE Exec(c)
    BY <2>1, ExecQueue DEF TypeOK
  <2>2. CASE UNCHANGED <<refreshQueue, requests>>
    BY <2>2
  <2> QED BY <1>1, <2>1, <2>2 DEF UpdateToken
<1>2. ASSUME NEW r \in requests, NEW a \in Answers, Answer(r, a) PROVE QueueInv'
  <2>1. requests = {r} /\ refreshQueue # <<>>
    OBVIOUS
  <2>2. requests' = {[r EXCEPT !.answer = a]} /\ refreshQueue' = refreshQueue
    BY <1>2, <2>1 DEF Answer
  <2> QED BY <2>1, <2>2
<1>3. ASSUME NEW r \in requests, RefreshSucceeded(r) \/ RefreshRejected(r) PROVE QueueInv'
  <2>1. requests' = requests \ {r} /\ refreshQueue' = <<>>
    BY <1>3 DEF RefreshSucceeded, RefreshRejected, Drain
  <2>2. requests' = {}
    BY <2>1
  <2> QED BY <2>1, <2>2
<1>4. ASSUME NEW r \in requests, RefreshThrows(r) PROVE QueueInv'
  <2>1. requests' = {} /\ Faults # {}
    BY <1>4 DEF RefreshThrows
  <2> QED BY <2>1
<1>5. ASSUME RunCallOfCheck PROVE QueueInv'
  <2>1. Head(jobs).who \in Calls
    <3>1. Head(jobs) \in Job
      BY <1>5 DEF RunCallOfCheck, TypeOK, ChecksTypeOK
    <3> QED BY <1>5, <3>1 DEF RunCallOfCheck, Job
  <2>2. CASE Exec(Head(jobs).who)
    BY <2>1, <2>2, ExecQueue DEF TypeOK
  <2>3. CASE UNCHANGED <<refreshQueue, requests>>
    BY <2>3
  <2> QED BY <1>5, <2>2, <2>3 DEF RunCallOfCheck
<1>6. ASSUME \/ CallClearToken \/ SessionIframe \/ MessageCallback \/ RunPollOfCheck
             \/ PollTimer \/ TokenAges \/ (\E v \in timers : TokenTimer(v)) \/ SessionEnds
             \/ UNCHANGED vars
      PROVE QueueInv'
  BY <1>6 DEF CallClearToken, SessionIframe, IframeAnswer, MessageCallback, RunPollOfCheck,
              PollTimer, TokenAges, TokenTimer, SessionEnds, vars
<1> QED
  BY <1>1, <1>2, <1>3, <1>4, <1>5, <1>6
  DEF Next, TokenEndpoint, RefreshHandler, Microtask

\* However many calls overlap there is at most one refresh request outside,
\* its callers are in the queue, and without a throwing handler nobody is in
\* the queue of a request that is not there.
THEOREM SingleFlightHolds == Spec => [](SingleFlight /\ (Faults = {} => QueueServed))
<1>1. Init => QueueInv
  BY DEF Init, QueueInv, SingleFlight, QueueServed
<1>2. QueueInv => SingleFlight /\ (Faults = {} => QueueServed)
  BY DEF QueueInv
<1> QED BY <1>1, <1>2, QueueStep, TypeCorrect, PTL DEF Spec
-----------------------------------------------------------------------------
(* The timer behind onTokenExpired.                                         *)

\* The remembered handle is that of the only timer, set for the current token.
TimerInv ==
  /\ timers \subseteq ({tokenTimeoutHandle} \ {0})
  /\ tokenTimeoutHandle \in {0, token}

\* No step leaves a timer of an earlier token.
LEMMA TimerStep == TypeOK /\ TimerInv /\ [Next]_vars => TimerInv'
<1> SUFFICES ASSUME TypeOK, TimerInv, [Next]_vars
             PROVE  TimerInv'
  OBVIOUS
<1> USE DEF TimerInv
<1>1. ASSUME NEW x, NEW y, SetToken(x, y) PROVE TimerInv'
  BY <1>1 DEF SetToken
<1>2. ASSUME ClearToken PROVE TimerInv'
  BY <1>1, <1>2 DEF ClearToken
<1>3. ASSUME NEW y, StoreTokens(y) PROVE TimerInv'
  BY <1>1, <1>3 DEF StoreTokens
<1>4. CASE UNCHANGED tokens
  BY <1>4 DEF tokens
<1>5. ASSUME CallClearToken \/ MessageCallback PROVE TimerInv'
  BY <1>2, <1>4, <1>5 DEF CallClearToken, MessageCallback
<1>6. ASSUME RefreshHandler PROVE TimerInv'
  BY <1>2, <1>3, <1>4, <1>6
  DEF RefreshHandler, RefreshSucceeded, RefreshRejected, RefreshThrows
<1>7. ASSUME TokenAges \/ (\E v \in timers : TokenTimer(v)) PROVE TimerInv'
  BY <1>7 DEF TokenAges, TokenTimer
<1>8. ASSUME \/ \E c \in Calls : UpdateToken(c)
             \/ TokenEndpoint \/ SessionIframe \/ Microtask \/ PollTimer \/ SessionEnds
             \/ UNCHANGED vars
      PROVE UNCHANGED tokens
  BY <1>8 DEF UpdateToken, TokenEndpoint, Answer, SessionIframe, IframeAnswer, Microtask,
              RunCallOfCheck, RunPollOfCheck, PollTimer, SessionEnds, vars, tokens
<1> QED BY <1>4, <1>5, <1>6, <1>7, <1>8 DEF Next

\* No onTokenExpired timer of a token that is no longer in use is running.
THEOREM TimerHolds == Spec => []TimerOfCurrentToken
<1>1. Init => TimerInv
  BY DEF Init, TimerInv
<1>2. TimerInv => TimerOfCurrentToken
  BY DEF TimerInv, TimerOfCurrentToken
<1> QED BY <1>1, <1>2, TimerStep, TypeCorrect, PTL DEF Spec

-----------------------------------------------------------------------------
(* The checks of the session.                                               *)

\* A message is posted by the first check of the list and its answer takes the
\* whole list away.
LEMMA ListStep == TypeOK /\ ListServed /\ [Next]_vars => ListServed'
<1> SUFFICES ASSUME TypeOK, ListServed, [Next]_vars
             PROVE  ListServed'
  OBVIOUS
<1> USE DEF ListServed
<1>0. /\ callbackList \in Seq(Calls \cup {Poll}) /\ iframeIn \in Nat
      /\ iframeOut \in Seq(Found) /\ Len(iframeOut) \in Nat
  BY DEF TypeOK, ChecksTypeOK
<1>1. ASSUME NEW w \in Calls \cup {Poll}, CheckLoginIframe(w) PROVE ListServed'
  <2>1. callbackList' # <<>>
    BY <1>0, <1>1 DEF CheckLoginIframe
  <2>2. iframeOut' = iframeOut
        /\ iframeIn' = IF callbackList = <<>> THEN iframeIn + 1 ELSE iframeIn
    BY <1>1 DEF CheckLoginIframe
  <2> QED BY <1>0, <2>1, <2>2
<1>2. CASE UNCHANGED iframe
  BY <1>2 DEF iframe
<1>3. ASSUME NEW c \in Calls, UpdateToken(c) PROVE ListServed'
  BY <1>1, <1>2, <1>3 DEF UpdateToken, iframe
<1>4. ASSUME PollTimer PROVE ListServed'
  BY <1>1, <1>4 DEF PollTimer
<1>5. ASSUME NEW d \in Found, IframeAnswer(d) PROVE ListServed'
  <2>1. iframeOut' = Append(iframeOut, d) /\ iframeIn' = iframeIn - 1 /\ iframeIn > 0
        /\ callbackList' = callbackList
    BY <1>5 DEF IframeAnswer
  <2>2. Len(iframeOut') = Len(iframeOut) + 1
    BY <1>0, <2>1
  <2> QED BY <1>0, <2>1, <2>2
<1>6. ASSUME MessageCallback PROVE ListServed'
  <2>1. /\ iframeOut # <<>> /\ iframeOut' = Tail(iframeOut) /\ iframeIn' = iframeIn
        /\ callbackList' = <<>>
    BY <1>6 DEF MessageCallback
  <2>2. Len(iframeOut) >= 1 /\ Len(iframeOut') = Len(iframeOut) - 1
    BY <1>0, <2>1
  <2> QED BY <1>0, <2>1, <2>2
<1>7. ASSUME \/ CallClearToken \/ TokenEndpoint \/ RefreshHandler \/ Microtask \/ TokenAges
             \/ (\E v \in timers : TokenTimer(v)) \/ SessionEnds \/ UNCHANGED vars
      PROVE UNCHANGED iframe
  BY <1>7 DEF CallClearToken, TokenEndpoint, Answer, RefreshHandler, RefreshSucceeded,
              RefreshRejected, RefreshThrows, Microtask, RunCallOfCheck, RunPollOfCheck,
              TokenAges, TokenTimer, SessionEnds, vars, iframe
<1> QED BY <1>2, <1>3, <1>4, <1>5, <1>6, <1>7 DEF Next, SessionIframe

\* Waiting checks share one message, and every answer finds a list to answer.
THEOREM ListHolds == Spec => []ListServed
<1>1. Init => ListServed
  BY DEF Init, ListServed
<1> QED BY <1>1, ListStep, TypeCorrect, PTL DEF Spec

-----------------------------------------------------------------------------
(* The watch over the session.                                              *)

\* A microtask of a check that found no "unchanged" runs before any token can
\* come back, so the chain of polls ends only when there is none.
WatchInv ==
  /\ SessionWatched
  /\ \A i \in DOMAIN jobs : jobs[i].found = "unchanged" \/ token = 0

\* No step ends the poll while a token is there that was never away.
LEMMA WatchStep == TypeOK /\ WatchInv /\ [Next]_vars => WatchInv'
<1> SUFFICES ASSUME TypeOK, WatchInv, [Next]_vars
             PROVE  WatchInv'
  OBVIOUS
<1> USE DEF WatchInv, SessionWatched
<1>1. ASSUME ClearToken PROVE token' = 0 /\ revived' = revived
  BY <1>1 DEF ClearToken, SetToken
<1>2. ASSUME NEW y, StoreTokens(y), poll' = poll PROVE SessionWatched'
  BY <1>2 DEF StoreTokens, SetToken
<1>3. ASSUME jobs \in Seq(Job), jobs # <<>>, jobs' = Tail(jobs), token' = token
      PROVE \A i \in DOMAIN jobs' : jobs'[i].found = "unchanged" \/ token' = 0
  <2>1. \A i \in DOMAIN jobs' : i + 1 \in DOMAIN jobs /\ jobs'[i] = jobs[i + 1]
    BY <1>3
  <2> QED BY <1>3, <2>1
<1>4. jobs \in Seq(Job)
  BY DEF TypeOK, ChecksTypeOK
<1>5. ASSUME CallClearToken PROVE WatchInv'
  BY <1>1, <1>5 DEF CallClearToken
<1>6. ASSUME NEW r \in requests, RefreshSucceeded(r) \/ RefreshRejected(r) \/ RefreshThrows(r)
      PROVE WatchInv'
  <2>1. jobs = <<>> /\ jobs' = <<>> /\ poll' = poll
    BY <1>6 DEF RefreshSucceeded, RefreshRejected, RefreshThrows
  <2>2. \/ \E y : StoreTokens(y)
        \/ ClearToken
        \/ UNCHANGED <<tokens, revived>>
    BY <1>6 DEF RefreshSucceeded, RefreshRejected, RefreshThrows
  <2>3. SessionWatched'
    BY <1>1, <1>2, <2>1, <2>2 DEF tokens
  <2> QED BY <2>1, <2>3
<1>7. ASSUME MessageCallback PROVE WatchInv'
  <2>1. CASE Head(iframeOut) = "unchanged" /\ UNCHANGED <<tokens, revived>>
    <3>1. jobs' = Callbacks("unchanged") /\ poll' = poll
      BY <1>7, <2>1 DEF MessageCallback
    <3>2. \A i \in DOMAIN jobs' : jobs'[i].found = "unchanged"
      BY <3>1 DEF Callbacks
    <3> QED BY <2>1, <3>1, <3>2 DEF tokens
  <2>2. CASE ClearToken
    BY <1>1, <2>2
  <2> QED BY <1>7, <2>1, <2>2 DEF MessageCallback
<1>8. ASSUME RunCallOfCheck PROVE WatchInv'
  <2>1. jobs # <<>> /\ jobs' = Tail(jobs) /\ UNCHANGED <<token, revived, poll>>
    BY <1>8 DEF RunCallOfCheck, tokens
  <2> QED BY <1>3, <1>4, <2>1
<1>9. ASSUME RunPollOfCheck PROVE WatchInv'
  <2>1. jobs # <<>> /\ jobs' = Tail(jobs) /\ UNCHANGED <<token, revived>>
    BY <1>9 DEF RunPollOfCheck, tokens
  <2>2. poll' = IF Head(jobs).found = "unchanged" /\ token # 0 THEN "timer" ELSE "off"
    BY <1>9 DEF RunPollOfCheck
  <2>3. Head(jobs).found = "unchanged" \/ token = 0
    BY <1>4, <2>1
  <2> QED BY <1>3, <1>4, <2>1, <2>2, <2>3
<1>10. ASSUME PollTimer PROVE WatchInv'
  BY <1>10 DEF PollTimer, tokens
<1>11. ASSUME \/ (\E c \in Calls : UpdateToken(c)) \/ TokenEndpoint \/ SessionIframe
              \/ TokenAges \/ (\E v \in timers : TokenTimer(v)) \/ SessionEnds
              \/ UNCHANGED vars
       PROVE UNCHANGED <<token, revived, poll, jobs>>
  BY <1>11 DEF UpdateToken, TokenEndpoint, Answer, SessionIframe, IframeAnswer, TokenAges,
               TokenTimer, SessionEnds, vars, tokens
<1> QED
  BY <1>5, <1>6, <1>7, <1>8, <1>9, <1>10, <1>11
  DEF Next, RefreshHandler, Microtask

\* With the iframe enabled, an authenticated session always has a poll under
\* way, unless tokens came back after clearToken.
THEOREM WatchHolds == Spec => []SessionWatched
<1>1. Init => WatchInv
  BY DEF Init, WatchInv, SessionWatched
<1>2. WatchInv => SessionWatched
  BY DEF WatchInv
<1> QED BY <1>1, <1>2, WatchStep, TypeCorrect, PTL DEF Spec
-----------------------------------------------------------------------------
(* Logout and what comes after it.                                          *)

\* Tokens come and go together, and only a request that carried a refresh
\* token is answered with tokens.
TokensInv ==
  /\ token = 0 => refreshToken = 0
  /\ token \in {0, issued} /\ issued > 0
  /\ \A r \in requests : (r.answer \in Good \cup {"listenerThrows"}) => r.sent # 0

\* No step breaks the link between the tokens and the requests outside.
LEMMA TokensStep == TypeOK /\ TokensInv /\ [Next]_vars => TokensInv'
<1> SUFFICES ASSUME TypeOK, TokensInv, [Next]_vars
             PROVE  TokensInv'
  OBVIOUS
<1> DEFINE Together == (token = 0 => refreshToken = 0) /\ token \in {0, issued} /\ issued > 0
           Earned   == \A r \in requests : (r.answer \in Good \cup {"listenerThrows"}) => r.sent # 0
<1>0. issued \in Nat /\ Together /\ Earned
  BY DEF TypeOK, TokensTypeOK, TokensInv
<1>1. ASSUME ClearToken PROVE Together'
  BY <1>0, <1>1 DEF ClearToken, SetToken
<1>2. ASSUME NEW y, StoreTokens(y) PROVE Together'
  BY <1>0, <1>2 DEF StoreTokens, SetToken
<1>3. ASSUME UNCHANGED <<token, refreshToken, issued>> PROVE Together'
  BY <1>0, <1>3
<1>4. Together'
  <2>1. CASE CallClearToken \/ MessageCallback
    BY <1>1, <1>3, <2>1 DEF CallClearToken, MessageCallback, tokens
  <2>2. CASE RefreshHandler
    BY <1>1, <1>2, <1>3, <2>2
    DEF RefreshHandler, RefreshSucceeded, RefreshRejected, RefreshThrows, tokens
  <2>3. CASE \/ \E c \in Calls : UpdateToken(c)
             \/ TokenEndpoint \/ SessionIframe \/ Microtask \/ PollTimer \/ SessionEnds
             \/ TokenAges \/ (\E v \in timers : TokenTimer(v)) \/ UNCHANGED vars
    BY <1>3, <2>3 DEF UpdateToken, TokenEndpoint, Answer, SessionIframe, IframeAnswer,
       Microtask, RunCallOfCheck, RunPollOfCheck, PollTimer, SessionEnds, TokenAges,
       TokenTimer, vars, tokens
  <2> QED BY <2>1, <2>2, <2>3 DEF Next
<1>5. ASSUME NEW c, Exec(c) PROVE Earned'
  <2>1. \A r \in requests' : r \in requests \/ r.answer = "none"
    BY <1>5 DEF Exec
  <2> QED BY <1>0, <2>1 DEF Good
<1>6. ASSUME requests' \subseteq requests PROVE Earned'
  BY <1>0, <1>6
<1>7. Earned'
  <2>1. ASSUME NEW c \in Calls, UpdateToken(c) PROVE Earned'
    BY <1>5, <1>6, <2>1 DEF UpdateToken
  <2>2. ASSUME NEW r \in requests, NEW a \in Answers, Answer(r, a) PROVE Earned'
    <3>1. r \in Request
      BY DEF TypeOK, CallsTypeOK
    <3>2. [r EXCEPT !.answer = a].answer = a /\ [r EXCEPT !.answer = a].sent = r.sent
      BY <3>1 DEF Request
    <3>3. (a \in Good \cup {"listenerThrows"}) => r.sent # 0
      BY <2>2 DEF Answer
    <3>4. requests' = (requests \ {r}) \cup {[r EXCEPT !.answer = a]}
      BY <2>2 DEF Answer
    <3> QED BY <1>0, <3>2, <3>3, <3>4
  <2>3. CASE RunCallOfCheck
    BY <1>5, <1>6, <2>3 DEF RunCallOfCheck
  <2>4. CASE \/ CallClearToken \/ RefreshHandler \/ SessionIframe \/ MessageCallback
             \/ RunPollOfCheck \/ PollTimer \/ TokenAges \/ (\E v \in timers : TokenTimer(v))
             \/ SessionEnds \/ UNCHANGED vars
    BY <1>6, <2>4 DEF CallClearToken, RefreshHandler, RefreshSucceeded, RefreshRejected,
       RefreshThrows, SessionIframe, IframeAnswer, MessageCallback, RunPollOfCheck, PollTimer,
       TokenAges, TokenTimer, SessionEnds, vars
  <2> QED BY <2>1, <2>2, <2>3, <2>4 DEF Next, TokenEndpoint, Microtask
<1> QED BY <1>4, <1>7 DEF TokensInv

\* The link between the tokens and the requests outside always holds.
LEMMA TokensHold == Spec => []TokensInv
<1>1. Init => TokensInv
  BY DEF Init, TokensInv
<1> QED BY <1>1, TokensStep, TypeCorrect, PTL DEF Spec

\* What may change when there are no tokens.
Away ==
  token = 0 =>
    /\ \A r \in requests' : r.sent = 0 \/ \E q \in requests : q.by = r.by /\ q.sent = r.sent
    /\ (\A r \in requests : r.sent = 0) => token' = 0

\* Once clearToken has run, only a request sent before it can bring tokens back.
THEOREM NoResurrectionHolds == Spec => NoResurrection
<1>1. TypeOK /\ TokensInv /\ [Next]_vars => [Away]_vars
  <2> SUFFICES ASSUME TypeOK, TokensInv, Next, token = 0
               PROVE  /\ \A r \in requests' : r.sent = 0
                           \/ \E q \in requests : q.by = r.by /\ q.sent = r.sent
                      /\ (\A r \in requests : r.sent = 0) => token' = 0
    BY DEF Away
  <2> DEFINE Old == \A r \in requests' : r.sent = 0
                      \/ \E q \in requests : q.by = r.by /\ q.sent = r.sent
  <2>1. ASSUME NEW c, Exec(c) PROVE Old
    <3>1. refreshToken = 0
      BY DEF TokensInv
    <3>2. \A r \in requests' : r \in requests \/ r.sent = refreshToken
      BY <2>1 DEF Exec
    <3> QED BY <3>1, <3>2
  <2>2. ASSUME requests' \subseteq requests PROVE Old
    BY <2>2
  <2>3. ASSUME ClearToken \/ token' = token PROVE token' = 0
    BY <2>3 DEF ClearToken, SetToken
  <2>4. ASSUME NEW c \in Calls, UpdateToken(c) PROVE Old /\ token' = 0
    BY <2>1, <2>2, <2>4 DEF UpdateToken, tokens
  <2>5. ASSUME NEW r \in requests, NEW a \in Answers, Answer(r, a) PROVE Old /\ token' = 0
    <3>1. r \in Request
      BY DEF TypeOK, CallsTypeOK
    <3>2. [r EXCEPT !.answer = a].by = r.by /\ [r EXCEPT !.answer = a].sent = r.sent
      BY <3>1 DEF Request
    <3>3. requests' = (requests \ {r}) \cup {[r EXCEPT !.answer = a]} /\ token' = token
      BY <2>5 DEF Answer, tokens
    <3> QED BY <3>2, <3>3
  <2>6. ASSUME NEW r \in requests, RefreshSucceeded(r) \/ RefreshRejected(r) \/ RefreshThrows(r)
        PROVE Old /\ ((\A q \in requests : q.sent = 0) => token' = 0)
    <3>1. Old
      BY <2>2, <2>6 DEF RefreshSucceeded, RefreshRejected, RefreshThrows
    <3>2. ASSUME r.sent = 0 PROVE token' = 0
      <4>1. r.answer \notin Good \cup {"listenerThrows"}
        BY <3>2 DEF TokensInv
      <4>2. ClearToken \/ token' = token
        BY <2>6, <4>1 DEF RefreshSucceeded, RefreshRejected, RefreshThrows, tokens
      <4> QED BY <2>3, <4>2
    <3> QED BY <3>1, <3>2
  <2>7. CASE RunCallOfCheck
    BY <2>1, <2>2, <2>7 DEF RunCallOfCheck, tokens
  <2>8. CASE \/ CallClearToken \/ SessionIframe \/ MessageCallback \/ RunPollOfCheck
             \/ PollTimer \/ TokenAges \/ (\E v \in timers : TokenTimer(v)) \/ SessionEnds
    <3>1. requests' = requests /\ (ClearToken \/ token' = token)
      BY <2>8 DEF CallClearToken, SessionIframe, IframeAnswer, MessageCallback, RunPollOfCheck,
         PollTimer, TokenAges, TokenTimer, SessionEnds, tokens
    <3> QED BY <2>2, <2>3, <3>1
  <2> QED BY <2>4, <2>5, <2>6, <2>7, <2>8 DEF Next, TokenEndpoint, RefreshHandler, Microtask
<1>2. [][Away]_vars => NoResurrection
  BY DEF NoResurrection, Away
<1> QED BY <1>1, <1>2, TokensHold, TypeCorrect, PTL DEF Spec
\* Listeners hear of a logout in the very step that takes the tokens away.
THEOREM LogoutAnnouncedHolds == Spec => LogoutAnnounced
<1> DEFINE Told == ("onAuthLogout" \in fired') <=> (token # 0 /\ token' = 0)
<1>1. TypeOK /\ TokensInv /\ [Next]_vars => [Told]_vars
  <2> SUFFICES ASSUME TypeOK, TokensInv, Next PROVE Told
    OBVIOUS
  <2>1. ASSUME ClearToken PROVE ("onAuthLogout" \in LogoutListener) <=> (token # 0 /\ token' = 0)
    BY <2>1 DEF ClearToken, SetToken, LogoutListener
  <2>2. ASSUME NEW y, StoreTokens(y) PROVE token' # 0
    BY <2>2 DEF StoreTokens, SetToken, TypeOK, TokensTypeOK
  <2>3. CASE CallClearToken
    BY <2>1, <2>3 DEF CallClearToken
  <2>4. CASE MessageCallback
    BY <2>1, <2>4 DEF MessageCallback, tokens
  <2>5. ASSUME NEW r \in requests, RefreshSucceeded(r) \/ RefreshThrows(r) PROVE Told
    BY <2>2, <2>5 DEF RefreshSucceeded, RefreshThrows, tokens
  <2>6. ASSUME NEW r \in requests, RefreshRejected(r) PROVE Told
    <3>1. CASE ClearToken /\ fired' = LogoutListener \cup {"onAuthRefreshError"}
      BY <2>1, <3>1
    <3>2. CASE fired' = {"onAuthRefreshError"} /\ UNCHANGED tokens
      BY <3>2 DEF tokens
    <3> QED BY <2>6, <3>1, <3>2 DEF RefreshRejected
  <2>7. CASE \/ \E c \in Calls : UpdateToken(c)
             \/ TokenEndpoint \/ SessionIframe \/ Microtask \/ PollTimer \/ SessionEnds
             \/ TokenAges \/ (\E v \in timers : TokenTimer(v))
    BY <2>7 DEF UpdateToken, TokenEndpoint, Answer, SessionIframe, IframeAnswer,
       Microtask, RunCallOfCheck, RunPollOfCheck, PollTimer, SessionEnds, TokenAges,
       TokenTimer, tokens
  <2> QED BY <2>3, <2>4, <2>5, <2>6, <2>7 DEF Next, RefreshHandler
<1>2. [][Told]_vars => LogoutAnnounced
  BY DEF LogoutAnnounced
<1> QED BY <1>1, <1>2, TokensHold, TypeCorrect, PTL DEF Spec

-----------------------------------------------------------------------------
(* What callers are told.                                                   *)

\* The answer a call gets in a step is true in the state after it.
TrueAnswer ==
  \A c \in Calls : promise'[c] # promise[c] =>
    /\ promise'[c] = "valid" => (token' # 0 /\ ~expiring' /\ c \notin Forced)
    /\ promise'[c] = "refreshed" => (token' = issued' /\ issued' > issued)

\* No call is told that the token is valid or refreshed when it is not.
THEOREM AnswersAreTrueHolds == Spec => AnswersAreTrue
<1>1. TypeOK /\ [Next]_vars => [TrueAnswer]_vars
  <2> SUFFICES ASSUME TypeOK, Next PROVE TrueAnswer
    OBVIOUS
  <2>0. promise \in [Calls -> {"idle", "pending"} \cup Settled] /\ issued \in Nat
    BY DEF TypeOK, CallsTypeOK, TokensTypeOK
  <2>1. ASSUME NEW cs, NEW o \in {"pending", "error"}, Settle(cs, o) PROVE TrueAnswer
    BY <2>0, <2>1 DEF Settle, TrueAnswer
  <2>2. ASSUME promise' = promise PROVE TrueAnswer
    BY <2>2 DEF TrueAnswer
  <2>3. ASSUME NEW c \in Calls, Exec(c), UNCHANGED tokens PROVE TrueAnswer
    <3>1. CASE ~NeedsRefresh(c) /\ Settle({c}, "valid")
      <4>1. c \notin Forced /\ token' # 0 /\ ~expiring'
        BY <2>3, <3>1 DEF NeedsRefresh, tokens
      <4> QED BY <2>0, <3>1, <4>1 DEF Settle, TrueAnswer
    <3>2. CASE Settle({c}, "pending") \/ Settle({c}, "error")
      BY <2>1, <3>2
    <3> QED BY <2>3, <3>1, <3>2 DEF Exec
  <2>4. ASSUME NEW c \in Calls, UpdateToken(c) PROVE TrueAnswer
    <3>1. UNCHANGED tokens
      BY <2>4 DEF UpdateToken
    <3>2. Exec(c) \/ Settle({c}, "error") \/ Settle({c}, "pending")
      BY <2>4 DEF UpdateToken
    <3> QED BY <2>1, <2>3, <3>1, <3>2
  <2>5. ASSUME NEW r \in requests, RefreshSucceeded(r) PROVE TrueAnswer
    <3>1. token' = issued' /\ issued' > issued
      BY <2>0, <2>5 DEF RefreshSucceeded, StoreTokens, SetToken
    <3>2. \E cs : Settle(cs, "refreshed")
      BY <2>5 DEF RefreshSucceeded, Drain
    <3> QED BY <2>0, <3>1, <3>2 DEF Settle, TrueAnswer
  <2>6. ASSUME NEW r \in requests, RefreshRejected(r) PROVE TrueAnswer
    <3>1. \E cs : Settle(cs, "error")
      BY <2>6 DEF RefreshRejected, Drain
    <3> QED BY <2>1, <3>1
  <2>7. CASE RunCallOfCheck
    <3>1. Head(jobs).who \in Calls /\ UNCHANGED tokens
      <4>1. Head(jobs) \in Job
        BY <2>7 DEF RunCallOfCheck, TypeOK, ChecksTypeOK
      <4> QED BY <2>7, <4>1 DEF RunCallOfCheck, Job
    <3>2. Exec(Head(jobs).who) \/ Settle({Head(jobs).who}, "error")
      BY <2>7 DEF RunCallOfCheck
    <3> QED BY <2>1, <2>3, <3>1, <3>2
  <2>8. CASE \/ CallClearToken \/ TokenEndpoint \/ (\E r \in requests : RefreshThrows(r))
             \/ SessionIframe \/ MessageCallback \/ RunPollOfCheck \/ PollTimer
             \/ SessionEnds \/ TokenAges \/ (\E v \in timers : TokenTimer(v))
    <3>1. promise' = promise
      BY <2>8 DEF CallClearToken, TokenEndpoint, Answer, RefreshThrows, SessionIframe,
         IframeAnswer, MessageCallback, RunPollOfCheck, PollTimer, SessionEnds, TokenAges,
         TokenTimer
    <3> QED BY <2>2, <3>1
  <2> QED BY <2>4, <2>5, <2>6, <2>7, <2>8 DEF Next, RefreshHandler, Microtask
<1>2. [][TrueAnswer]_vars => AnswersAreTrue
  BY DEF AnswersAreTrue, TrueAnswer
<1> QED BY <1>1, <1>2, TypeCorrect, PTL DEF Spec

-----------------------------------------------------------------------------
(* Where a pending call waits.                                              *)

InQueue(c) == \E i \in DOMAIN refreshQueue : refreshQueue[i] = c
InList(c)  == \E i \in DOMAIN callbackList : callbackList[i] = c
InJobs(c)  == \E i \in DOMAIN jobs : jobs[i].who = c

\* Nobody stands twice in one of the three lists, or in two of them, and those who
\* stand in one are the pending calls.
NoDoubles ==
  /\ \A i, j \in DOMAIN refreshQueue : refreshQueue[i] = refreshQueue[j] => i = j
  /\ \A i, j \in DOMAIN callbackList :
       (callbackList[i] \in Calls /\ callbackList[i] = callbackList[j]) => i = j
  /\ \A i, j \in DOMAIN jobs :
       (jobs[i].who \in Calls /\ jobs[i].who = jobs[j].who) => i = j

PlacesInv ==
  /\ NoDoubles
  /\ \A c \in Calls : /\ InQueue(c) => (~InList(c) /\ ~InJobs(c))
                      /\ InList(c) => ~InJobs(c)
                      /\ promise[c] = "pending" <=> (InQueue(c) \/ InList(c) \/ InJobs(c))

\* A sequence with an element appended, and one without its head, position by position.
LEMMA AppendPlaces ==
  ASSUME NEW S, NEW s \in Seq(S), NEW e \in S
  PROVE  /\ DOMAIN Append(s, e) = DOMAIN s \cup {Len(s) + 1} /\ Len(s) + 1 \notin DOMAIN s
         /\ \A i \in DOMAIN s : Append(s, e)[i] = s[i]
         /\ Append(s, e)[Len(s) + 1] = e
<1>1. Len(s) \in Nat /\ DOMAIN s = 1..Len(s)
  OBVIOUS
<1>2. Len(Append(s, e)) = Len(s) + 1 /\ DOMAIN Append(s, e) = 1..(Len(s) + 1)
  OBVIOUS
<1> QED BY <1>1, <1>2

LEMMA TailPlaces ==
  ASSUME NEW S, NEW s \in Seq(S), s # <<>>
  PROVE  /\ 1 \in DOMAIN s /\ Head(s) = s[1]
         /\ \A i \in DOMAIN Tail(s) : i + 1 \in DOMAIN s /\ Tail(s)[i] = s[i + 1] /\ i + 1 # 1
         /\ \A i \in DOMAIN s \ {1} : i - 1 \in DOMAIN Tail(s) /\ Tail(s)[i - 1] = s[i]
         /\ \A i, j \in DOMAIN Tail(s) : i + 1 = j + 1 => i = j
<1>1. Len(s) \in Nat \ {0} /\ DOMAIN s = 1..Len(s)
  OBVIOUS
<1>2. DOMAIN Tail(s) = 1..(Len(s) - 1) /\ \A i \in 1..(Len(s) - 1) : Tail(s)[i] = s[i + 1]
  OBVIOUS
<1> QED BY <1>1, <1>2

\* The inductive invariant says it of positions, OnePlace of the set of places.
LEMMA PlacesGiveOne == TypeOK /\ PlacesInv => OnePlace
<1> SUFFICES ASSUME PlacesInv, NEW c \in Calls
             PROVE  IF promise[c] = "pending" THEN \E p \in Places(c) : Places(c) = {p}
                                              ELSE Places(c) = {}
  BY DEF OnePlace
<1>1. CASE promise[c] # "pending"
  <2>1. ~InQueue(c) /\ ~InList(c) /\ ~InJobs(c)
    BY <1>1 DEF PlacesInv
  <2> QED BY <1>1, <2>1 DEF Places, InQueue, InList, InJobs
<1>2. CASE InQueue(c)
  <2>1. PICK i \in DOMAIN refreshQueue : refreshQueue[i] = c
    BY <1>2 DEF InQueue
  <2>2. {j \in DOMAIN refreshQueue : refreshQueue[j] = c} = {i}
    BY <2>1 DEF PlacesInv, NoDoubles
  <2>3. ~InList(c) /\ ~InJobs(c) /\ promise[c] = "pending"
    BY <1>2 DEF PlacesInv
  <2>4. Places(c) = {<<"queue", i>>}
    BY <2>2, <2>3 DEF Places, InList, InJobs
  <2> QED BY <2>3, <2>4
<1>3. CASE InList(c)
  <2>1. PICK i \in DOMAIN callbackList : callbackList[i] = c
    BY <1>3 DEF InList
  <2>2. {j \in DOMAIN callbackList : callbackList[j] = c} = {i}
    BY <2>1 DEF PlacesInv, NoDoubles
  <2>3. ~InQueue(c) /\ ~InJobs(c) /\ promise[c] = "pending"
    BY <1>3 DEF PlacesInv
  <2>4. Places(c) = {<<"list", i>>}
    BY <2>2, <2>3 DEF Places, InQueue, InJobs
  <2> QED BY <2>3, <2>4
<1>4. CASE InJobs(c)
  <2>1. PICK i \in DOMAIN jobs : jobs[i].who = c
    BY <1>4 DEF InJobs
  <2>2. {j \in DOMAIN jobs : jobs[j].who = c} = {i}
    BY <2>1 DEF PlacesInv, NoDoubles
  <2>3. ~InQueue(c) /\ ~InList(c) /\ promise[c] = "pending"
    BY <1>4 DEF PlacesInv
  <2>4. Places(c) = {<<"job", i>>}
    BY <2>2, <2>3 DEF Places, InQueue, InList
  <2> QED BY <2>3, <2>4
<1> QED BY <1>1, <1>2, <1>3, <1>4 DEF PlacesInv

\* A call joins the queue, a check the list; the first microtask leaves.
LEMMA EnterQueue ==
  ASSUME CallsTypeOK, NoDoubles, NEW c \in Calls, ~InQueue(c),
         refreshQueue' = Append(refreshQueue, c)
  PROVE  /\ \A i, j \in DOMAIN refreshQueue' : refreshQueue'[i] = refreshQueue'[j] => i = j
         /\ \A d : InQueue(d)' <=> (InQueue(d) \/ d = c)
<1>1. refreshQueue \in Seq(Calls)
  BY DEF CallsTypeOK
<1> DEFINE n == Len(refreshQueue) + 1
<1>2. /\ DOMAIN refreshQueue' = DOMAIN refreshQueue \cup {n} /\ n \notin DOMAIN refreshQueue
      /\ \A i \in DOMAIN refreshQueue : refreshQueue'[i] = refreshQueue[i]
      /\ refreshQueue'[n] = c
  BY <1>1, AppendPlaces
<1> HIDE DEF n
<1>3. \A i \in DOMAIN refreshQueue : refreshQueue[i] # c
  BY DEF InQueue
<1> QED BY <1>2, <1>3 DEF NoDoubles, InQueue

LEMMA EnterList ==
  ASSUME ChecksTypeOK, NoDoubles, NEW w \in Calls \cup {Poll}, w \in Calls => ~InList(w),
         callbackList' = Append(callbackList, w)
  PROVE  /\ \A i, j \in DOMAIN callbackList' :
              (callbackList'[i] \in Calls /\ callbackList'[i] = callbackList'[j]) => i = j
         /\ \A d : InList(d)' <=> (InList(d) \/ d = w)
<1>1. callbackList \in Seq(Calls \cup {Poll})
  BY DEF ChecksTypeOK
<1> DEFINE n == Len(callbackList) + 1
<1>2. /\ DOMAIN callbackList' = DOMAIN callbackList \cup {n} /\ n \notin DOMAIN callbackList
      /\ \A i \in DOMAIN callbackList : callbackList'[i] = callbackList[i]
      /\ callbackList'[n] = w
  BY <1>1, AppendPlaces
<1> HIDE DEF n
<1>3. w \in Calls => \A i \in DOMAIN callbackList : callbackList[i] # w
  BY DEF InList
<1> QED BY <1>2, <1>3 DEF NoDoubles, InList

LEMMA LeaveJobs ==
  ASSUME ChecksTypeOK, NoDoubles, jobs # <<>>, jobs' = Tail(jobs)
  PROVE  /\ \A i, j \in DOMAIN jobs' : (jobs'[i].who \in Calls /\ jobs'[i].who = jobs'[j].who) => i = j
         /\ \A d \in Calls : InJobs(d)' <=> (InJobs(d) /\ d # Head(jobs).who)
         /\ InJobs(Head(jobs).who)
<1>1. jobs \in Seq(Job)
  BY DEF ChecksTypeOK
<1>2. /\ 1 \in DOMAIN jobs /\ Head(jobs) = jobs[1]
      /\ \A i \in DOMAIN jobs' : i + 1 \in DOMAIN jobs /\ jobs'[i] = jobs[i + 1] /\ i + 1 # 1
      /\ \A i \in DOMAIN jobs \ {1} : i - 1 \in DOMAIN jobs' /\ jobs'[i - 1] = jobs[i]
      /\ \A i, j \in DOMAIN jobs' : i + 1 = j + 1 => i = j
  BY <1>1, TailPlaces
<1>3. ASSUME NEW i \in DOMAIN jobs', NEW j \in DOMAIN jobs', jobs'[i].who \in Calls,
             jobs'[i].who = jobs'[j].who
      PROVE  i = j
  <2>1. i + 1 = j + 1
    BY <1>2, <1>3 DEF NoDoubles
  <2> QED BY <1>2, <2>1
<1>4. ASSUME NEW d \in Calls PROVE InJobs(d)' <=> (InJobs(d) /\ d # Head(jobs).who)
  <2>1. ASSUME NEW i \in DOMAIN jobs', jobs'[i].who = d PROVE InJobs(d) /\ d # Head(jobs).who
    <3>1. i + 1 \in DOMAIN jobs /\ jobs[i + 1].who = d /\ i + 1 # 1
      BY <1>2, <2>1
    <3> QED BY <1>2, <3>1 DEF InJobs, NoDoubles
  <2>2. ASSUME NEW i \in DOMAIN jobs, jobs[i].who = d, d # Head(jobs).who PROVE InJobs(d)'
    <3>1. i # 1
      BY <1>2, <2>2
    <3>2. i - 1 \in DOMAIN jobs' /\ jobs'[i - 1].who = d
      BY <1>2, <2>2, <3>1
    <3> QED BY <3>2 DEF InJobs
  <2> QED BY <2>1, <2>2 DEF InJobs
<1>5. InJobs(Head(jobs).who)
  BY <1>2 DEF InJobs
<1> QED BY <1>3, <1>4, <1>5

\* The answer of the iframe turns the list into microtasks, the last check first.
LEMMA ListToJobs ==
  ASSUME ChecksTypeOK, NoDoubles, NEW d \in Found, jobs' = Callbacks(d)
  PROVE  /\ \A i, j \in DOMAIN jobs' : (jobs'[i].who \in Calls /\ jobs'[i].who = jobs'[j].who) => i = j
         /\ \A c : InJobs(c)' <=> InList(c)
<1> DEFINE n == Len(callbackList)
<1>1. n \in Nat /\ DOMAIN callbackList = 1..n
  BY DEF ChecksTypeOK
<1>2. DOMAIN jobs' = 1..n /\ \A i \in 1..n : jobs'[i].who = callbackList[n + 1 - i]
  BY DEF Callbacks
<1> HIDE DEF n
<1>3. \A i \in 1..n : n + 1 - i \in 1..n /\ n + 1 - (n + 1 - i) = i
  BY <1>1
<1>4. ASSUME NEW i \in 1..n, NEW j \in 1..n, jobs'[i].who \in Calls, jobs'[i].who = jobs'[j].who
      PROVE  i = j
  <2>1. n + 1 - i = n + 1 - j
    BY <1>1, <1>2, <1>3, <1>4 DEF NoDoubles
  <2> QED BY <1>1, <2>1
<1>5. ASSUME NEW c PROVE InJobs(c)' <=> InList(c)
  <2>1. ASSUME NEW i \in 1..n, jobs'[i].who = c PROVE InList(c)
    BY <1>1, <1>2, <1>3, <2>1 DEF InList
  <2>2. ASSUME NEW i \in 1..n, callbackList[i] = c PROVE InJobs(c)'
    <3>1. n + 1 - i \in 1..n /\ jobs'[n + 1 - i].who = callbackList[i]
      BY <1>2, <1>3, <2>2
    <3> QED BY <1>2, <2>2, <3>1 DEF InJobs
  <2> QED BY <1>1, <1>2, <2>1, <2>2 DEF InList, InJobs
<1> QED BY <1>2, <1>4, <1>5

\* exec takes a call that stands nowhere: it answers it, or puts it into the queue.
LEMMA ExecOutcome ==
  ASSUME NEW c \in Calls, Exec(c)
  PROVE  \/ /\ \E o \in Settled : Settle({c}, o)
            /\ UNCHANGED refreshQueue
         \/ /\ Settle({c}, "pending")
            /\ refreshQueue' = Append(refreshQueue, c)
BY DEF Exec, Settled

\* What a step may do to the places of calls.
LEMMA PlacesStep == TypeOK /\ PlacesInv /\ [Next]_vars => PlacesInv'
<1> SUFFICES ASSUME TypeOK, PlacesInv, [Next]_vars
             PROVE  PlacesInv'
  OBVIOUS
<1> DEFINE QueueOnce == \A i, j \in DOMAIN refreshQueue : refreshQueue[i] = refreshQueue[j] => i = j
           ListOnce  == \A i, j \in DOMAIN callbackList :
                          (callbackList[i] \in Calls /\ callbackList[i] = callbackList[j]) => i = j
           JobsOnce  == \A i, j \in DOMAIN jobs :
                          (jobs[i].who \in Calls /\ jobs[i].who = jobs[j].who) => i = j
           Apart     == \A c \in Calls :
                          /\ InQueue(c) => (~InList(c) /\ ~InJobs(c))
                          /\ InList(c) => ~InJobs(c)
                          /\ promise[c] = "pending" <=> (InQueue(c) \/ InList(c) \/ InJobs(c))
<1>0. /\ CallsTypeOK /\ ChecksTypeOK /\ NoDoubles
      /\ QueueOnce /\ ListOnce /\ JobsOnce /\ Apart
      /\ promise \in [Calls -> {"idle", "pending"} \cup Settled]
  BY DEF TypeOK, CallsTypeOK, PlacesInv, NoDoubles
<1>q. ASSUME UNCHANGED refreshQueue PROVE QueueOnce' /\ \A c : InQueue(c)' <=> InQueue(c)
  BY <1>0, <1>q DEF InQueue
<1>l. ASSUME UNCHANGED callbackList PROVE ListOnce' /\ \A c : InList(c)' <=> InList(c)
  BY <1>0, <1>l DEF InList
<1>j. ASSUME UNCHANGED jobs PROVE JobsOnce' /\ \A c : InJobs(c)' <=> InJobs(c)
  BY <1>0, <1>j DEF InJobs
<1>i. ASSUME QueueOnce', ListOnce', JobsOnce', Apart' PROVE PlacesInv'
  BY <1>i DEF PlacesInv, NoDoubles
<1>s. ASSUME NEW c \in Calls, NEW o, Settle({c}, o)
      PROVE  promise'[c] = o /\ \A d \in Calls \ {c} : promise'[d] = promise[d]
  BY <1>s DEF Settle
<1> HIDE DEF QueueOnce, ListOnce, JobsOnce
<1>p. "pending" \notin Settled /\ "idle" # "pending"
  BY DEF Settled
<1>1. ASSUME NEW c \in Calls, UpdateToken(c) PROVE PlacesInv'
  <2>1. promise[c] = "idle" /\ ~InQueue(c) /\ ~InList(c) /\ ~InJobs(c) /\ UNCHANGED jobs
    BY <1>0, <1>p, <1>1 DEF UpdateToken
  <2>2. CASE Settle({c}, "error") /\ UNCHANGED <<refreshQueue, callbackList>>
    <3>1. Apart'
      BY <1>0, <1>q, <1>l, <1>j, <1>s, <2>1, <2>2
    <3> QED BY <1>i, <1>q, <1>l, <1>j, <2>1, <2>2, <3>1
  <2>3. CASE Settle({c}, "pending") /\ CheckLoginIframe(c) /\ UNCHANGED refreshQueue
    <3>1. callbackList' = Append(callbackList, c)
      BY <2>3 DEF CheckLoginIframe
    <3>2. ListOnce' /\ \A d : InList(d)' <=> (InList(d) \/ d = c)
      BY <1>0, <2>1, <3>1, EnterList DEF ListOnce
    <3>3. Apart'
      BY <1>0, <1>q, <1>j, <1>s, <2>1, <2>3, <3>2
    <3> QED BY <1>i, <1>q, <1>j, <2>1, <2>3, <3>2, <3>3
  <2>4. CASE Exec(c) /\ UNCHANGED callbackList
    <3>1. CASE (\E o \in Settled : Settle({c}, o)) /\ UNCHANGED refreshQueue
      <4>1. Apart'
        BY <1>0, <1>q, <1>l, <1>j, <1>s, <1>p, <2>1, <2>4, <3>1
      <4> QED BY <1>i, <1>q, <1>l, <1>j, <2>1, <2>4, <3>1, <4>1
    <3>2. CASE Settle({c}, "pending") /\ refreshQueue' = Append(refreshQueue, c)
      <4>1. QueueOnce' /\ \A d : InQueue(d)' <=> (InQueue(d) \/ d = c)
        BY <1>0, <2>1, <3>2, EnterQueue DEF QueueOnce
      <4>2. Apart'
        BY <1>0, <1>l, <1>j, <1>s, <2>1, <2>4, <3>2, <4>1
      <4> QED BY <1>i, <1>l, <1>j, <2>1, <2>4, <4>1, <4>2
    <3> QED BY <2>4, <3>1, <3>2, ExecOutcome
  <2> QED BY <1>1, <2>2, <2>3, <2>4 DEF UpdateToken, iframe
<1>2. ASSUME NEW r \in requests, RefreshSucceeded(r) \/ RefreshRejected(r) PROVE PlacesInv'
  <2>1. UNCHANGED <<callbackList, jobs>> /\ refreshQueue' = <<>>
        /\ \E o \in Settled : Settle({refreshQueue[i] : i \in DOMAIN refreshQueue}, o)
    BY <1>2 DEF RefreshSucceeded, RefreshRejected, Drain, Settled, iframe
  <2>2. QueueOnce' /\ \A c : ~InQueue(c)'
    BY <2>1 DEF QueueOnce, InQueue
  <2>3. \A c \in Calls : IF InQueue(c) THEN promise'[c] \in Settled ELSE promise'[c] = promise[c]
    BY <2>1 DEF Settle, InQueue
  <2>4. Apart'
    BY <1>0, <1>l, <1>j, <1>p, <2>1, <2>2, <2>3
  <2> QED BY <1>i, <1>l, <1>j, <2>1, <2>2, <2>4
<1>3. ASSUME MessageCallback PROVE PlacesInv'
  <2>1. /\ jobs = <<>> /\ callbackList' = <<>> /\ UNCHANGED <<promise, refreshQueue>>
        /\ jobs' = Callbacks(Head(iframeOut)) /\ Head(iframeOut) \in Found
    BY <1>0, <1>3 DEF MessageCallback, ChecksTypeOK
  <2>2. ListOnce' /\ \A c : ~InList(c)'
    BY <2>1 DEF ListOnce, InList
  <2>3. JobsOnce' /\ \A c : InJobs(c)' <=> InList(c)
    BY <1>0, <2>1, ListToJobs DEF JobsOnce
  <2>4. \A c : ~InJobs(c)
    BY <2>1 DEF InJobs
  <2>5. Apart'
    BY <1>0, <1>q, <2>1, <2>2, <2>3, <2>4
  <2> QED BY <1>i, <1>q, <2>1, <2>2, <2>3, <2>5
<1>4. ASSUME RunCallOfCheck PROVE PlacesInv'
  <2> DEFINE c == Head(jobs).who
  <2>1. jobs # <<>> /\ jobs' = Tail(jobs) /\ UNCHANGED callbackList
    BY <1>4 DEF RunCallOfCheck, iframe
  <2>2. c \in Calls
    <3>1. Head(jobs) \in Job
      BY <1>0, <2>1 DEF ChecksTypeOK
    <3> QED BY <1>4, <3>1 DEF RunCallOfCheck, Job
  <2>3. JobsOnce' /\ InJobs(c) /\ \A d \in Calls : InJobs(d)' <=> (InJobs(d) /\ d # c)
    BY <1>0, <2>1, LeaveJobs DEF JobsOnce
  <2>4. Exec(c) \/ (Settle({c}, "error") /\ UNCHANGED refreshQueue)
    BY <1>4 DEF RunCallOfCheck
  <2> HIDE DEF c
  <2>5. ~InQueue(c) /\ ~InList(c)
    BY <1>0, <2>2, <2>3
  <2>6. CASE (\E o \in Settled : Settle({c}, o)) /\ UNCHANGED refreshQueue
    <3>1. Apart'
      BY <1>0, <1>q, <1>l, <1>s, <1>p, <2>1, <2>2, <2>3, <2>5, <2>6
    <3> QED BY <1>i, <1>q, <1>l, <2>1, <2>3, <2>6, <3>1
  <2>7. CASE Settle({c}, "pending") /\ refreshQueue' = Append(refreshQueue, c)
    <3>1. QueueOnce' /\ \A d : InQueue(d)' <=> (InQueue(d) \/ d = c)
      BY <1>0, <2>2, <2>5, <2>7, EnterQueue DEF QueueOnce
    <3>2. Apart'
      BY <1>0, <1>l, <1>s, <2>1, <2>2, <2>3, <2>5, <2>7, <3>1
    <3> QED BY <1>i, <1>l, <2>1, <2>3, <3>1, <3>2
  <2> QED BY <2>2, <2>4, <2>6, <2>7, ExecOutcome DEF Settled
<1>5. ASSUME RunPollOfCheck PROVE PlacesInv'
  <2>1. jobs # <<>> /\ jobs' = Tail(jobs) /\ Head(jobs).who = Poll
        /\ UNCHANGED <<promise, refreshQueue, callbackList>>
    BY <1>5 DEF RunPollOfCheck, iframe
  <2>2. JobsOnce' /\ \A d \in Calls : InJobs(d)' <=> InJobs(d)
    BY <1>0, <2>1, LeaveJobs, ConstantsAssumption DEF JobsOnce
  <2>3. Apart'
    BY <1>0, <1>q, <1>l, <2>1, <2>2
  <2> QED BY <1>i, <1>q, <1>l, <2>1, <2>2, <2>3
<1>6. ASSUME PollTimer PROVE PlacesInv'
  <2>1. callbackList' = Append(callbackList, Poll) /\ UNCHANGED <<promise, refreshQueue, jobs>>
    BY <1>6 DEF PollTimer, CheckLoginIframe
  <2>2. ListOnce' /\ \A d : InList(d)' <=> (InList(d) \/ d = Poll)
    BY <1>0, <2>1, EnterList, ConstantsAssumption DEF ListOnce
  <2>3. Apart'
    BY <1>0, <1>q, <1>j, <2>1, <2>2, ConstantsAssumption
  <2> QED BY <1>i, <1>q, <1>j, <2>1, <2>2, <2>3
<1>7. ASSUME \/ CallClearToken \/ TokenEndpoint \/ (\E r \in requests : RefreshThrows(r))
             \/ SessionIframe \/ TokenAges \/ (\E v \in timers : TokenTimer(v)) \/ SessionEnds
             \/ UNCHANGED vars
      PROVE PlacesInv'
  <2>1. UNCHANGED <<promise, refreshQueue, callbackList, jobs>>
    BY <1>7 DEF CallClearToken, TokenEndpoint, Answer, RefreshThrows, SessionIframe,
       IframeAnswer, TokenAges, TokenTimer, SessionEnds, vars, iframe
  <2>2. Apart'
    BY <1>0, <1>q, <1>l, <1>j, <2>1
  <2> QED BY <1>i, <1>q, <1>l, <1>j, <2>1, <2>2
<1> QED
  BY <1>1, <1>2, <1>3, <1>4, <1>5, <1>6, <1>7
  DEF Next, RefreshHandler, Microtask

\* A pending call waits in one place only and a settled one in none, however many
\* calls overlap and whatever the server and the iframe answer.
LEMMA PlacesHold == Spec => []PlacesInv
<1>1. Init => PlacesInv
  BY DEF Init, PlacesInv, NoDoubles, InQueue, InList, InJobs
<1> QED BY <1>1, PlacesStep, TypeCorrect, PTL DEF Spec

\* updateToken (603-688) and the checks of the iframe (1252, 1288): a pending call waits in the
\* queue, in the list of a check or in one microtask, just once; a settled one nowhere.
THEOREM OnePlaceHolds == Spec => []OnePlace
BY PlacesHold, PlacesGiveOne, TypeCorrect, PTL

-----------------------------------------------------------------------------
(* The session implements SharedRefresh, step by step.                      *)

Waiting == {refreshQueue[i] : i \in DOMAIN refreshQueue}

\* Where no handler of a 200 answer throws, every step of the page is a step of the
\* shared refresh or leaves what it shows unchanged.
LEMMA RefinementStep ==
  ASSUME Faults = {}, TypeOK, QueueInv, TokensInv, PlacesInv, [Next]_vars
  PROVE  [Refresher!Next]_Refresher!vars
<1> DEFINE Stutter == UNCHANGED <<promise, refreshQueue, token>> /\ (requests' # {} <=> requests # {})
<1>0. /\ promise \in [Calls -> {"idle", "pending"} \cup Settled]
      /\ token \in Nat /\ issued \in Nat /\ refreshQueue \in Seq(Calls)
      /\ \A c \in Calls : c \in Waiting => promise[c] = "pending"
      /\ requests # {} <=> refreshQueue # <<>>
  <2>1. \A c \in Calls : c \in Waiting => promise[c] = "pending"
    BY DEF PlacesInv, InQueue, Waiting
  <2> QED BY <2>1 DEF TypeOK, CallsTypeOK, TokensTypeOK, QueueInv, SingleFlight, QueueServed
<1>s. Stutter => [Refresher!Next]_Refresher!vars
  BY DEF Refresher!vars
<1>c. ASSUME NEW c \in Calls, NEW o \in {"pending", "valid", "error"}, Settle({c}, o)
      PROVE  promise' = [promise EXCEPT ![c] = o]
  BY <1>0, <1>c DEF Settle
<1>e. ASSUME NEW c \in Calls, Exec(c), UNCHANGED token, promise[c] \in {"idle", "pending"},
             c \notin Waiting
      PROVE  [Refresher!Next]_Refresher!vars
  <2>0. Refresher!Undecided(c)
    BY <1>e DEF Refresher!Undecided, Waiting
  <2>1. CASE /\ Settle({c}, "error") \/ (Settle({c}, "valid") /\ token # 0)
             /\ UNCHANGED <<refreshQueue, requests>>
    <3>1. Refresher!Decide(c)
      BY <1>c, <1>e, <2>0, <2>1 DEF Refresher!Decide
    <3> QED BY <3>1 DEF Refresher!Next
  <2>2. CASE /\ Settle({c}, "pending")
             /\ refreshQueue' = Append(refreshQueue, c)
             /\ requests' # {}
    <3>1. Waiting' = Waiting \cup {c}
      BY <1>0, <2>2, AppendPlaces DEF Waiting
    <3>2. Refresher!Join(c)
      BY <1>c, <1>e, <2>0, <2>2, <3>1 DEF Refresher!Join, Waiting
    <3> QED BY <3>2 DEF Refresher!Next
  <2>3. Exec(c) => \/ Settle({c}, "error") /\ UNCHANGED <<refreshQueue, requests>>
                   \/ Settle({c}, "valid") /\ token # 0 /\ UNCHANGED <<refreshQueue, requests>>
                   \/ /\ Settle({c}, "pending") /\ refreshQueue' = Append(refreshQueue, c)
                      /\ requests' # {}
    BY <1>0 DEF Exec, NeedsRefresh
  <2> QED BY <1>e, <2>1, <2>2, <2>3
<1>o. ASSUME ClearToken PROVE token' = 0
  BY <1>o DEF ClearToken, SetToken
<1>1. ASSUME NEW c \in Calls, UpdateToken(c) PROVE [Refresher!Next]_Refresher!vars
  <2>1. promise[c] = "idle" /\ c \notin Waiting /\ UNCHANGED token
    BY <1>0, <1>1 DEF UpdateToken, tokens
  <2>2. CASE Settle({c}, "error") /\ UNCHANGED <<refreshQueue, requests>>
    <3>1. Refresher!Decide(c)
      BY <1>c, <2>1, <2>2 DEF Refresher!Decide, Refresher!Undecided, Waiting
    <3> QED BY <3>1 DEF Refresher!Next
  <2>3. CASE Settle({c}, "pending") /\ UNCHANGED <<refreshQueue, requests>>
    <3>1. Refresher!Begin(c)
      BY <1>c, <2>1, <2>3 DEF Refresher!Begin
    <3> QED BY <3>1 DEF Refresher!Next
  <2>4. CASE Exec(c)
    BY <1>e, <2>1, <2>4
  <2> QED BY <1>1, <2>2, <2>3, <2>4 DEF UpdateToken
<1>2. ASSUME NEW r \in requests, RefreshSucceeded(r) PROVE [Refresher!Next]_Refresher!vars
  <2>1. requests # {} /\ ~(requests' # {}) /\ Waiting' = {}
    BY <1>2 DEF RefreshSucceeded, Drain, QueueInv, SingleFlight, Waiting
  <2>2. promise' = [c \in Calls |-> IF c \in Waiting THEN "refreshed" ELSE promise[c]]
    BY <1>2 DEF RefreshSucceeded, Drain, Settle, Waiting
  <2>3. token' \in Nat /\ token' > token
    BY <1>0, <1>2 DEF RefreshSucceeded, StoreTokens, SetToken, TokensInv
  <2>4. Refresher!Land
    BY <2>1, <2>2, <2>3 DEF Refresher!Land, Waiting
  <2> QED BY <2>4 DEF Refresher!Next
<1>3. ASSUME NEW r \in requests, RefreshRejected(r) PROVE [Refresher!Next]_Refresher!vars
  <2>1. requests # {} /\ ~(requests' # {}) /\ Waiting' = {}
    BY <1>3 DEF RefreshRejected, Drain, QueueInv, SingleFlight, Waiting
  <2>2. promise' = [c \in Calls |-> IF c \in Waiting THEN "error" ELSE promise[c]]
    BY <1>3 DEF RefreshRejected, Drain, Settle, Waiting
  <2>3. token' \in {token, 0}
    BY <1>o, <1>3 DEF RefreshRejected, tokens
  <2>4. Refresher!Land
    BY <2>1, <2>2, <2>3 DEF Refresher!Land, Waiting
  <2> QED BY <2>4 DEF Refresher!Next
<1>4. ASSUME CallClearToken \/ MessageCallback PROVE [Refresher!Next]_Refresher!vars
  <2>1. UNCHANGED <<promise, refreshQueue, requests>> /\ (token' = token \/ token' = 0)
    BY <1>o, <1>4 DEF CallClearToken, MessageCallback, tokens
  <2>2. CASE token' = token
    BY <1>s, <2>1, <2>2
  <2>3. CASE token' = 0 /\ token # 0
    <3>1. Refresher!Logout
      BY <2>1, <2>3 DEF Refresher!Logout
    <3> QED BY <3>1 DEF Refresher!Next
  <2> QED BY <2>1, <2>2, <2>3
<1>5. ASSUME RunCallOfCheck PROVE [Refresher!Next]_Refresher!vars
  <2> DEFINE c == Head(jobs).who
  <2>1. Head(jobs) \in Job /\ jobs # <<>>
    BY <1>5 DEF RunCallOfCheck, TypeOK, ChecksTypeOK
  <2>2. c \in Calls /\ UNCHANGED token
    BY <1>5, <2>1 DEF RunCallOfCheck, Job, tokens
  <2>3. InJobs(c)
    <3>1. jobs \in Seq(Job)
      BY DEF TypeOK, ChecksTypeOK
    <3> QED BY <2>1, <3>1, TailPlaces DEF InJobs
  <2>4. Exec(c) \/ (Settle({c}, "error") /\ UNCHANGED <<refreshQueue, requests>>)
    BY <1>5 DEF RunCallOfCheck
  <2> HIDE DEF c
  <2>5. promise[c] = "pending" /\ c \notin Waiting
    BY <2>2, <2>3 DEF PlacesInv, InQueue, Waiting
  <2>6. CASE Settle({c}, "error") /\ UNCHANGED <<refreshQueue, requests>>
    <3>1. Refresher!Decide(c)
      BY <1>c, <2>2, <2>5, <2>6 DEF Refresher!Decide, Refresher!Undecided, Waiting
    <3> QED BY <2>2, <3>1 DEF Refresher!Next
  <2> QED BY <1>e, <2>2, <2>4, <2>5, <2>6
<1>6. ASSUME NEW r \in requests, NEW a \in Answers, Answer(r, a)
      PROVE  [Refresher!Next]_Refresher!vars
  <2>1. Stutter
    BY <1>6 DEF Answer, tokens
  <2> QED BY <1>s, <2>1
<1>7. \A r \in requests : ~RefreshThrows(r)
  BY DEF RefreshThrows
<1>8. ASSUME \/ SessionIframe \/ RunPollOfCheck \/ PollTimer \/ TokenAges
             \/ (\E v \in timers : TokenTimer(v)) \/ SessionEnds \/ UNCHANGED vars
      PROVE  [Refresher!Next]_Refresher!vars
  <2>1. Stutter
    BY <1>8 DEF SessionIframe, IframeAnswer, RunPollOfCheck, PollTimer, TokenAges, TokenTimer,
       SessionEnds, vars, tokens
  <2> QED BY <1>s, <2>1
<1> QED
  BY <1>1, <1>2, <1>3, <1>4, <1>5, <1>6, <1>7, <1>8
  DEF Next, TokenEndpoint, RefreshHandler, Microtask

\* updateToken keeps the promise of the shared refresh towards any number of callers: one
\* answer each, one refresh for all who need it, and its outcome for all of them in one step.
THEOREM SharedRefreshImplemented ==
  ASSUME Faults = {}
  PROVE  Spec => Refresher!Spec
<1>1. Init => Refresher!Init
  BY DEF Init, Refresher!Init
<1>2. TypeOK /\ QueueInv /\ TokensInv /\ PlacesInv /\ [Next]_vars => [Refresher!Next]_Refresher!vars
  BY RefinementStep
<1>3. Spec => []QueueInv
  <2>1. Init => QueueInv
    BY DEF Init, QueueInv, SingleFlight, QueueServed
  <2> QED BY <2>1, QueueStep, TypeCorrect, PTL DEF Spec
<1> QED BY <1>1, <1>2, <1>3, TokensHold, PlacesHold, TypeCorrect, PTL DEF Spec, Refresher!Spec
=============================================================================
