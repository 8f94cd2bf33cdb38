------------------------------ MODULE TokenClock ------------------------------
(***************************************************************************)
(* How long a token is believed to live (keycloak.js: setToken and         *)
(* isTokenExpired).  The server stamps tokens with its own clock, in       *)
(* seconds; the page only sees when it asked and when the answer came, in  *)
(* milliseconds of its own clock, and takes the middle for the time of     *)
(* issue.  Here both clocks are one: the server's is the page's plus       *)
(* `offset', so that what the page believes can be compared with the truth.*)
(*                                                                         *)
(* Only refreshes are modelled; a code exchange measures in the same way.  *)
(***************************************************************************)
EXTENDS Integers

CONSTANTS
  Lifespan,    \* of an access token, in seconds
  Offsets,     \* what the server's clock may be ahead of the page's, in ms
  Validities,  \* values of minValidity
  Steps,       \* how far the clock may move between two events, in ms
  MaxTime,     \* bound on the clock
  TimerRange   \* 2^31: setTimeout converts its delay to a signed 32-bit integer

Second == 1000

ASSUME ClockAssumption ==
  /\ Lifespan \in Nat
  /\ Offsets \subseteq Int
  /\ Validities \subseteq Nat
  /\ Steps \subseteq Nat \ {0}
  /\ MaxTime \in Nat
  /\ TimerRange \in Nat \ {0}

VARIABLES
  now,       \* new Date().getTime()
  offset,    \* the server's clock minus the page's
  request,   \* the refresh request: where it is, when it was sent, and iat
  stored,    \* there is an access token
  exp,       \* kc.tokenParsed.exp, in seconds of the server
  timeSkew,  \* kc.timeSkew
  known,     \* kc.timeSkew is not null
  timer,     \* whether an onTokenExpired timer is set
  due,       \* and when it will fire
  trip,      \* history: how long the request for the token took
  fired      \* history: the last step called onTokenExpired

token == <<stored, exp, timeSkew, known, trip>>
vars == <<now, offset, request, stored, exp, timeSkew, known, timer, due, trip, fired>>

Requests  == [at : {"none", "sent", "issued"}, sent : Nat, iat : Int]
NoRequest == [at |-> "none", sent |-> 0, iat |-> 0]

Floor(ms) == ms \div Second
Ceil(ms)  == (ms + Second - 1) \div Second

\* The application gave init a token without a time skew.
Init ==
  /\ now = 0
  /\ offset \in Offsets
  /\ request = NoRequest
  /\ stored = TRUE /\ exp = Floor(offset) + Lifespan
  /\ timeSkew = 0 /\ known = FALSE
  /\ timer = FALSE /\ due = 0
  /\ trip = 0 /\ fired = FALSE

-----------------------------------------------------------------------------
\* Mutant of IsTokenExpired: minValidity is not subtracted.
IsTokenExpired_NoMargin(minValidity) == ~known \/ exp - Ceil(now) + timeSkew < 0

\* kc.isTokenExpired of a token that is there.
IsTokenExpired(minValidity) == ~known \/ exp - Ceil(now) + timeSkew - minValidity < 0

\* Mutant of Skew: measured with the time of the answer.
Skew_OnArrival(sent, iat) == Floor(now) - iat

\* Mutant of Skew: measured with the time of the request.
Skew_OnDeparture(sent, iat) == Floor(sent) - iat

\* The skew that setToken computes from the middle of request and answer.
Skew(sent, iat) == (sent + now) \div (2 * Second) - iat

\* What setTimeout makes of a delay that does not fit.
Delay(ms) ==
  IF ms < TimerRange THEN ms
  ELSE LET w == ms % (2 * TimerRange) IN IF w < TimerRange THEN w ELSE 0

\* Milliseconds to the expiry of a token, as setToken computes them.
ExpiresIn(e, skew) == (e + skew) * Second - now

\* setToken with a timeLocal, for an answer that carries a token of time iat.
SetToken(sent, iat) ==
  /\ stored' = TRUE
  /\ exp' = iat + Lifespan
  /\ timeSkew' = Skew(sent, iat) /\ known' = TRUE
  /\ trip' = now - sent
  /\ LET ms == ExpiresIn(exp', timeSkew') IN
       /\ fired' = (ms <= 0)
       /\ timer' = (ms > 0)
       /\ due' = IF ms > 0 THEN now + Delay(ms) ELSE due

-----------------------------------------------------------------------------
SendRefresh ==
  /\ request.at = "none"
  /\ request' = [at |-> "sent", sent |-> now, iat |-> 0]
  /\ fired' = FALSE
  /\ UNCHANGED <<now, offset, token, timer, due>>

\* External: the server issues a token at its own time.
IssueToken ==
  /\ request.at = "sent"
  /\ request' = [request EXCEPT !.at = "issued", !.iat = Floor(now + offset)]
  /\ fired' = FALSE
  /\ UNCHANGED <<now, offset, token, timer, due>>

RefreshSucceeded ==
  /\ request.at = "issued"
  /\ SetToken(request.sent, request.iat)
  /\ request' = NoRequest
  /\ UNCHANGED <<now, offset>>

\* Mutant of RefreshFailed: clearToken does not cancel the timer.
RefreshFailed_KeepsTimer ==
  /\ request.at # "none"
  /\ stored' \in {FALSE, stored}
  /\ request' = NoRequest
  /\ fired' = FALSE
  /\ UNCHANGED <<now, offset, exp, timeSkew, known, timer, due, trip>>

\* A 400 clears the token and its timer, any other failure leaves them.
RefreshFailed ==
  /\ request.at # "none"
  /\ \/ /\ stored' = FALSE /\ timer' = FALSE
     \/ UNCHANGED <<stored, timer>>
  /\ request' = NoRequest
  /\ fired' = FALSE
  /\ UNCHANGED <<now, offset, exp, timeSkew, known, due, trip>>

\* A timer may be late, never early.
TokenTimer ==
  /\ timer /\ due <= now
  /\ timer' = FALSE
  /\ fired' = TRUE
  /\ UNCHANGED <<now, offset, request, token, due>>

ClockTicks(ms) ==
  /\ now + ms <= MaxTime
  /\ now' = now + ms
  /\ fired' = FALSE
  /\ UNCHANGED <<offset, request, token, timer, due>>

Next ==
  \/ SendRefresh \/ IssueToken \/ RefreshSucceeded \/ RefreshFailed
  \/ TokenTimer
  \/ \E ms \in Steps : ClockTicks(ms)

Spec == Init /\ [][Next]_vars

-----------------------------------------------------------------------------
(* Properties.                                                              *)

\* Every variable stays in the range the code gives it, and a timer is only set
\* for a token that is there.
TypeOK ==
  /\ now \in Nat /\ offset \in Int
  /\ request \in Requests
  /\ stored \in BOOLEAN /\ known \in BOOLEAN /\ timer \in BOOLEAN /\ fired \in BOOLEAN
  /\ exp \in Int /\ timeSkew \in Int /\ due \in Int /\ trip \in Int
  /\ timer => (stored /\ known)

\* What the token really has left, in ms.
Left == exp * Second - (now + offset)

\* A token that isTokenExpired(m) lets pass lives for m seconds more, but for
\* the second that is lost in rounding and half the time its request took.
ValidLongEnough ==
  \A m \in Validities :
    (stored /\ ~IsTokenExpired(m)) => 2 * Left > 2 * (m - 1) * Second - trip

\* A token that it does not let pass, once the skew is known, has little more
\* than m seconds left: refreshes are not made long before they are needed.
RefreshedWhenNeeded ==
  \A m \in Validities :
    (stored /\ known /\ IsTokenExpired(m)) => 2 * Left < 2 * (m + 1) * Second + trip

\* onTokenExpired is not called long before the token expires, and its timer is not
\* set for a time long after that: the expiry it means is the one of the server.
NotCalledEarly == (fired /\ known) => 2 * Left < 2 * Second + trip

NotSetLate     == timer => 2 * (due + offset - exp * Second) < 2 * Second + trip
CalledOnTime   == NotCalledEarly /\ NotSetLate
=============================================================================
