-------------------------- MODULE TokenClock_proofs --------------------------
(***************************************************************************)
(* Theorems about TokenClock, for every lifespan, skew of the clocks and   *)
(* pace of events.  All follow from one bound on the error of the skew.    *)
(***************************************************************************)
EXTENDS TokenClock, TLAPS

\* What the rounding of both clocks does.
LEMMA Rounding ==
  ASSUME NEW a \in Int
  PROVE  /\ Floor(a) \in Int /\ Ceil(a) \in Int
         /\ Floor(a) * Second <= a /\ a < Floor(a) * Second + Second
         /\ a <= Ceil(a) * Second /\ Ceil(a) * Second < a + Second
BY DEF Floor, Ceil, Second

\* The middle of two times is rounded to a second of its own.
LEMMA SkewType ==
  ASSUME NEW s \in Int, NEW i \in Int, now \in Int
  PROVE  /\ Skew(s, i) \in Int
         /\ 2 * (Skew(s, i) + i) * Second <= s + now
         /\ s + now < 2 * (Skew(s, i) + i) * Second + 2 * Second
BY DEF Skew, Second

\* A delay that fits is not changed.
LEMMA DelayFits == ASSUME NEW ms \in Int, ms < TimerRange PROVE Delay(ms) = ms
BY DEF Delay

\* The values stay numbers and flags.
LEMMA TypeStep == TypeOK /\ [Next]_vars => TypeOK'
<1> SUFFICES ASSUME TypeOK, [Next]_vars
             PROVE  TypeOK'
  OBVIOUS
<1> USE ClockAssumption DEF TypeOK
<1>0. NoRequest \in Requests
  BY DEF NoRequest, Requests
<1>1. ASSUME UNCHANGED <<now, offset, token, timer, due>>,
             request' \in Requests, fired' \in BOOLEAN
      PROVE  TypeOK'
  <2>1. timer' => (stored' /\ known')
    BY <1>1, Zenon DEF token
  <2>2. stored' \in BOOLEAN /\ known' \in BOOLEAN /\ timer' \in BOOLEAN
    BY <1>1, Zenon DEF token
  <2> QED BY <1>1, <2>1, <2>2 DEF token
<1>2. CASE SendRefresh
  <2>1. request' \in Requests
    BY <1>2 DEF SendRefresh, Requests
  <2> QED BY <1>1, <1>2, <2>1 DEF SendRefresh
<1>3. CASE IssueToken
  <2>1. Floor(now + offset) \in Int
    <3>1. now + offset \in Int
      OBVIOUS
    <3> QED BY <3>1, Rounding
  <2>2. request' = [request EXCEPT !.at = "issued", !.iat = Floor(now + offset)]
    BY <1>3 DEF IssueToken
  <2>3. request' \in Requests
    <3> HIDE DEF TypeOK
    <3>1. request \in Requests
      BY DEF TypeOK
    <3> QED BY <2>1, <2>2, <3>1 DEF Requests
  <2> QED BY <1>1, <1>3, <2>3 DEF IssueToken
<1>4. CASE RefreshSucceeded
  <2> DEFINE skew == Skew(request.sent, request.iat)
  <2>1. request.sent \in Int /\ request.iat \in Int
    BY DEF Requests
  <2>2. skew \in Int
    <3>1. now \in Int
      OBVIOUS
    <3> HIDE DEF TypeOK
    <3> QED BY <2>1, <3>1, SkewType
  <2>3. /\ exp' = request.iat + Lifespan /\ timeSkew' = skew /\ trip' = now - request.sent
        /\ now' = now /\ offset' = offset /\ request' = NoRequest
    BY <1>4 DEF RefreshSucceeded, SetToken
  <2>4. exp' \in Int /\ timeSkew' \in Int /\ trip' \in Int
    <3> HIDE DEF skew
    <3> QED BY <2>1, <2>2, <2>3
  <2>5. stored' = TRUE /\ known' = TRUE /\ timer' \in BOOLEAN /\ fired' \in BOOLEAN
    BY <1>4 DEF RefreshSucceeded, SetToken
  <2>6. due' \in Int
    <3>1. ExpiresIn(exp', timeSkew') \in Int
      BY <2>4 DEF ExpiresIn, Second
    <3>2. Delay(ExpiresIn(exp', timeSkew')) \in Int
      BY <3>1 DEF Delay
    <3>3. due' \in {now + Delay(ExpiresIn(exp', timeSkew')), due}
      BY <1>4 DEF RefreshSucceeded, SetToken
    <3> QED BY <3>2, <3>3
  <2> QED BY <1>0, <2>3, <2>4, <2>5, <2>6
<1>5. CASE RefreshFailed
  <2>1. stored' \in BOOLEAN /\ timer' \in BOOLEAN /\ (timer' => (stored' /\ known'))
    <3>1. known' = known
      BY <1>5 DEF RefreshFailed
    <3>2. CASE stored' = FALSE /\ timer' = FALSE
      BY <3>2
    <3>3. CASE stored' = stored /\ timer' = timer
      BY <3>1, <3>3, Zenon
    <3> QED BY <1>5, <3>2, <3>3 DEF RefreshFailed
  <2> QED BY <1>0, <1>5, <2>1 DEF RefreshFailed
<1>6. CASE TokenTimer
  <2>1. timer' = FALSE /\ fired' = TRUE
    BY <1>6 DEF TokenTimer
  <2> QED BY <1>6, <2>1 DEF TokenTimer, token
<1>7. ASSUME NEW ms \in Steps, ClockTicks(ms) PROVE TypeOK'
  <2>1. now' \in Nat /\ fired' \in BOOLEAN
    <3>1. now' = now + ms /\ fired' = FALSE
      BY <1>7 DEF ClockTicks
    <3>2. ms \in Nat /\ now \in Nat
      OBVIOUS
    <3>3. now' \in Nat
      <4> HIDE DEF TypeOK
      <4> QED BY <3>1, <3>2
    <3> QED BY <3>1, <3>3
  <2>2. UNCHANGED <<offset, request, token, timer, due>>
    BY <1>7 DEF ClockTicks
  <2>3. timer' => (stored' /\ known')
    BY <2>2, Zenon DEF token
  <2>4. stored' \in BOOLEAN /\ known' \in BOOLEAN /\ timer' \in BOOLEAN
    BY <2>2, Zenon DEF token
  <2> QED BY <2>1, <2>2, <2>3, <2>4 DEF token
<1>8. CASE UNCHANGED vars
  BY <1>1, <1>8 DEF vars, token
<1> QED BY <1>2, <1>3, <1>4, <1>5, <1>6, <1>7, <1>8 DEF Next

\* The clocks and the token stay in the range the code gives them.
THEOREM TypeCorrect == Spec => []TypeOK
<1>1. Init => TypeOK
  <2> SUFFICES ASSUME Init PROVE TypeOK
    OBVIOUS
  <2>1. offset \in Int /\ Floor(offset) \in Int
    BY ClockAssumption, Rounding DEF Init
  <2>2. exp \in Int /\ request \in Requests
    BY <2>1, ClockAssumption DEF Init, NoRequest, Requests
  <2>3. stored = TRUE /\ known = FALSE /\ timer = FALSE /\ fired = FALSE
    BY DEF Init
  <2>4. now \in Nat /\ timeSkew \in Int /\ due \in Int /\ trip \in Int
    BY DEF Init
  <2>5. stored \in BOOLEAN /\ known \in BOOLEAN /\ timer \in BOOLEAN /\ fired \in BOOLEAN
    BY <2>3
  <2>6. timer => (stored /\ known)
    BY <2>3
  <2> QED BY <2>1, <2>2, <2>4, <2>5, <2>6, Zenon DEF TypeOK
<1> QED BY <1>1, TypeStep, PTL DEF Spec

-----------------------------------------------------------------------------
\* The time of issue lies between the request and its answer.
IssuedInTime ==
  /\ request.at # "none" => request.sent <= now
  /\ request.at = "issued" =>
       /\ request.sent + offset < request.iat * Second + Second
       /\ request.iat * Second <= now + offset

\* timeSkew is right to a second and half the time of the request.
SkewEstimate ==
  known => /\ 2 * (timeSkew * Second + offset) < 2 * Second + trip
           /\ 2 * (timeSkew * Second + offset) > -(2 * Second + trip)

EstimateInv == IssuedInTime /\ SkewEstimate

\* No step widens the error of the skew.
LEMMA EstimateStep == TypeOK /\ EstimateInv /\ [Next]_vars => EstimateInv'
<1> SUFFICES ASSUME TypeOK, EstimateInv, [Next]_vars
             PROVE  EstimateInv'
  OBVIOUS
<1> USE DEF EstimateInv, IssuedInTime, SkewEstimate
<1>1. CASE SendRefresh
  BY <1>1 DEF SendRefresh, token, TypeOK
<1>2. CASE IssueToken
  <2>1. /\ request'.iat = Floor(now + offset) /\ request'.sent = request.sent
        /\ request.sent <= now /\ UNCHANGED <<now, offset, token>>
    BY <1>2 DEF IssueToken, TypeOK
  <2>2. /\ Floor(now + offset) \in Int
        /\ Floor(now + offset) * Second <= now + offset
        /\ now + offset < Floor(now + offset) * Second + Second
    <3>1. now + offset \in Int
      BY DEF TypeOK
    <3> QED BY <3>1, Rounding
  <2> QED BY <2>1, <2>2 DEF TypeOK, Requests, Second, token
<1>3. CASE RefreshSucceeded
  <2> DEFINE s == request.sent
             i == request.iat
  <2>1. /\ timeSkew' = Skew(s, i) /\ trip' = now - s /\ offset' = offset
        /\ request' = NoRequest
        /\ request.at = "issued"
    BY <1>3 DEF RefreshSucceeded, SetToken
  <2>2. s \in Int /\ i \in Int /\ now \in Int /\ offset \in Int
    BY DEF TypeOK, Requests
  <2>3. s + offset < i * 1000 + 1000 /\ i * 1000 <= now + offset
    BY <2>1 DEF Second
  <2>4. /\ Skew(s, i) \in Int
        /\ 2 * (Skew(s, i) + i) * 1000 <= s + now
        /\ s + now < 2 * (Skew(s, i) + i) * 1000 + 2 * 1000
    <3> HIDE DEF s, i, EstimateInv
    <3> QED BY <2>2, SkewType DEF Second
  <2>5. /\ 2 * (Skew(s, i) * 1000 + offset) < 2 * 1000 + (now - s)
        /\ 2 * (Skew(s, i) * 1000 + offset) > -(2 * 1000 + (now - s))
    <3> HIDE DEF s, i
    <3> QED BY <2>2, <2>3, <2>4
  <2> QED BY <2>1, <2>5 DEF NoRequest, Second
<1>4. CASE RefreshFailed
  BY <1>4 DEF RefreshFailed, NoRequest
<1>5. CASE TokenTimer
  BY <1>5 DEF TokenTimer, token
<1>6. ASSUME NEW ms \in Steps, ClockTicks(ms) PROVE EstimateInv'
  <2>1. ms \in Nat /\ now \in Nat
    BY ClockAssumption DEF TypeOK
  <2>2. now' = now + ms /\ UNCHANGED <<offset, request, token>>
    BY <1>6 DEF ClockTicks
  <2>3. request.sent \in Int /\ request.iat \in Int /\ offset \in Int
    BY DEF TypeOK, Requests
  <2> QED BY <2>1, <2>2, <2>3 DEF token, Second
<1>7. CASE UNCHANGED vars
  BY <1>7 DEF vars
<1> QED BY <1>1, <1>2, <1>3, <1>4, <1>5, <1>6, <1>7 DEF Next

\* The error of the skew stays within its bound.
LEMMA EstimateHolds == Spec => []EstimateInv
<1>1. Init => EstimateInv
  BY DEF Init, EstimateInv, IssuedInTime, SkewEstimate, NoRequest
<1> QED BY <1>1, EstimateStep, TypeCorrect, PTL DEF Spec

\* A token that passes isTokenExpired(m) really has m seconds left, but for a
\* second and half the time of the request that brought it.
THEOREM ValidLongEnoughHolds == Spec => []ValidLongEnough
<1>1. TypeOK /\ EstimateInv => ValidLongEnough
  <2> SUFFICES ASSUME TypeOK, EstimateInv,
                      NEW m \in Validities, stored, ~IsTokenExpired(m)
               PROVE  2 * Left > 2 * (m - 1) * Second - trip
    BY DEF ValidLongEnough
  <2>1. m \in Int /\ now \in Int
    BY ClockAssumption DEF TypeOK
  <2>2. Ceil(now) \in Int /\ now <= Ceil(now) * Second
    BY <2>1, Rounding
  <2>3. known /\ exp - Ceil(now) + timeSkew - m >= 0
    BY <2>1, <2>2 DEF IsTokenExpired, TypeOK
  <2> QED BY <2>1, <2>2, <2>3 DEF EstimateInv, SkewEstimate, Left, Second, TypeOK
<1> QED BY <1>1, TypeCorrect, EstimateHolds, PTL

\* A token that does not pass has little more than m seconds left.
THEOREM RefreshedWhenNeededHolds == Spec => []RefreshedWhenNeeded
<1>1. TypeOK /\ EstimateInv => RefreshedWhenNeeded
  <2> SUFFICES ASSUME TypeOK, EstimateInv,
                      NEW m \in Validities, stored, known, IsTokenExpired(m)
               PROVE  2 * Left < 2 * (m + 1) * Second + trip
    BY DEF RefreshedWhenNeeded
  <2>1. m \in Int /\ now \in Int
    BY ClockAssumption DEF TypeOK
  <2>2. Ceil(now) \in Int /\ Ceil(now) * Second < now + Second
    BY <2>1, Rounding
  <2>3. exp - Ceil(now) + timeSkew - m < 0
    BY <2>1, <2>2 DEF IsTokenExpired, TypeOK
  <2> QED BY <2>1, <2>2, <2>3 DEF EstimateInv, SkewEstimate, Left, Second, TypeOK
<1> QED BY <1>1, TypeCorrect, EstimateHolds, PTL

-----------------------------------------------------------------------------
\* A delay of a whole lifespan fits into the 32 bits of setTimeout.
LifespanFits == Lifespan * Second < TimerRange

\* A timer is set for the very time the page takes for the expiry, and no
\* listener is called before it.
TimerInv ==
  /\ timer => due = (exp + timeSkew) * Second
  /\ fired => (exp + timeSkew) * Second <= now

\* No step moves the timer away from the expiry it was set for.
LEMMA TimerStep ==
  ASSUME LifespanFits
  PROVE  TypeOK /\ EstimateInv /\ TimerInv /\ [Next]_vars => TimerInv'
<1> SUFFICES ASSUME TypeOK, EstimateInv, TimerInv, [Next]_vars
             PROVE  TimerInv'
  OBVIOUS
<1> USE DEF TimerInv
<1>1. CASE RefreshSucceeded
  <2> DEFINE s == request.sent
             i == request.iat
             ms == ExpiresIn(exp', timeSkew')
  <2>1. /\ exp' = i + Lifespan /\ timeSkew' = Skew(s, i) /\ now' = now
    BY <1>1 DEF RefreshSucceeded, SetToken
  <2>1a. (fired' => ms <= 0) /\ (timer' => due' = now + Delay(ms))
    <3>1. (fired' => ms <= 0) /\ (timer' => ms > 0)
      BY <1>1 DEF RefreshSucceeded, SetToken
    <3>2. ms > 0 => due' = now + Delay(ms)
      BY <1>1 DEF RefreshSucceeded, SetToken
    <3> QED BY <3>1, <3>2
  <2>2. s \in Int /\ i \in Int /\ now \in Int /\ s <= now /\ Lifespan \in Nat /\ TimerRange \in Nat
    BY <1>1, ClockAssumption DEF RefreshSucceeded, TypeOK, Requests, EstimateInv, IssuedInTime
  <2>3. Skew(s, i) \in Int /\ 2 * (Skew(s, i) + i) * 1000 <= s + now
    <3> HIDE DEF s, i
    <3> QED BY <2>2, SkewType DEF Second
  <2>4. ms = (exp' + timeSkew') * 1000 - now
    BY DEF ExpiresIn, Second
  <2>5. ms \in Int /\ ms <= Lifespan * 1000 /\ exp' \in Int /\ timeSkew' \in Int
    <3> HIDE DEF s, i, ms
    <3> QED BY <2>1, <2>2, <2>3, <2>4
  <2>6. Delay(ms) = ms
    <3>1. ms < TimerRange
      BY <2>2, <2>5 DEF LifespanFits, Second
    <3> HIDE DEF ms
    <3> QED BY <2>5, <3>1, DelayFits
  <2>7. timer' => due' = (exp' + timeSkew') * 1000
    <3> HIDE DEF s, i, ms
    <3> QED BY <2>1, <2>1a, <2>2, <2>4, <2>5, <2>6
  <2>8. fired' => (exp' + timeSkew') * 1000 <= now'
    <3> HIDE DEF s, i, ms
    <3> QED BY <2>1, <2>1a, <2>2, <2>4, <2>5
  <2> QED BY <2>7, <2>8 DEF Second
<1>2. CASE TokenTimer
  BY <1>2 DEF TokenTimer, token, TypeOK
<1>3. CASE SendRefresh \/ IssueToken \/ (\E ms \in Steps : ClockTicks(ms))
  BY <1>3 DEF SendRefresh, IssueToken, ClockTicks, token
<1>4. CASE RefreshFailed
  BY <1>4 DEF RefreshFailed
<1>5. CASE UNCHANGED vars
  BY <1>5 DEF vars
<1> QED BY <1>1, <1>2, <1>3, <1>4, <1>5 DEF Next

\* The timer is always set for the expiry the page believes in.
LEMMA TimerHolds == ASSUME LifespanFits PROVE Spec => []TimerInv
<1>1. Init => TimerInv
  BY DEF Init, TimerInv
<1>2. TypeOK /\ EstimateInv /\ TimerInv /\ [Next]_vars => TimerInv'
  BY TimerStep
<1> QED BY <1>1, <1>2, TypeCorrect, EstimateHolds, PTL DEF Spec

\* If a lifespan fits into the 32 bits of setTimeout, onTokenExpired is called
\* neither long before nor for a time long after the token expires.
THEOREM TimerOnTime ==
  ASSUME LifespanFits PROVE Spec => []CalledOnTime
<1>1. TypeOK /\ EstimateInv /\ TimerInv => CalledOnTime
  BY DEF TypeOK, EstimateInv, SkewEstimate, TimerInv, CalledOnTime, NotCalledEarly, NotSetLate, Left, Second
<1> QED BY <1>1, TypeCorrect, EstimateHolds, TimerHolds, PTL
=============================================================================
