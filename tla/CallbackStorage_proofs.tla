------------------------ MODULE CallbackStorage_proofs ------------------------
(***************************************************************************)
(* Theorems about CallbackStorage, for any number of tabs and logins and   *)
(* for both kinds of storage.                                              *)
(***************************************************************************)
EXTENDS CallbackStorage, FiniteSetTheorems, TLAPS

\* What the loop of clearExpired drops had expired.
LEMMA DropType ==
  ASSUME NEW e \in [States -> 0..(MaxTime + Lifetime)], NEW gone
  PROVE  Drop(e, gone) \in [States -> 0..(MaxTime + Lifetime)]
<1>1. 0 \in 0..(MaxTime + Lifetime)
  BY StorageAssumption
<1> QED BY <1>1 DEF Drop, Absent

\* No step leaves the range.
LEMMA TypeStep == TypeOK /\ [Next]_vars => TypeOK'
<1> SUFFICES ASSUME TypeOK, [Next]_vars
             PROVE  TypeOK'
  OBVIOUS
<1> USE DEF TypeOK
<1> DEFINE Times == 0..(MaxTime + Lifetime)
<1>0. MaxTime \in Nat /\ Lifetime \in Nat /\ now \in Nat
  BY StorageAssumption
<1>1. ASSUME NEW t \in Tabs, NEW s \in States, CreateLoginUrl(t, s) PROVE TypeOK'
  <2>1. now + Lifetime \in Times
    <3>1. now <= MaxTime
      BY <1>0
    <3> QED BY <1>0, <3>1
  <2>2. expires' \in [States -> Times]
    <3>1. PICK gone : expires' = [Drop(expires, gone) EXCEPT ![s] = now + Lifetime]
      BY <1>1 DEF CreateLoginUrl, Expiry
    <3>2. Drop(expires, gone) \in [States -> Times]
      BY DropType
    <3> QED BY <2>1, <3>1, <3>2
  <2>3. deadline' \in [States -> Times] /\ used' \subseteq States
    BY <1>1, <2>1 DEF CreateLoginUrl, Expiry
  <2>4. tab' \in [Tabs -> {Home} \cup Away]
    BY <1>1 DEF CreateLoginUrl, Away
  <2> QED BY <1>1, <2>2, <2>3, <2>4 DEF CreateLoginUrl
<1>2. ASSUME NEW t \in Tabs, NEW rest \in [States -> Times], CleanedUp(t, rest)
      PROVE  expires' \in [States -> Times] /\ tab' \in [Tabs -> {Home} \cup Away]
  BY <1>2, DropType DEF CleanedUp
<1>8. ASSUME NEW t \in Tabs, ReadCallback(t) PROVE TypeOK'
  <2>1. tab[t] \in Away
    BY <1>8 DEF ReadCallback, Home
  <2>2. [tab[t] EXCEPT !.at = "found"] \in Away
    BY <2>1 DEF Away
  <2>3. expires' \in [States -> Times] /\ tab' \in [Tabs -> {Home} \cup Away]
    BY <1>2, <1>8, <2>2 DEF ReadCallback
  <2> QED BY <1>8, <2>3 DEF ReadCallback
<1>9. ASSUME NEW t \in Tabs, RemoveCallback(t) PROVE TypeOK'
  <2>1. tab[t].state \in States
    BY <1>9 DEF RemoveCallback, Home, Away
  <2>2. Take(expires, tab[t].state) \in [States -> Times]
    BY DropType DEF Take
  <2>3. expires' \in [States -> Times] /\ tab' \in [Tabs -> {Home} \cup Away]
    BY <1>2, <1>9, <2>2 DEF RemoveCallback
  <2>4. accepted' \in [States -> Nat]
    BY <1>9, <2>1 DEF RemoveCallback
  <2> QED BY <1>9, <2>3, <2>4 DEF RemoveCallback
<1>3. ASSUME NEW t \in Tabs, ServerRedirects(t) PROVE TypeOK'
  <2>1. tab[t] \in Away
    BY <1>3 DEF ServerRedirects, Home
  <2>2. [tab[t] EXCEPT !.at = "callback"] \in Away
    BY <2>1 DEF Away
  <2> QED BY <1>3, <2>2 DEF ServerRedirects
<1>4. ASSUME NEW t \in Tabs, LoginAbandoned(t) PROVE TypeOK'
  BY <1>4 DEF LoginAbandoned
<1>5. ASSUME NEW t \in Tabs, NEW u \in Tabs, TabDuplicated(t, u) PROVE TypeOK'
  <2>1. tab[t] \in Away
    BY <1>5 DEF TabDuplicated, Home
  <2>2. [at |-> IF tab[t].at = "login" THEN "login" ELSE "callback", state |-> tab[t].state] \in Away
    BY <2>1 DEF Away
  <2> QED BY <1>5, <2>2 DEF TabDuplicated
<1>6. ASSUME Tick PROVE TypeOK'
  <2>1. now' \in 1..MaxTime
    BY <1>0, <1>6 DEF Tick
  <2>2. expires' \in [States -> Times]
    BY <1>6, DropType DEF Tick
  <2> QED BY <1>6, <2>1, <2>2 DEF Tick
<1>7. CASE UNCHANGED vars
  BY <1>7 DEF vars
<1> QED BY <1>1, <1>3, <1>4, <1>5, <1>6, <1>7, <1>8, <1>9 DEF Next

\* The storage and the tabs stay in the range the code gives them.
THEOREM TypeCorrect == Spec => []TypeOK
<1>1. Init => TypeOK
  BY StorageAssumption DEF Init, TypeOK, Home, Absent
<1> QED BY <1>1, TypeStep, PTL DEF Spec

-----------------------------------------------------------------------------
\* A state that was accepted is no longer stored and never stored again, and
\* one that was not is stored with its deadline until that has passed.
StorageInv ==
  /\ OneTimeUse
  /\ \A s \in States \ used : expires[s] = Absent /\ accepted[s] = 0
  /\ \A s \in States : expires[s] \in {Absent, deadline[s]}
  /\ \A t \in Tabs : tab[t].at # "app" => tab[t].state \in used
  /\ PendingKept

\* No login, callback or clean-up breaks the link of storage and deadlines.
LEMMA StorageStep == TypeOK /\ StorageInv /\ [Next]_vars => StorageInv'
<1> SUFFICES ASSUME TypeOK, StorageInv, [Next]_vars
             PROVE  StorageInv'
  OBVIOUS
<1> USE DEF StorageInv, PendingKept, OneTimeUse
<1>0. /\ MaxTime \in Nat /\ Lifetime \in Nat \ {0} /\ now \in Nat \ {0}
      /\ accepted \in [States -> Nat] /\ expires \in [States -> Nat]
      /\ deadline \in [States -> Nat] /\ used \subseteq States
  BY StorageAssumption DEF TypeOK
<1>1. ASSUME NEW t \in Tabs, NEW s \in States, CreateLoginUrl(t, s) PROVE StorageInv'
  <2>1. PICK gone \in SUBSET Expired(expires) :
               expires' = [Drop(expires, gone) EXCEPT ![s] = now + Lifetime]
    BY <1>1 DEF CreateLoginUrl, Expiry
  <2>2. /\ s \notin used /\ used' = used \cup {s} /\ accepted' = accepted /\ now' = now
        /\ deadline' = [deadline EXCEPT ![s] = now + Lifetime]
    BY <1>1 DEF CreateLoginUrl, Expiry
  <2>3. expires'[s] = now + Lifetime /\ deadline'[s] = now + Lifetime
    BY <1>0, <2>1, <2>2 DEF Drop
  <2>4. \A x \in States \ {s} : /\ deadline'[x] = deadline[x]
                                /\ expires'[x] = IF x \in gone THEN Absent ELSE expires[x]
    BY <1>0, <2>1, <2>2 DEF Drop
  <2>5. \A x \in gone : expires[x] < now
    BY DEF Expired, ExpiredAt
  <2>6. now + Lifetime # Absent /\ expires[s] = Absent /\ accepted[s] = 0
    BY <1>0, <2>2 DEF Absent
  <2>7. \A x \in States \ {s} : (x \in used' /\ accepted'[x] = 0 /\ now' <= deadline'[x])
                                  => expires'[x] = deadline'[x]
    BY <1>0, <2>2, <2>4, <2>5
  <2>8. \A x \in States : accepted'[x] > 0 => expires'[x] = Absent
    BY <1>0, <2>2, <2>4, <2>6
  <2>9. /\ \A x \in States \ used' : expires'[x] = Absent /\ accepted'[x] = 0
        /\ \A x \in States : expires'[x] \in {Absent, deadline'[x]}
    BY <1>0, <2>2, <2>3, <2>4
  <2>10. PendingKept'
    <3> SUFFICES ASSUME NEW x \in used', accepted'[x] = 0, now' <= deadline'[x]
                 PROVE  expires'[x] = deadline'[x]
      OBVIOUS
    <3>1. CASE x = s
      BY <2>3, <3>1
    <3>2. CASE x # s
      BY <1>0, <2>2, <2>7, <3>2
    <3> QED BY <3>1, <3>2
  <2>11. \A u \in Tabs : tab'[u].at # "app" => tab'[u].state \in used'
    BY <1>1, <2>2 DEF CreateLoginUrl, TypeOK
  <2> QED BY <2>8, <2>9, <2>10, <2>11
<1>2. ASSUME NEW t \in Tabs, RemoveCallback(t) PROVE StorageInv'
  <2> DEFINE s == tab[t].state
             rest == Take(expires, s)
  <2>1. s \in States /\ s \in used
    BY <1>2 DEF RemoveCallback, TypeOK, Home, Away
  <2>2. PICK gone \in SUBSET Expired(rest) : expires' = Drop(rest, gone)
    BY <1>2 DEF RemoveCallback, CleanedUp
  <2>3. \A x \in States : rest[x] = IF x = s THEN Absent ELSE expires[x]
    BY DEF Take, Drop
  <2>4. expires'[s] = Absent
    BY <2>1, <2>2, <2>3 DEF Drop
  <2>5. \A x \in States \ {s} : expires'[x] = IF x \in gone THEN Absent ELSE expires[x]
    BY <2>2, <2>3 DEF Drop
  <2>6. \A x \in gone : x = s \/ expires[x] < now
    BY <2>3 DEF Expired, ExpiredAt, Stored
  <2>7. UNCHANGED <<now, used, deadline>> /\ accepted' = [accepted EXCEPT ![s] = @ + 1]
    BY <1>2 DEF RemoveCallback
  <2>8. accepted'[s] = accepted[s] + 1 /\ \A x \in States \ {s} : accepted'[x] = accepted[x]
    BY <1>0, <2>1, <2>7
  <2>9. OneTimeUse'
    BY <2>4, <2>5, <2>8
  <2>10. /\ \A x \in States \ used' : expires'[x] = Absent /\ accepted'[x] = 0
         /\ \A x \in States : expires'[x] \in {Absent, deadline'[x]}
    BY <2>1, <2>4, <2>5, <2>7, <2>8
  <2>11. PendingKept'
    <3> SUFFICES ASSUME NEW x \in used', accepted'[x] = 0, now' <= deadline'[x]
                 PROVE  expires'[x] = deadline'[x]
      OBVIOUS
    <3>1. x # s /\ x \in States
      BY <1>0, <2>1, <2>7, <2>8
    <3>2. x \notin gone
      BY <1>0, <2>6, <2>7, <2>8, <3>1
    <3> QED BY <2>5, <2>7, <2>8, <3>1, <3>2
  <2>12. \A u \in Tabs : tab'[u].at # "app" => tab'[u].state \in used'
    BY <1>2, <2>7 DEF RemoveCallback, CleanedUp, Home, TypeOK
  <2> QED BY <2>9, <2>10, <2>11, <2>12
<1>5. ASSUME NEW t \in Tabs, ReadCallback(t) PROVE StorageInv'
  <2>1. UNCHANGED <<now, used, deadline, accepted>>
    BY <1>5 DEF ReadCallback
  <2>2. \A x \in States : expires'[x] = expires[x] \/ (expires'[x] = Absent /\ expires[x] < now)
    <3>1. CASE expires' = expires
      BY <3>1
    <3>2. CASE CleanedUp(t, expires)
      BY <3>2 DEF CleanedUp, Drop, Expired, ExpiredAt
    <3> QED BY <1>5, <3>1, <3>2 DEF ReadCallback
  <2>3. \A u \in Tabs : tab'[u].at # "app" => tab'[u].state \in used'
    <3>1. tab' \in {[tab EXCEPT ![t].at = "found"], [tab EXCEPT ![t] = Home]} /\ tab[t].at # "app"
      BY <1>5 DEF ReadCallback, CleanedUp
    <3>2. \A u \in Tabs : /\ u # t => tab'[u] = tab[u]
                          /\ tab'[u].at = "app" \/ tab'[u].state = tab[u].state
      BY <3>1 DEF Home, Away, TypeOK
    <3> QED BY <2>1, <3>1, <3>2
  <2>4. PendingKept'
    <3> SUFFICES ASSUME NEW x \in used', accepted'[x] = 0, now' <= deadline'[x]
                 PROVE  expires'[x] = deadline'[x]
      OBVIOUS
    <3> QED BY <1>0, <2>1, <2>2
  <2>5. OneTimeUse'
    BY <2>1, <2>2
  <2>6. /\ \A x \in States \ used' : expires'[x] = Absent /\ accepted'[x] = 0
        /\ \A x \in States : expires'[x] \in {Absent, deadline'[x]}
    BY <2>1, <2>2
  <2> QED BY <2>3, <2>4, <2>5, <2>6
<1>3. ASSUME Tick PROVE StorageInv'
  <2>1. /\ now' = now + 1 /\ UNCHANGED <<used, deadline, accepted>>
        /\ expires' = IF kind = "cookies" THEN Drop(expires, ExpiredAt(expires, now')) ELSE expires
    BY <1>3 DEF Tick
  <2>2. \A x \in States : expires'[x] = expires[x]
                          \/ (expires'[x] = Absent /\ expires[x] < now + 1)
    BY <1>0, <2>1 DEF Drop, ExpiredAt, Absent
  <2>3. tab' = tab
    BY <1>3 DEF Tick
  <2> QED BY <1>0, <2>1, <2>2, <2>3
<1>4. ASSUME \/ \E t \in Tabs : ServerRedirects(t) \/ LoginAbandoned(t)
             \/ \E t, u \in Tabs : TabDuplicated(t, u)
             \/ UNCHANGED vars
      PROVE  StorageInv'
  <2>1. UNCHANGED <<now, expires, used, deadline, accepted>>
    BY <1>4 DEF ServerRedirects, LoginAbandoned, TabDuplicated, vars
  <2>2. \A u \in Tabs : tab'[u].at # "app" => tab'[u].state \in used'
    <3>1. ASSUME NEW t \in Tabs, ServerRedirects(t)
          PROVE  \A u \in Tabs : tab'[u].at # "app" => tab'[u].state \in used
      <4>1. /\ tab[t].at # "app" /\ tab'[t].state = tab[t].state
            /\ \A u \in Tabs \ {t} : tab'[u] = tab[u]
        BY <3>1 DEF ServerRedirects, TypeOK, Home, Away
      <4> QED BY <4>1
    <3>2. ASSUME NEW t \in Tabs, LoginAbandoned(t)
          PROVE  \A u \in Tabs : tab'[u].at # "app" => tab'[u].state \in used
      BY <3>2 DEF LoginAbandoned, TypeOK, Home
    <3>3. ASSUME NEW t \in Tabs, NEW u \in Tabs, TabDuplicated(t, u)
          PROVE  \A v \in Tabs : tab'[v].at # "app" => tab'[v].state \in used
      <4>1. tab[t].state \in used /\ tab'[u].state = tab[t].state
        BY <3>3 DEF TabDuplicated, TypeOK
      <4>2. \A v \in Tabs \ {u} : tab'[v] = tab[v]
        BY <3>3 DEF TabDuplicated, TypeOK
      <4> QED BY <4>1, <4>2
    <3>4. CASE UNCHANGED vars
      BY <3>4 DEF vars
    <3> QED BY <1>4, <2>1, <3>1, <3>2, <3>3, <3>4
  <2> QED BY <2>1, <2>2
<1> QED BY <1>1, <1>2, <1>3, <1>4, <1>5 DEF Next

\* The link of storage and deadlines always holds.
LEMMA StorageHolds == Spec => []StorageInv
<1>1. Init => StorageInv
  BY DEF Init, StorageInv, PendingKept, OneTimeUse, Absent, Home
<1> QED BY <1>1, StorageStep, TypeCorrect, PTL DEF Spec

\* What one tab has come through with, no tab finds any more, however many come back
\* with the same callback (keycloak.js:1647-1650).
THEOREM OneTimeUseHolds == Spec => []OneTimeUse
<1>1. StorageInv => OneTimeUse
  BY DEF StorageInv
<1> QED BY <1>1, StorageHolds, PTL

\* No tab loses the pending login of another before it expires.
THEOREM PendingKeptHolds == Spec => []PendingKept
<1>1. StorageInv => PendingKept
  BY DEF StorageInv
<1> QED BY <1>1, StorageHolds, PTL

-----------------------------------------------------------------------------
(* The loop of clearExpired.                                                *)

\* An expired key that the loop passes over stands right behind one that it removed, and
\* no other key does: at least half of the expired keys go.
LEMMA HalfGoes ==
  ASSUME NEW e \in [States -> Nat], IsFiniteSet(Stored(e)), kind = "local",
         NEW gone \in SUBSET Expired(e), Removed(e, gone)
  PROVE  /\ IsFiniteSet(Expired(e))
         /\ 2 * Cardinality(Expired(e) \ gone) <= Cardinality(Expired(e))
<1> DEFINE E    == Expired(e)
           left == E \ gone
<1>1. E \subseteq Stored(e) /\ Stored(e) \subseteq States /\ States \subseteq Nat
  BY StorageAssumption DEF Expired, ExpiredAt, Stored
<1>2. IsFiniteSet(E) /\ IsFiniteSet(gone)
  BY <1>1, FS_Subset
<1>3. \A s \in left : \E p \in gone : p \in Before(e, s)
  BY <1>1 DEF Removed
<1> DEFINE f == [s \in left |-> CHOOSE p \in gone : p \in Before(e, s)]
<1>4. \A s \in left : f[s] \in gone /\ f[s] \in Before(e, s)
  BY <1>3
<1>5. ASSUME NEW s \in left, NEW t \in left, NEW p, p \in Before(e, s), p \in Before(e, t), s < t
      PROVE  FALSE
  <2>1. s \in Stored(e) /\ s \in Nat /\ p \in Nat /\ p < s /\ t \in Nat
    BY <1>1, <1>5 DEF Before
  <2>2. s <= p
    BY <1>5, <2>1 DEF Before
  <2> QED BY <2>1, <2>2
<1>6. ASSUME NEW s \in left, NEW t \in left, f[s] = f[t] PROVE s = t
  <2>1. f[s] \in Before(e, s) /\ f[s] \in Before(e, t)
    BY <1>4, <1>6
  <2>2. ~(s < t) /\ ~(t < s)
    BY <1>5, <2>1
  <2>3. s \in Nat /\ t \in Nat
    BY <1>1
  <2> QED BY <2>2, <2>3
<1>7. f \in Injection(left, gone)
  <2>1. f \in [left -> gone]
    BY <1>4
  <2> HIDE DEF f, left
  <2> QED BY <1>6, <2>1 DEF Injection, IsInjective
<1>8. Cardinality(left) <= Cardinality(gone)
  <2> HIDE DEF f, left
  <2> QED BY <1>2, <1>7, FS_Injection
<1>9. Cardinality(left) = Cardinality(E) - Cardinality(gone)
  <2>1. E \cap gone = gone
    OBVIOUS
  <2> QED BY <1>2, <2>1, FS_Difference
<1>10. Cardinality(E) \in Nat /\ Cardinality(gone) \in Nat
  BY <1>2, FS_CardinalityType
<1> HIDE DEF E, left
<1>11. 2 * Cardinality(left) <= Cardinality(E)
  BY <1>8, <1>9, <1>10
<1> QED BY <1>2, <1>11 DEF E, left

\* Only finitely many logins have been started.
UsedFinite == IsFiniteSet(used)

LEMMA UsedFiniteHolds == Spec => []UsedFinite
<1>1. Init => UsedFinite
  BY FS_EmptySet DEF Init, UsedFinite
<1>2. UsedFinite /\ [Next]_vars => UsedFinite'
  <2> SUFFICES ASSUME UsedFinite, [Next]_vars PROVE UsedFinite'
    OBVIOUS
  <2>1. used' = used \/ \E s : used' = used \cup {s}
    BY DEF Next, CreateLoginUrl, ServerRedirects, LoginAbandoned, ReadCallback, RemoveCallback, TabDuplicated,
           Tick, vars
  <2> QED BY <2>1, FS_AddElement DEF UsedFinite
<1> QED BY <1>1, <1>2, PTL DEF Spec

HalfLeft == (kind = "local" /\ now' = now /\ expires' # expires) =>
              2 * Cardinality(Expired(expires)') <= Cardinality(Expired(expires))

\* Every login and every callback that changes the storage leaves no more than half of what had
\* expired, although the loop passes over keys.
THEOREM CleanedHolds == Spec => Cleaned
<1>1. TypeOK /\ StorageInv /\ UsedFinite /\ [Next]_vars => [HalfLeft]_vars
  <2> SUFFICES ASSUME TypeOK, StorageInv, UsedFinite, Next, kind = "local", now' = now,
                      expires' # expires
               PROVE  2 * Cardinality(Expired(expires)') <= Cardinality(Expired(expires))
    BY DEF HalfLeft
  <2>0. /\ expires \in [States -> Nat] /\ now \in Nat /\ Lifetime \in Nat
        /\ IsFiniteSet(Stored(expires))
    <3>1. MaxTime \in Nat /\ Lifetime \in Nat
      BY StorageAssumption
    <3>2. expires \in [States -> Nat] /\ now \in Nat
      BY <3>1 DEF TypeOK
    <3>3. Stored(expires) \subseteq used
      BY DEF Stored, StorageInv
    <3> QED BY <3>1, <3>2, <3>3, FS_Subset DEF UsedFinite
  <2>1. ASSUME NEW t \in Tabs, NEW s \in States, CreateLoginUrl(t, s)
        PROVE  2 * Cardinality(Expired(expires)') <= Cardinality(Expired(expires))
    <3>1. PICK gone \in SUBSET Expired(expires) :
                 /\ Removed(expires, gone)
                 /\ expires' = [Drop(expires, gone) EXCEPT ![s] = now + Lifetime]
      BY <2>1 DEF CreateLoginUrl, Expiry
    <3>2. s \notin used /\ expires[s] = Absent
      BY <2>1 DEF CreateLoginUrl, StorageInv
    <3>3. \A x \in States : expires'[x] = IF x = s THEN now + Lifetime
                                          ELSE IF x \in gone THEN Absent ELSE expires[x]
      BY <3>1 DEF Drop
    <3>4. Expired(expires)' = Expired(expires) \ gone
      BY <2>0, <3>2, <3>3 DEF Expired, ExpiredAt, Stored, Absent
    <3> QED BY <2>0, <3>1, <3>4, HalfGoes
  <2>2. ASSUME NEW t \in Tabs, NEW rest \in {expires, Take(expires, tab[t].state)}, CleanedUp(t, rest)
        PROVE  2 * Cardinality(Expired(expires)') <= Cardinality(Expired(expires))
    <3>1. PICK gone \in SUBSET Expired(rest) : Removed(rest, gone) /\ expires' = Drop(rest, gone)
      BY <2>2 DEF CleanedUp
    <3>2. rest \in [States -> Nat]
      BY <2>0 DEF Take, Drop, Absent
    <3>3. Stored(rest) \subseteq Stored(expires) /\ Expired(rest) \subseteq Expired(expires)
      BY <2>0 DEF Take, Drop, Stored, Expired, ExpiredAt
    <3>4. Expired(expires)' = Expired(rest) \ gone
      BY <2>0, <3>1, <3>2 DEF Drop, Expired, ExpiredAt, Stored
    <3>5. IsFiniteSet(Stored(rest)) /\ IsFiniteSet(Expired(expires))
      <4>1. Expired(expires) \subseteq Stored(expires)
        BY DEF Expired, ExpiredAt
      <4> QED BY <2>0, <3>3, <4>1, FS_Subset
    <3>6. 2 * Cardinality(Expired(expires)') <= Cardinality(Expired(rest)) /\ IsFiniteSet(Expired(rest))
      BY <3>1, <3>2, <3>4, <3>5, HalfGoes
    <3>7. Cardinality(Expired(rest)) <= Cardinality(Expired(expires))
      BY <3>3, <3>5, FS_Subset
    <3>8. /\ IsFiniteSet(Expired(expires)')
          /\ Cardinality(Expired(rest)) \in Nat /\ Cardinality(Expired(expires)) \in Nat
          /\ Cardinality(Expired(expires)') \in Nat
      <4>1. IsFiniteSet(Expired(expires)')
        BY <3>4, <3>6, FS_Subset
      <4> QED BY <3>5, <3>6, <4>1, FS_CardinalityType
    <3> QED BY <3>6, <3>7, <3>8
  <2>4. ASSUME NEW t \in Tabs, ReadCallback(t) \/ RemoveCallback(t)
        PROVE  2 * Cardinality(Expired(expires)') <= Cardinality(Expired(expires))
    BY <2>2, <2>4 DEF ReadCallback, RemoveCallback
  <2>3. ASSUME \/ \E t \in Tabs : ServerRedirects(t) \/ LoginAbandoned(t)
               \/ \E t, u \in Tabs : TabDuplicated(t, u)
               \/ Tick
        PROVE  FALSE
    BY <2>0, <2>3 DEF ServerRedirects, LoginAbandoned, TabDuplicated, Tick
  <2> QED BY <2>1, <2>3, <2>4 DEF Next
<1>2. [][HalfLeft]_vars => Cleaned
  BY DEF Cleaned, HalfLeft
<1> QED BY <1>1, <1>2, StorageHolds, UsedFiniteHolds, TypeCorrect, PTL DEF Spec
=============================================================================
