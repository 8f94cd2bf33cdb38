-------------------------- MODULE AdminRealm_proofs --------------------------
(***************************************************************************)
(* What holds of AdminRealm for any realms, access lists and number of     *)
(* requests: requests go to the realm they are meant for, pages show the   *)
(* realm they were opened in, the access list follows the realm, and a     *)
(* list page is never left waiting for nothing.                            *)
(***************************************************************************)
EXTENDS AdminRealm, TLAPS

Kinds == {"whoAmI", "list", "delete", "localize"}

\* What Abort leaves alone: all but the signal, and that too outside `kinds'.
LEMMA AbortFacts ==
  ASSUME requests \subseteq Request, NEW kinds
  PROVE  /\ Abort(kinds) \subseteq Request
         /\ \A q \in Abort(kinds) : \E p \in requests :
              /\ q.kind = p.kind /\ q.realm = p.realm /\ q.for = p.for /\ q.strayed = p.strayed
              /\ q.live => p.live /\ p.kind \notin kinds
         /\ \A p \in requests : p.kind \notin kinds => p \in Abort(kinds)
<1> SUFFICES ASSUME NEW p \in requests,
                    NEW q, q = IF p.kind \in kinds THEN [p EXCEPT !.live = FALSE] ELSE p
             PROVE  /\ q \in Request
                    /\ q.kind = p.kind /\ q.realm = p.realm /\ q.for = p.for /\ q.strayed = p.strayed
                    /\ q.live => p.live /\ p.kind \notin kinds
                    /\ p.kind \notin kinds => q = p
  BY DEF Abort
<1>1. p \in Request
  OBVIOUS
<1> QED BY <1>1 DEF Request

LEMMA CallFacts ==
  ASSUME NEW kind \in Kinds, NEW url \in Realms, NEW for \in Realms, NEW history \in BOOLEAN,
         NEW c, c = Call(kind, url, for, history)
  PROVE  /\ c \in Request
         /\ c.kind = kind /\ c.realm = url /\ c.for = for /\ c.live /\ c.strayed = history
         /\ \A on \in BOOLEAN :
              /\ [c EXCEPT !.live = on] \in Request
              /\ [c EXCEPT !.live = on].kind = kind /\ [c EXCEPT !.live = on].realm = url
              /\ [c EXCEPT !.live = on].for = for /\ [c EXCEPT !.live = on].live = on
              /\ [c EXCEPT !.live = on].strayed = history
  BY DEF Call, Request, Kinds

\* A token changes nothing about where a request goes.
LEMMA TokenFacts ==
  ASSUME NEW q \in Request, NEW b \in BOOLEAN,
         NEW c, c = [q EXCEPT !.stage = "sent", !.bearer = b]
  PROVE  /\ c \in Request
         /\ c.kind = q.kind /\ c.realm = q.realm /\ c.for = q.for
         /\ c.live = q.live /\ c.strayed = q.strayed
  BY DEF Request

-----------------------------------------------------------------------------
(* The invariant.                                                           *)

\* A live list request under a page that has not strayed asks for the realm shown.
ListOfRealm ==
  \A q \in requests : (q.kind = "list" /\ q.live /\ ~strayed) => q.realm = realm

RealmInv == TypeOK /\ RightRealm /\ PageOfRealm /\ ListOfRealm /\ ListUnderWay

\* What every navigation does to it.  Only an URL keeps the page under another realm.
LEMMA CommitStep ==
  ASSUME RealmInv, NEW r \in Realms, NEW p \in Routes, NEW byUrl \in BOOLEAN,
         Commit(r, p, byUrl), (p = "list" /\ ~byUrl) => r = realm,
         form' \in Form, existing' \subseteq Realms,
         UNCHANGED <<whoAmI, token, loginAsked>>
  PROVE  RealmInv'
<1> DEFINE held  == HeldAfter(whoAmI, r)
           to    == IF page = "error" THEN "error" ELSE p
           first == to = "list" /\ Allowed(access, to)
           last  == to = "list" /\ Allowed(held, to)
           kept  == Mounted /\ first /\ last
           stray == IF kept THEN strayed \/ (byUrl /\ r # realm) ELSE first /\ r # realmName
           old   == IF kept THEN requests ELSE Abort(OfPage)
           mid   == [Call("list", realmName, r, stray) EXCEPT !.live = last]
           new   == Call("list", r, r, FALSE)
           more  == IF first /\ ~Mounted THEN {mid} ELSE IF last /\ ~kept THEN {new} ELSE {}
<1>1. /\ requests' = old \cup more
      /\ data' = IF kept THEN data ELSE NoRealm
      /\ strayed' = (last /\ stray)
      /\ realm' = r /\ page' = to /\ access' = held /\ realmName' = r
  BY DEF Commit, Configure
<1>2. /\ held \in Realms \cup {NoRealm} /\ to \in Pages
      /\ first \in BOOLEAN /\ last \in BOOLEAN /\ kept \in BOOLEAN /\ stray \in BOOLEAN
  BY DEF RealmInv, TypeOK, HeldAfter, Pages, Routes, Allowed, Mounted
<1>3. Mounted' = last
  BY <1>1 DEF Mounted, Allowed
<1>4. /\ Abort(OfPage) \subseteq Request
      /\ \A q \in Abort(OfPage) : \E x \in requests :
           /\ q.kind = x.kind /\ q.realm = x.realm /\ q.for = x.for /\ q.strayed = x.strayed
           /\ q.live => x.live /\ x.kind \notin OfPage
  BY AbortFacts DEF RealmInv, TypeOK
<1>5. /\ mid \in Request /\ mid.kind = "list" /\ mid.realm = realmName /\ mid.for = r
      /\ mid.live = last /\ mid.strayed = stray
  <2>1. realmName \in Realms
    BY DEF RealmInv, TypeOK
  <2>2. \A on \in BOOLEAN, h \in BOOLEAN :
          LET c == [Call("list", realmName, r, h) EXCEPT !.live = on]
          IN /\ c \in Request /\ c.kind = "list" /\ c.realm = realmName /\ c.for = r
             /\ c.live = on /\ c.strayed = h
    BY <2>1, CallFacts DEF Kinds
  <2> QED BY <1>2, <2>2, Zenon
<1>6. /\ new \in Request /\ new.kind = "list" /\ new.realm = r /\ new.for = r
      /\ new.live /\ new.strayed = FALSE
  <2>1. \A h \in BOOLEAN :
          LET c == Call("list", r, r, h)
          IN /\ c \in Request /\ c.kind = "list" /\ c.realm = r /\ c.for = r
             /\ c.live /\ c.strayed = h
    BY CallFacts DEF Kinds
  <2> QED BY <2>1, Zenon
<1> HIDE DEF held, to, first, last, kept, stray, mid, new
<1>7. kept => first /\ last /\ Mounted
  BY DEF kept
<1>8. ~kept => stray = (first /\ r # realmName)
  BY DEF stray
<1>9. TypeOK'
  <2>1. requests' \subseteq Request
    BY <1>1, <1>4, <1>5, <1>6 DEF RealmInv, TypeOK
  <2> QED BY <2>1, <1>1, <1>2 DEF RealmInv, TypeOK
<1>10. RightRealm'
  <2> SUFFICES ASSUME NEW q \in requests', ~q.strayed PROVE q.realm = q.for
    BY DEF RightRealm
  <2>1. CASE q \in old
    BY <2>1, <1>4 DEF RealmInv, RightRealm
  <2>2. CASE q = mid /\ first /\ ~Mounted
    BY <2>2, <1>5, <1>7, <1>8
  <2>3. CASE q = new
    BY <2>3, <1>6
  <2> QED BY <1>1, <2>1, <2>2, <2>3
<1>11. (kept /\ ~strayed') => ~strayed /\ r = realm
  <2> SUFFICES ASSUME kept, ~strayed' PROVE ~strayed /\ r = realm
    OBVIOUS
  <2>1. stray = (strayed \/ (byUrl /\ r # realm))
    BY DEF stray
  <2>2. p = "list"
    BY DEF kept, first, to
  <2> QED BY <1>1, <1>7, <2>1, <2>2
<1>12. PageOfRealm'
  BY <1>1, <1>11 DEF RealmInv, PageOfRealm
<1>13. ListOfRealm'
  <2> SUFFICES ASSUME NEW q \in requests', q.kind = "list", q.live, ~strayed'
               PROVE  q.realm = r
    BY <1>1 DEF ListOfRealm
  <2>1. CASE kept /\ q \in old
    BY <2>1, <1>11 DEF RealmInv, ListOfRealm
  <2>2. CASE ~kept /\ q \in old
    BY <2>2, <1>4 DEF OfPage
  <2>3. CASE q = mid /\ first /\ ~Mounted
    BY <2>3, <1>1, <1>5, <1>7, <1>8
  <2>4. CASE q = new
    BY <2>4, <1>6
  <2> QED BY <1>1, <2>1, <2>2, <2>3, <2>4
<1>14. ListUnderWay'
  <2> SUFFICES ASSUME last, data' = NoRealm
               PROVE  \E q \in requests' : q.kind = "list" /\ q.live
    BY <1>3 DEF ListUnderWay
  <2>1. CASE kept
    BY <2>1, <1>1, <1>7 DEF RealmInv, ListUnderWay
  <2>2. CASE ~kept /\ first /\ ~Mounted
    BY <2>2, <1>1, <1>5
  <2>3. CASE ~kept /\ ~(first /\ ~Mounted)
    BY <2>3, <1>1, <1>6
  <2> QED BY <2>1, <2>2, <2>3
<1> QED BY <1>9, <1>10, <1>12, <1>13, <1>14 DEF RealmInv

\* A step that only drops requests, or that aborts or adds none of a list.
LEMMA QuietStep ==
  ASSUME RealmInv, TypeOK', UNCHANGED <<realm, data, strayed>>,
         Mounted' => Mounted,
         \A q \in requests' : q.strayed \/ q.realm = q.for,
         \A q \in requests' : (q.kind = "list" /\ q.live) =>
           \E x \in requests : x.kind = "list" /\ x.live /\ x.realm = q.realm,
         \A q \in requests : (q.kind = "list" /\ q.live) =>
           \E x \in requests' : x.kind = "list" /\ x.live
  PROVE  RealmInv'
<1>1. RightRealm'
  BY DEF RightRealm
<1>2. PageOfRealm'
  BY DEF RealmInv, PageOfRealm
<1>3. ListOfRealm'
  BY DEF RealmInv, ListOfRealm
<1>4. ListUnderWay'
  BY DEF RealmInv, ListUnderWay
<1> QED BY <1>1, <1>2, <1>3, <1>4 DEF RealmInv

LEMMA TokenStep ==
  ASSUME RealmInv, NEW q \in requests, NEW ok \in BOOLEAN, TokenArrives(q, ok)
  PROVE  RealmInv'
<1> DEFINE c == [q EXCEPT !.stage = "sent", !.bearer = token]
<1>1. requests' = (requests \ {q}) \cup {c}
  BY DEF TokenArrives, AskToken
<1>2. /\ c \in Request /\ c.kind = q.kind /\ c.realm = q.realm /\ c.for = q.for
      /\ c.live = q.live /\ c.strayed = q.strayed
  BY TokenFacts DEF RealmInv, TypeOK
<1> HIDE DEF c
<1>3. TypeOK'
  BY <1>1, <1>2 DEF RealmInv, TypeOK, TokenArrives, AskToken
<1>4. Mounted' => Mounted
  BY DEF TokenArrives, Mounted
<1> QED BY <1>1, <1>2, <1>3, <1>4, QuietStep DEF TokenArrives, RealmInv, RightRealm

LEMMA WhoAmIStep ==
  ASSUME RealmInv, NEW q \in requests, WhoAmIAnswered(q)
  PROVE  RealmInv'
<1> DEFINE held  == HeldAfter(whoAmI', realm)
           shown == page = "list" /\ Allowed(held, page)
           h     == (realmName # realm)
           new   == Call("list", realmName, realm, h)
<1>1. /\ access' = held /\ UNCHANGED <<realm, page, realmName, form, existing, token, loginAsked>>
      /\ requests' = IF Mounted = shown THEN requests \ {q}
                     ELSE (Abort(OfPage) \ {q}) \cup IF shown THEN {new} ELSE {}
      /\ data' = IF Mounted = shown THEN data ELSE NoRealm
      /\ strayed' = IF Mounted = shown THEN strayed ELSE shown /\ h
      /\ q.kind = "whoAmI" /\ whoAmI' \subseteq Realms
  BY DEF WhoAmIAnswered, RealmInv, TypeOK
<1>2. held \in Realms \cup {NoRealm} /\ shown \in BOOLEAN /\ h \in BOOLEAN
  BY DEF RealmInv, TypeOK, HeldAfter
<1>3. Mounted' = shown
  BY <1>1 DEF Mounted
<1>4. /\ Abort(OfPage) \subseteq Request
      /\ \A c \in Abort(OfPage) : \E x \in requests :
           /\ c.kind = x.kind /\ c.realm = x.realm /\ c.for = x.for /\ c.strayed = x.strayed
           /\ c.live => x.live /\ x.kind \notin OfPage
  BY AbortFacts DEF RealmInv, TypeOK
<1>5. /\ new \in Request /\ new.kind = "list" /\ new.realm = realmName /\ new.for = realm
      /\ new.live /\ new.strayed = h
  <2>1. realmName \in Realms /\ realm \in Realms
    BY DEF RealmInv, TypeOK
  <2>2. \A g \in BOOLEAN :
          LET c == Call("list", realmName, realm, g)
          IN /\ c \in Request /\ c.kind = "list" /\ c.realm = realmName /\ c.for = realm
             /\ c.live /\ c.strayed = g
    BY <2>1, CallFacts DEF Kinds
  <2> QED BY <1>2, <2>2, Zenon
<1>6. h = (realmName # realm)
  OBVIOUS
<1> HIDE DEF held, shown, h, new
<1>7. TypeOK'
  <2>1. requests' \subseteq Request
    BY <1>1, <1>4, <1>5 DEF RealmInv, TypeOK
  <2> QED BY <2>1, <1>1, <1>2 DEF RealmInv, TypeOK
<1>8. CASE Mounted = shown
  <2>1. \A c \in requests' : c.strayed \/ c.realm = c.for
    BY <1>1, <1>8 DEF RealmInv, RightRealm
  <2> QED BY <1>1, <1>3, <1>7, <1>8, <2>1, QuietStep
<1>9. CASE Mounted # shown
  <2>1. RightRealm'
    <3> SUFFICES ASSUME NEW c \in requests', ~c.strayed PROVE c.realm = c.for
      BY DEF RightRealm
    <3>1. c \in Abort(OfPage) \/ c = new
      BY <1>1, <1>9
    <3> QED BY <3>1, <1>4, <1>5, <1>6 DEF RealmInv, RightRealm
  <2>2. PageOfRealm'
    BY <1>1, <1>9 DEF PageOfRealm
  <2>3. ListOfRealm'
    <3> SUFFICES ASSUME NEW c \in requests', c.kind = "list", c.live, ~strayed'
                 PROVE  c.realm = realm
      BY <1>1 DEF ListOfRealm
    <3>1. c = new /\ shown
      BY <1>1, <1>4, <1>9 DEF OfPage
    <3> QED BY <3>1, <1>1, <1>5, <1>6, <1>9
  <2>4. ListUnderWay'
    BY <1>1, <1>3, <1>5, <1>9 DEF ListUnderWay
  <2> QED BY <1>7, <2>1, <2>2, <2>3, <2>4 DEF RealmInv
<1> QED BY <1>2, <1>8, <1>9

LEMMA ListStep ==
  ASSUME RealmInv, NEW q \in requests, ListAnswered(q)
  PROVE  RealmInv'
<1>1. /\ q.kind = "list" /\ requests' = requests \ {q}
      /\ data' = IF q.live THEN q.realm ELSE data
      /\ UNCHANGED <<realm, page, realmName, whoAmI, access, form, existing, token, loginAsked, strayed>>
  BY DEF ListAnswered
<1>2. q.realm \in Realms
  BY DEF RealmInv, TypeOK, Request
<1>3. TypeOK'
  BY <1>1, <1>2 DEF RealmInv, TypeOK
<1>4. Mounted' = Mounted
  BY <1>1 DEF Mounted
<1>5. CASE q.live
  <2>1. RightRealm'
    BY <1>1 DEF RealmInv, RightRealm
  <2>2. PageOfRealm'
    BY <1>1, <1>5 DEF RealmInv, PageOfRealm, ListOfRealm
  <2>3. ListOfRealm'
    BY <1>1 DEF RealmInv, ListOfRealm
  <2>4. ListUnderWay'
    BY <1>1, <1>2, <1>5, RealmAssumption DEF ListUnderWay
  <2> QED BY <1>3, <2>1, <2>2, <2>3, <2>4 DEF RealmInv
<1>6. CASE ~q.live
  <2>1. \A c \in requests' : c.strayed \/ c.realm = c.for
    BY <1>1 DEF RealmInv, RightRealm
  <2> QED BY <1>1, <1>3, <1>4, <1>6, <2>1, QuietStep
<1> QED BY <1>5, <1>6

LEMMA FailedStep ==
  ASSUME RealmInv, NEW q \in requests, RequestFailed(q)
  PROVE  RealmInv'
<1> DEFINE loud == q.live /\ q.kind \in {"whoAmI", "list"}
<1>1. /\ requests' = IF loud THEN Abort(OfPage) \ {q} ELSE requests \ {q}
      /\ loud => /\ page' = IF q.kind = "list" THEN "error" ELSE "gone"
                 /\ data' = NoRealm /\ strayed' = FALSE
      /\ ~loud => UNCHANGED <<page, data, strayed>>
      /\ UNCHANGED <<realm, realmName, whoAmI, access, form, existing, token, loginAsked>>
  BY DEF RequestFailed
<1>2. /\ Abort(OfPage) \subseteq Request
      /\ \A c \in Abort(OfPage) : \E x \in requests :
           /\ c.kind = x.kind /\ c.realm = x.realm /\ c.for = x.for /\ c.strayed = x.strayed
           /\ c.live => x.live /\ x.kind \notin OfPage
  BY AbortFacts DEF RealmInv, TypeOK
<1>3. TypeOK'
  BY <1>1, <1>2 DEF RealmInv, TypeOK, Pages
<1>4. CASE loud
  <2>1. RightRealm'
    BY <1>1, <1>2, <1>4 DEF RealmInv, RightRealm
  <2>2. PageOfRealm'
    BY <1>1, <1>4 DEF PageOfRealm
  <2>3. ListOfRealm'
    BY <1>1, <1>2, <1>4 DEF ListOfRealm, OfPage
  <2>4. ListUnderWay'
    BY <1>1, <1>4 DEF ListUnderWay, Mounted
  <2> QED BY <1>3, <2>1, <2>2, <2>3, <2>4 DEF RealmInv
<1>5. CASE ~loud
  <2>1. \A c \in requests' : c.strayed \/ c.realm = c.for
    BY <1>1, <1>5 DEF RealmInv, RightRealm
  <2>2. Mounted' = Mounted
    BY <1>1, <1>5 DEF Mounted
  <2> QED BY <1>1, <1>3, <1>5, <2>1, <2>2, QuietStep
<1> QED BY <1>4, <1>5

LEMMA DeletedStep ==
  ASSUME RealmInv, NEW q \in requests, ItemDeleted(q)
  PROVE  RealmInv'
<1> DEFINE h   == (realmName # realm)
           new == Call("list", realmName, realm, h)
<1>1. /\ UNCHANGED <<realm, page, realmName, whoAmI, access, form, existing, token, loginAsked>>
      /\ q.live => /\ requests' = (Abort({"list"}) \ {q}) \cup {new}
                   /\ data' = NoRealm /\ strayed' = h
      /\ ~q.live => requests' = requests \ {q} /\ UNCHANGED <<data, strayed>>
      /\ q.kind = "delete"
  BY DEF ItemDeleted
<1>2. /\ Abort({"list"}) \subseteq Request
      /\ \A c \in Abort({"list"}) : \E x \in requests :
           /\ c.kind = x.kind /\ c.realm = x.realm /\ c.for = x.for /\ c.strayed = x.strayed
           /\ c.live => x.live /\ x.kind \notin {"list"}
  BY AbortFacts DEF RealmInv, TypeOK
<1>3. /\ new \in Request /\ new.kind = "list" /\ new.realm = realmName /\ new.for = realm
      /\ new.live /\ new.strayed = h
  <2>1. realmName \in Realms /\ realm \in Realms /\ h \in BOOLEAN
    BY DEF RealmInv, TypeOK
  <2>2. \A g \in BOOLEAN :
          LET c == Call("list", realmName, realm, g)
          IN /\ c \in Request /\ c.kind = "list" /\ c.realm = realmName /\ c.for = realm
             /\ c.live /\ c.strayed = g
    BY <2>1, CallFacts DEF Kinds
  <2> QED BY <2>1, <2>2, Zenon
<1>4. h = (realmName # realm) /\ h \in BOOLEAN
  OBVIOUS
<1> HIDE DEF h, new
<1>5. TypeOK'
  <2>1. requests' \subseteq Request
    BY <1>1, <1>2, <1>3 DEF RealmInv, TypeOK
  <2> QED BY <2>1, <1>1, <1>4 DEF RealmInv, TypeOK
<1>6. CASE q.live
  <2>1. RightRealm'
    <3> SUFFICES ASSUME NEW c \in requests', ~c.strayed PROVE c.realm = c.for
      BY DEF RightRealm
    <3>1. c \in Abort({"list"}) \/ c = new
      BY <1>1, <1>6
    <3> QED BY <3>1, <1>2, <1>3, <1>4 DEF RealmInv, RightRealm
  <2>2. PageOfRealm'
    BY <1>1, <1>6 DEF PageOfRealm
  <2>3. ListOfRealm'
    <3> SUFFICES ASSUME NEW c \in requests', c.kind = "list", c.live, ~strayed'
                 PROVE  c.realm = realm
      BY <1>1 DEF ListOfRealm
    <3>1. c = new
      BY <1>1, <1>2, <1>6
    <3>2. ~h
      BY <1>1, <1>6
    <3>3. realmName = realm
      BY <3>2, <1>4
    <3> QED BY <3>1, <3>3, <1>3
  <2>4. ListUnderWay'
    BY <1>1, <1>3, <1>6 DEF ListUnderWay
  <2> QED BY <1>5, <2>1, <2>2, <2>3, <2>4 DEF RealmInv
<1>7. CASE ~q.live
  <2>1. \A c \in requests' : c.strayed \/ c.realm = c.for
    BY <1>1, <1>7 DEF RealmInv, RightRealm
  <2>2. Mounted' = Mounted
    BY <1>1 DEF Mounted
  <2> QED BY <1>1, <1>5, <1>7, <2>1, <2>2, QuietStep
<1> QED BY <1>6, <1>7

\* The item of a page that has not strayed is deleted in its own realm.
LEMMA DeleteStep ==
  ASSUME RealmInv, DeleteItem
  PROVE  RealmInv'
<1> DEFINE h   == (strayed \/ realmName # realm)
           new == Call("delete", realmName, data, h)
<1>1. /\ UNCHANGED <<realm, page, realmName, whoAmI, access, data, form, existing, token, loginAsked, strayed>>
      /\ requests' = requests \cup {new} /\ data # NoRealm
  BY DEF DeleteItem
<1>2. /\ new \in Request /\ new.kind = "delete" /\ new.realm = realmName /\ new.for = data
      /\ new.strayed = h
  <2>1. realmName \in Realms /\ data \in Realms /\ h \in BOOLEAN
    BY <1>1 DEF RealmInv, TypeOK
  <2>2. \A g \in BOOLEAN :
          LET c == Call("delete", realmName, data, g)
          IN /\ c \in Request /\ c.kind = "delete" /\ c.realm = realmName /\ c.for = data
             /\ c.strayed = g
    BY <2>1, CallFacts DEF Kinds
  <2> QED BY <2>1, <2>2, Zenon
<1>3. h = (strayed \/ realmName # realm)
  OBVIOUS
<1> HIDE DEF h, new
<1>4. TypeOK'
  BY <1>1, <1>2 DEF RealmInv, TypeOK
<1>5. new.strayed \/ new.realm = new.for
  BY <1>1, <1>2, <1>3 DEF RealmInv, PageOfRealm
<1>6. \A c \in requests' : c.strayed \/ c.realm = c.for
  BY <1>1, <1>5 DEF RealmInv, RightRealm
<1>7. Mounted' = Mounted
  BY <1>1 DEF Mounted
<1> QED BY <1>1, <1>2, <1>4, <1>6, <1>7, QuietStep

LEMMA CreatedStep ==
  ASSUME RealmInv, RealmCreated
  PROVE  RealmInv'
<1> DEFINE new == Call("whoAmI", LoginRealm, LoginRealm, FALSE)
<1>1. /\ UNCHANGED <<realm, page, realmName, whoAmI, access, data, token, loginAsked, strayed>>
      /\ requests' = Abort({"whoAmI"}) \cup {new}
      /\ existing' = existing \cup {form.realm} /\ form' = [form EXCEPT !.step = "refreshing"]
  BY DEF RealmCreated
<1>2. /\ Abort({"whoAmI"}) \subseteq Request
      /\ \A c \in Abort({"whoAmI"}) : \E x \in requests :
           /\ c.kind = x.kind /\ c.realm = x.realm /\ c.for = x.for /\ c.strayed = x.strayed
           /\ c.live => x.live /\ x.kind \notin {"whoAmI"}
      /\ \A x \in requests : x.kind \notin {"whoAmI"} => x \in Abort({"whoAmI"})
  BY AbortFacts DEF RealmInv, TypeOK
<1>3. new \in Request /\ new.kind = "whoAmI" /\ new.realm = new.for
  <2>1. LoginRealm \in Realms
    BY RealmAssumption
  <2>2. \A g \in BOOLEAN :
          LET c == Call("whoAmI", LoginRealm, LoginRealm, g)
          IN c \in Request /\ c.kind = "whoAmI" /\ c.realm = c.for
    BY <2>1, CallFacts DEF Kinds
  <2> QED BY <2>2, Zenon
<1> HIDE DEF new
<1>4. TypeOK'
  BY <1>1, <1>2, <1>3 DEF RealmInv, TypeOK, Form
<1>5. \A c \in requests' : c.strayed \/ c.realm = c.for
  BY <1>1, <1>2, <1>3 DEF RealmInv, RightRealm
<1>6. Mounted' = Mounted
  BY <1>1 DEF Mounted
<1>7. \A c \in requests' : (c.kind = "list" /\ c.live) =>
        \E x \in requests : x.kind = "list" /\ x.live /\ x.realm = c.realm
  BY <1>1, <1>2, <1>3
<1>8. \A c \in requests : (c.kind = "list" /\ c.live) =>
        \E x \in requests' : x.kind = "list" /\ x.live
  BY <1>1, <1>2
<1> QED BY <1>1, <1>4, <1>5, <1>6, <1>7, <1>8, QuietStep

\* The steps that leave the requests alone, or touch those of LocalizationTab only.
LEMMA OtherStep ==
  ASSUME RealmInv,
         SessionEnds \/ AddKeyValue \/ SaveRealmFailed \/ (\E r \in Realms : SaveRealm(r)) \/
         (\E q \in requests : KeyValueAdded(q))
  PROVE  RealmInv'
<1>1. CASE SessionEnds \/ SaveRealmFailed \/ \E r \in Realms : SaveRealm(r)
  <2> DEFINE Same == UNCHANGED <<realm, page, realmName, whoAmI, access, data, requests, existing,
                                 loginAsked, strayed>>
  <2>3. form \in Form /\ token \in BOOLEAN /\ NoForm \in Form
    BY RealmAssumption DEF RealmInv, TypeOK, NoForm, Form
  <2>4. ASSUME NEW r \in Realms, SaveRealm(r) PROVE Same /\ form' \in Form /\ token' \in BOOLEAN
    <3>1. [step |-> "saving", realm |-> r] \in Form
      BY DEF Form
    <3> QED BY <2>3, <2>4, <3>1 DEF SaveRealm
  <2>5. SessionEnds => Same /\ form' \in Form /\ token' \in BOOLEAN
    BY <2>3 DEF SessionEnds
  <2>6. SaveRealmFailed => Same /\ form' \in Form /\ token' \in BOOLEAN
    BY <2>3 DEF SaveRealmFailed
  <2>1. Same /\ form' \in Form /\ token' \in BOOLEAN
    BY <1>1, <2>4, <2>5, <2>6
  <2>2. TypeOK' /\ Mounted' = Mounted
    BY <2>1 DEF RealmInv, TypeOK, Mounted
  <2> QED BY <2>1, <2>2, QuietStep DEF RealmInv, RightRealm
<1>2. CASE AddKeyValue
  <2> DEFINE new == Call("localize", realm, realm, FALSE)
  <2>1. /\ UNCHANGED <<realm, page, realmName, whoAmI, access, data, form, existing, token, loginAsked, strayed>>
        /\ requests' = requests \cup {new}
    BY <1>2 DEF AddKeyValue
  <2>2. new \in Request /\ new.kind = "localize" /\ new.realm = new.for
    <3>1. realm \in Realms
      BY DEF RealmInv, TypeOK
    <3>2. \A g \in BOOLEAN :
            LET c == Call("localize", realm, realm, g)
            IN c \in Request /\ c.kind = "localize" /\ c.realm = c.for
      BY <3>1, CallFacts DEF Kinds
    <3> QED BY <3>2, Zenon
  <2> HIDE DEF new
  <2>3. TypeOK' /\ Mounted' = Mounted
    BY <2>1, <2>2 DEF RealmInv, TypeOK, Mounted
  <2>4. \A c \in requests' : c.strayed \/ c.realm = c.for
    BY <2>1, <2>2 DEF RealmInv, RightRealm
  <2> QED BY <2>1, <2>2, <2>3, <2>4, QuietStep
<1>3. ASSUME NEW q \in requests, KeyValueAdded(q) PROVE RealmInv'
  <2>1. /\ UNCHANGED <<realm, page, whoAmI, access, data, form, existing, token, loginAsked, strayed>>
        /\ requests' = requests \ {q} /\ q.kind = "localize" /\ realmName' = q.for
    BY <1>3 DEF KeyValueAdded
  <2>2. q.for \in Realms
    BY DEF RealmInv, TypeOK, Request
  <2>3. TypeOK' /\ Mounted' = Mounted
    BY <2>1, <2>2 DEF RealmInv, TypeOK, Mounted
  <2>4. \A c \in requests' : c.strayed \/ c.realm = c.for
    BY <2>1 DEF RealmInv, RightRealm
  <2> QED BY <2>1, <2>3, <2>4, QuietStep
<1> QED BY <1>1, <1>2, <1>3

LEMMA NavigationStep ==
  ASSUME RealmInv, Navigation \/ RealmsRefreshed
  PROVE  RealmInv'
<1>1. realm \in Realms /\ form.realm \in Realms /\ form \in Form /\ existing \subseteq Realms
  BY DEF RealmInv, TypeOK, Form
<1>2. ASSUME NEW r \in Realms, SelectRealm(r) PROVE RealmInv'
  BY <1>1, <1>2, CommitStep DEF SelectRealm, Routes
<1>3. ASSUME NEW p \in Routes, OpenPage(p) PROVE RealmInv'
  BY <1>1, <1>3, CommitStep DEF OpenPage
<1>4. ASSUME NEW r \in Realms, NEW p \in Routes, OpenUrl(r, p) PROVE RealmInv'
  BY <1>1, <1>4, CommitStep DEF OpenUrl
<1>5. CASE RealmsRefreshed
  <2>1. NoForm \in Form
    BY RealmAssumption DEF NoForm, Form
  <2> QED BY <1>1, <1>5, <2>1, CommitStep DEF RealmsRefreshed, Routes
<1> QED BY <1>2, <1>3, <1>4, <1>5 DEF Navigation

LEMMA InitHolds == Init => RealmInv
<1> SUFFICES ASSUME Init PROVE RealmInv
  OBVIOUS
<1> DEFINE new == Call("whoAmI", LoginRealm, LoginRealm, FALSE)
<1>1. new \in Request /\ new.kind = "whoAmI" /\ new.realm = new.for
  <2>1. LoginRealm \in Realms
    BY RealmAssumption
  <2>2. \A g \in BOOLEAN :
          LET c == Call("whoAmI", LoginRealm, LoginRealm, g)
          IN c \in Request /\ c.kind = "whoAmI" /\ c.realm = c.for
    BY <2>1, CallFacts DEF Kinds
  <2> QED BY <2>2, Zenon
<1>2. requests = {new}
  BY DEF Init
<1> HIDE DEF new
<1>3. TypeOK
  BY <1>1, <1>2, RealmAssumption DEF Init, TypeOK, Routes, Pages, NoForm, Form
<1>4. RightRealm /\ ListOfRealm
  BY <1>1, <1>2 DEF RightRealm, ListOfRealm
<1>5. PageOfRealm
  BY DEF Init, PageOfRealm
<1>6. ~Mounted
  BY RealmAssumption DEF Init, Mounted, Allowed
<1> QED BY <1>3, <1>4, <1>5, <1>6 DEF RealmInv, ListUnderWay

LEMMA RealmStep == RealmInv /\ [Next]_vars => RealmInv'
<1> SUFFICES ASSUME RealmInv, [Next]_vars PROVE RealmInv'
  OBVIOUS
<1>1. CASE Navigation
  BY <1>1, NavigationStep
<1>2. CASE Provider
  BY <1>2, TokenStep DEF Provider
<1>3. CASE SessionEnds
  BY <1>3, OtherStep
<1>4. ASSUME NEW q \in requests, Arrives(q) PROVE RealmInv'
  BY <1>4, WhoAmIStep, ListStep, DeletedStep, OtherStep, FailedStep DEF Arrives
<1>5. CASE DeleteItem
  BY <1>5, DeleteStep
<1>6. CASE AddKeyValue
  BY <1>6, OtherStep
<1>7. CASE NewRealm
  <2>1. CASE \E r \in Realms : SaveRealm(r)
    BY <2>1, OtherStep
  <2>2. CASE RealmCreated
    BY <2>2, CreatedStep
  <2>3. CASE SaveRealmFailed
    BY <2>3, OtherStep
  <2>4. CASE RealmsRefreshed
    BY <2>4, NavigationStep
  <2> QED BY <1>7, <2>1, <2>2, <2>3, <2>4 DEF NewRealm
<1>8. CASE UNCHANGED vars
  BY <1>8 DEF vars, RealmInv, TypeOK, RightRealm, PageOfRealm, ListOfRealm, ListUnderWay, Mounted
<1> QED BY <1>1, <1>2, <1>3, <1>4, <1>5, <1>6, <1>7, <1>8 DEF Next

THEOREM RealmHolds == Spec => []RealmInv
<1> QED BY InitHolds, RealmStep, PTL DEF Spec

-----------------------------------------------------------------------------
(* The theorems.                                                            *)

\* Every variable keeps its type.
THEOREM TypeCorrect == Spec => []TypeOK
<1>1. RealmInv => TypeOK
  BY DEF RealmInv
<1> QED BY <1>1, RealmHolds, PTL

\* However navigation, tokens and answers interleave, a request that was made
\* on a page of its own realm goes to the realm it is meant for (agent.ts).
THEOREM RightRealmHolds == Spec => []RightRealm
<1>1. RealmInv => RightRealm
  BY DEF RealmInv
<1> QED BY <1>1, RealmHolds, PTL

\* No late answer shows the items of another realm, but on a page kept by an URL.
THEOREM PageOfRealmHolds == Spec => []PageOfRealm
<1>1. RealmInv => PageOfRealm
  BY DEF RealmInv
<1> QED BY <1>1, RealmHolds, PTL

\* No abort of a fetch leaves a page without a fetch that replaces it (useFetch).
THEOREM ListUnderWayHolds == Spec => []ListUnderWay
<1>1. RealmInv => ListUnderWay
  BY DEF RealmInv
<1> QED BY <1>1, RealmHolds, PTL

\* The effect of AccessContextProvider runs after every change of the realm and
\* of whoAmI, so the list held is that of the realm wherever there is one.
THEOREM AccessOfRealmHolds == Spec => []AccessOfRealm
<1>1. Init => AccessOfRealm
  BY DEF Init, AccessOfRealm
<1>2. AccessOfRealm /\ [Next]_vars => AccessOfRealm'
  <2> SUFFICES ASSUME AccessOfRealm, [Next]_vars PROVE AccessOfRealm'
    OBVIOUS
  <2>1. ASSUME NEW r, NEW p, NEW byUrl, Commit(r, p, byUrl), whoAmI' = whoAmI
        PROVE  AccessOfRealm'
    BY <2>1 DEF Commit, HeldAfter, AccessOfRealm
  <2>2. ASSUME NEW q \in requests, WhoAmIAnswered(q) PROVE AccessOfRealm'
    <3>1. access' = (IF realm \in whoAmI' THEN realm ELSE access) /\ realm' = realm
      BY <2>2 DEF WhoAmIAnswered, HeldAfter
    <3> QED BY <3>1 DEF AccessOfRealm
  <2>3. ASSUME UNCHANGED <<realm, access, whoAmI>> PROVE AccessOfRealm'
    BY <2>3 DEF AccessOfRealm
  <2>4. CASE Navigation
    BY <2>1, <2>4 DEF Navigation, SelectRealm, OpenPage, OpenUrl
  <2>5. CASE Provider \/ SessionEnds
    BY <2>3, <2>5 DEF Provider, TokenArrives, SessionEnds
  <2>6. ASSUME NEW q \in requests, Arrives(q) PROVE AccessOfRealm'
    BY <2>2, <2>3, <2>6 DEF Arrives, ListAnswered, ItemDeleted, KeyValueAdded, RequestFailed
  <2>7. CASE DeleteItem \/ AddKeyValue
    BY <2>3, <2>7 DEF DeleteItem, AddKeyValue
  <2>8. CASE NewRealm
    BY <2>1, <2>3, <2>8 DEF NewRealm, SaveRealm, RealmCreated, SaveRealmFailed, RealmsRefreshed
  <2>9. CASE UNCHANGED vars
    BY <2>3, <2>9 DEF vars
  <2> QED BY <2>4, <2>5, <2>6, <2>7, <2>8, <2>9 DEF Next
<1> QED BY <1>1, <1>2, PTL DEF Spec
=============================================================================
