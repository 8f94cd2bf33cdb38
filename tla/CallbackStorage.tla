--------------------------- MODULE CallbackStorage ---------------------------
(***************************************************************************)
(* The storage of pending logins (keycloak.js: LocalStorage, CookieStorage *)
(* and their users createLoginUrl and parseCallback), shared by every tab  *)
(* of the application.  A login is started in one tab; the callback comes  *)
(* back to that tab, perhaps to a duplicate of it, perhaps never.          *)
(*                                                                         *)
(* Every tab has its own event loop, and nothing locks the storage: what   *)
(* one tab does with it in one task, another may come in between.  So the  *)
(* look-up of a callback and its removal are two steps (ReadCallback and   *)
(* RemoveCallback).  The loop of clearExpired is one, with the access next *)
(* to it: it removes what has expired and nobody stores again, so two      *)
(* loops at a time remove nothing else, and at most pass over more.        *)
(*                                                                         *)
(* A state parameter is a number, and localStorage.key(i) enumerates the   *)
(* stored ones in the order of these numbers: states are random, so a new  *)
(* one may come anywhere in the order.  The keys of other scripts are left *)
(* out: one that follows a removed key is passed over in the place of a    *)
(* state, so the loop passes over most without them.                       *)
(***************************************************************************)
EXTENDS Integers, FiniteSets

CONSTANTS
  States,      \* the state parameters that createUUID will make
  Tabs,
  Lifetime,    \* how long a pending login is kept (an hour)
  MaxTime      \* bound on the clock

ASSUME StorageAssumption ==
  /\ States \subseteq Nat
  /\ Lifetime \in Nat \ {0}
  /\ MaxTime \in Nat \ {0}

Absent == 0

VARIABLES
  kind,      \* what createCallbackStorage made: "cookies" if localStorage fails
  now,
  expires,   \* kc-callback-<state>: when it expires, Absent if not stored
  used,      \* the states createUUID has made
  deadline,  \* history: the expiry a state was stored with
  accepted,  \* history: how many callbacks with the state came through
  tab        \* where each tab is, and with which state

vars == <<kind, now, expires, used, deadline, accepted, tab>>

Home == [at |-> "app", state |-> Absent]
Away == [at : {"login", "callback", "found"}, state : States]

Init ==
  /\ kind \in {"local", "cookies"}
  /\ now = 1
  /\ expires = [s \in States |-> Absent]
  /\ used = {}
  /\ deadline = [s \in States |-> Absent]
  /\ accepted = [s \in States |-> 0]
  /\ tab = [t \in Tabs |-> Home]

-----------------------------------------------------------------------------
Stored(e) == {s \in States : e[s] # Absent}

\* Mutant of Expiry: the lifetime is added twice.
Expiry_Late == now + 2 * Lifetime

\* When what is stored now will expire.
Expiry == now + Lifetime

\* Mutant of ExpiredAt: also what expires at this moment.
ExpiredAt_OnTime(e, t) == {s \in Stored(e) : e[s] <= t}

ExpiredAt(e, t) == {s \in Stored(e) : e[s] < t}
Expired(e) == ExpiredAt(e, now)

\* The key the loop of clearExpired looks at just before it would look at s.
Before(e, s) == {p \in Stored(e) : p < s /\ \A q \in Stored(e) : q < s => q <= p}

\* Mutant of Removed: the loop ends with the first key it removes.
Removed_StopsAtFirst(e, gone) ==
  IF kind = "cookies"
  THEN gone = {}
  ELSE \A s \in Stored(e) : (s \in gone) <=> (s \in Expired(e) /\ \A q \in Expired(e) : s <= q)

(***************************************************************************)
(* clearExpired.  The index goes up also after removeItem, which moves the *)
(* next key to the index just left: the key after a removed one is not     *)
(* looked at.  So an expired key goes unless the one before it went.       *)
(***************************************************************************)
Removed(e, gone) ==
  IF kind = "cookies"
  THEN gone = {}   \* CookieStorage leaves expired cookies to the browser
  ELSE \A s \in Stored(e) : (s \in gone) <=> (s \in Expired(e) /\ Before(e, s) \cap gone = {})

Drop(e, gone) == [s \in States |-> IF s \in gone THEN Absent ELSE e[s]]

\* Mutant of Take: the callback stays in the storage until it expires.
Take_Keeps(e, s) == e

\* cs.get, once it has found the value.
Take(e, s) == Drop(e, {s})

-----------------------------------------------------------------------------
\* createLoginUrl ends with callbackStorage.add; login goes to the URL.
CreateLoginUrl(t, s) ==
  /\ tab[t].at = "app"
  /\ s \notin used
  /\ used' = used \cup {s}
  /\ \E gone \in SUBSET Expired(expires) :
       /\ Removed(expires, gone)
       /\ expires' = [Drop(expires, gone) EXCEPT ![s] = Expiry]
  /\ deadline' = [deadline EXCEPT ![s] = Expiry]
  /\ tab' = [tab EXCEPT ![t] = [at |-> "login", state |-> s]]
  /\ UNCHANGED <<kind, now, accepted>>

\* External: the server sends the browser back to the redirect URI.
ServerRedirects(t) ==
  /\ tab[t].at = "login"
  /\ tab' = [tab EXCEPT ![t].at = "callback"]
  /\ UNCHANGED <<kind, now, expires, used, deadline, accepted>>

\* External: the user turns back from the login screen; its state stays stored.
LoginAbandoned(t) ==
  /\ tab[t].at = "login"
  /\ tab' = [tab EXCEPT ![t] = Home]
  /\ UNCHANGED <<kind, now, expires, used, deadline, accepted>>

\* External: a tab is duplicated, or restored with the URL of another.
TabDuplicated(t, u) ==
  /\ tab[t].at # "app" /\ tab[u].at = "app"
  /\ tab' = [tab EXCEPT ![u] = [at |-> IF tab[t].at = "login" THEN "login" ELSE "callback",
                               state |-> tab[t].state]]
  /\ UNCHANGED <<kind, now, expires, used, deadline, accepted>>

\* processInit replaces the URL by one without the callback, found or not.
CleanedUp(t, rest) ==
  /\ \E gone \in SUBSET Expired(rest) :
       /\ Removed(rest, gone)
       /\ expires' = Drop(rest, gone)
  /\ tab' = [tab EXCEPT ![t] = Home]

\* parseCallback looks the state up.
ReadCallback(t) ==
  /\ tab[t].at = "callback"
  /\ IF expires[tab[t].state] # Absent
     THEN tab' = [tab EXCEPT ![t].at = "found"] /\ UNCHANGED expires
     ELSE CleanedUp(t, expires)
  /\ UNCHANGED <<kind, now, used, deadline, accepted>>

\* It removes what it has found, which another tab may have done by then.
RemoveCallback(t) ==
  /\ tab[t].at = "found"
  /\ accepted' = [accepted EXCEPT ![tab[t].state] = @ + 1]
  /\ CleanedUp(t, Take(expires, tab[t].state))
  /\ UNCHANGED <<kind, now, used, deadline>>

Tick ==
  /\ now < MaxTime
  /\ now' = now + 1
  /\ expires' = IF kind = "cookies" THEN Drop(expires, ExpiredAt(expires, now')) ELSE expires
  /\ UNCHANGED <<kind, used, deadline, accepted, tab>>

Next ==
  \/ \E t \in Tabs, s \in States : CreateLoginUrl(t, s)
  \/ \E t \in Tabs : \/ ServerRedirects(t) \/ LoginAbandoned(t)
                     \/ ReadCallback(t) \/ RemoveCallback(t)
  \/ \E t, u \in Tabs : TabDuplicated(t, u)
  \/ Tick

Spec == Init /\ [][Next]_vars

-----------------------------------------------------------------------------
(* Properties.                                                              *)

\* Every variable stays in the range the code gives it.
TypeOK ==
  /\ kind \in {"local", "cookies"}
  /\ now \in 1..MaxTime
  /\ expires \in [States -> 0..(MaxTime + Lifetime)]
  /\ used \subseteq States
  /\ deadline \in [States -> 0..(MaxTime + Lifetime)]
  /\ accepted \in [States -> Nat]
  /\ tab \in [Tabs -> {Home} \cup Away]

\* Once a tab has come through with a callback, no tab finds it any more, whatever is
\* stored, cleaned up or removed since.  (Tabs that had found it before are accepted
\* as well: the storage alone does not make a callback single-use.)
OneTimeUse == \A s \in States : accepted[s] > 0 => expires[s] = Absent

\* A login under way is not lost to other tabs that log in, come back or clean
\* up: it is in the storage until its own callback or its own expiry.
PendingKept ==
  \A s \in used : (accepted[s] = 0 /\ now <= deadline[s]) => expires[s] = deadline[s]

\* Cleaning up does not fall behind for good: though clearExpired skips keys, a run
\* of it that no other tab disturbs leaves no more than half of the expired ones.
Cleaned ==
  [][(kind = "local" /\ now' = now /\ expires' # expires) =>
       2 * Cardinality(Expired(expires)') <= Cardinality(Expired(expires))]_vars
=============================================================================
