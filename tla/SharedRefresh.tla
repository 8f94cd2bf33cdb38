---------------------------- MODULE SharedRefresh ----------------------------
(***************************************************************************)
(* What updateToken promises its callers, without saying how: a call is    *)
(* answered once; calls that need a refresh share the one that is under    *)
(* way and all get its outcome, in one step; "refreshed" is said only when *)
(* that very step stores a new token.                                       *)
(***************************************************************************)
EXTENDS Naturals

CONSTANT Calls

VARIABLES
  promise,   \* what each call was told
  waiting,   \* the calls that share the refresh under way
  inFlight,  \* a refresh is under way
  token      \* the current issue of the token, 0 = none

vars == <<promise, waiting, inFlight, token>>

Init ==
  /\ promise = [c \in Calls |-> "idle"]
  /\ waiting = {}
  /\ inFlight = FALSE
  /\ token = 1

Undecided(c) == promise[c] \in {"idle", "pending"} /\ c \notin waiting

\* The call is accepted; whether it needs a refresh is decided later.
Begin(c) ==
  /\ promise[c] = "idle"
  /\ promise' = [promise EXCEPT ![c] = "pending"]
  /\ UNCHANGED <<waiting, inFlight, token>>

Decide(c) ==
  /\ Undecided(c)
  /\ \/ token # 0 /\ promise' = [promise EXCEPT ![c] = "valid"]
     \/ promise' = [promise EXCEPT ![c] = "error"]
  /\ UNCHANGED <<waiting, inFlight, token>>

Join(c) ==
  /\ Undecided(c)
  /\ promise' = [promise EXCEPT ![c] = "pending"]
  /\ waiting' = waiting \cup {c}
  /\ inFlight' = TRUE
  /\ UNCHANGED token

Land ==
  /\ inFlight
  /\ inFlight' = FALSE
  /\ waiting' = {}
  /\ \E outcome \in {"refreshed", "error"} :
       /\ promise' = [c \in Calls |-> IF c \in waiting THEN outcome ELSE promise[c]]
       /\ \/ outcome = "refreshed" /\ token' \in Nat /\ token' > token
          \/ outcome = "error" /\ token' \in {token, 0}

Logout ==
  /\ token # 0
  /\ token' = 0
  /\ UNCHANGED <<promise, waiting, inFlight>>

Next ==
  \/ \E c \in Calls : Begin(c) \/ Decide(c) \/ Join(c)
  \/ Land
  \/ Logout

Spec == Init /\ [][Next]_vars

\* Every accepted call is decided, and every refresh ends.
Live ==
  /\ WF_vars(Land)
  /\ \A c \in Calls : WF_vars(promise[c] = "pending" /\ (Decide(c) \/ Join(c)))

FairSpec == Spec /\ Live
=============================================================================
