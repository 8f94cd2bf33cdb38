---------------------------- MODULE MCResourcesTab ----------------------------
(* An instance of ResourcesTab for TLC: two resources, one of them shared    *)
(* with a user who asks for more, the other asked for by the other user.     *)
EXTENDS ResourcesTab
CONSTANTS r1, r2, u1, u2, a, b
AllResources == {r1, r2}
AllUsers     == {u1, u2}
AllScopes    == {a, b}
WantedScopes == {b}
SomeChoices  == {{}, {a, b}}
FirstShares  == [r \in {r1, r2} |-> [u \in {u1, u2} |-> IF r = r1 /\ u = u1 THEN {a} ELSE {}]]
FirstPending == [r \in {r1, r2} |-> IF r = r1 THEN {u1} ELSE {u2}]
=============================================================================
