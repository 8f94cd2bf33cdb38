-------------------------- MODULE MCKeycloakSession --------------------------
(* Instances of KeycloakSession for TLC: three overlapping calls of          *)
(* updateToken, the second one forced, with and without the iframe.         *)
EXTENDS KeycloakSession
CONSTANTS c1, c2, c3
AllCalls    == {c1, c2, c3}
TwoCalls    == {c1, c2}
ForcedCalls == {c2}
=============================================================================
