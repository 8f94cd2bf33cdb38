------------------------ MODULE MCKeycloakDataTable ------------------------
(* Three items, of which a search finds two; pages of one or two rows.      *)
EXTENDS KeycloakDataTable
ThreeItems == {1, 2, 3}
SomeHits == [s \in {"", "a"} |-> IF s = "" THEN ThreeItems ELSE {1, 3}]
OneOrTwo == {1, 2}
=============================================================================
