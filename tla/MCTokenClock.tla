---------------------------- MODULE MCTokenClock ----------------------------
(* A token of two seconds, events 300 or 700 ms apart, a server whose clock *)
(* is behind, equal or ahead by fractions of a second.                      *)
EXTENDS TokenClock
SomeOffsets == {-1700, 0, 450}
SomeValidities == {0, 1}
SomeSteps == {300, 700}
=============================================================================
