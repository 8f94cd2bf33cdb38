-------------------------- MODULE MCCallbackStorage --------------------------
(* Two tabs, four logins, a clock on which three logins can be pending at   *)
(* different ages when the first expires.                                   *)
EXTENDS CallbackStorage
CONSTANTS t1, t2
TwoTabs == {t1, t2}
FourStates == 1..4
=============================================================================
