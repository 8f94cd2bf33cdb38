----------------------------- MODULE MCAdminRealm -----------------------------
(* Instances of AdminRealm for TLC: the master realm and two others, one of  *)
(* which is only created on the way.                                         *)
EXTENDS AdminRealm
CONSTANTS master, a, b
AllRealms   == {master, a, b}
StartRealms == {master, a}
Listed      == {master, b}
=============================================================================
