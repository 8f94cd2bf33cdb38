--------------------------- MODULE MCKeycloakInit ---------------------------
(* Every combination of init options and callbacks.                         *)
EXTENDS KeycloakInit
AllOnLoads   == {"none", "check-sso", "login-required"}
AllFlows     == {"standard", "implicit", "hybrid"}
AllCallbacks == {"none", "success", "error", "errorOfNone"}
=============================================================================
