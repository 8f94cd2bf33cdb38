SPECIFICATION FairSpec
CONSTANTS
  master = master
  a = a
  b = b
  NoRealm = NoRealm
  Realms <- AllRealms
  LoginRealm = master
  Existing <- StartRealms
  MayList <- Listed
  MaxRequests = 2
CHECK_DEADLOCK FALSE
INVARIANTS RightRealm PageOfRealm AccessOfRealm ListUnderWay
PROPERTIES AccessArrives LossNoticed
