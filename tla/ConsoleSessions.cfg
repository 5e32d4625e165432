SPECIFICATION Spec
CONSTANTS
  Calls = {c1, c2, c3}
  Keys = {k1, k2, k3}
  Tokens = {t1, t2}
  Nobody = Nobody
  NoToken = NoToken
  MaxSessions = 1
  IdleTimeout = 1
  MaxTime = 3
SYMMETRY Symmetry
INVARIANTS
  IInv
  ConnectedWhenAlone
  NoSocketLost
  AtMostOneTooMany
PROPERTIES
  SentOnAcceptedSocket
  ReusedWithOwnToken
CHECK_DEADLOCK FALSE
