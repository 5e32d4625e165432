SPECIFICATION FairSpec
CONSTANTS
  Calls = {c1, c2, c3}
  Keys = {k1}
  Tokens = {t1}
  Nobody = Nobody
  NoToken = NoToken
  MaxSessions = 1
  IdleTimeout = 1
  MaxTime = 1
PROPERTY CallReturns
CHECK_DEADLOCK FALSE
