SPECIFICATION Spec
CONSTANTS
  Calls = {c1}
  Keys = {k1, k2}
  Tokens = {t1, t2}
  Nobody = Nobody
  NoToken = NoToken
  MaxSessions = 1
  IdleTimeout = 1
  MaxTime = 3
SYMMETRY Symmetry
INVARIANT AuthTimeoutIsReported
CHECK_DEADLOCK FALSE
