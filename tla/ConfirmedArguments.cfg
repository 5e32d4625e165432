SPECIFICATION Spec
CONSTANTS
  k1 = k1
  k2 = k2
  k3 = k3
  Keys = {k1}
  UserOf <- MC_UserOf
  Calls = {c1, c2}
  NoToken = NoToken
  NoRequest = NoRequest
  Servers = {s1}
  Tools = {"restore_server_backup"}
  Args = {a1}
  InvalidArgs = {}
  Signals = {"kill"}
  Rests = {truncate}
  Ttl = 1
  PowerAutoConfirm = FALSE
  MaxTime = 2
  MaxRestarts = 0
  MaxPerMinute = 2
  Minute = 2
  BackupInterval = 2
SYMMETRY Symmetry
INVARIANT ConfirmedAsRequested
CHECK_DEADLOCK FALSE
