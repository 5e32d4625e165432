SPECIFICATION Spec
CONSTANTS
  k1 = k1
  k2 = k2
  k3 = k3
  Keys = {k1}
  UserOf <- MC_UserOf
  Calls = {c1, c2, c3, c4}
  NoToken = NoToken
  NoRequest = NoRequest
  Servers = {s1}
  Tools = {"create_server_backup"}
  Args = {a1}
  InvalidArgs = {}
  Signals = {"kill"}
  Rests = {}
  Ttl = 1
  PowerAutoConfirm = FALSE
  MaxTime = 2
  MaxRestarts = 0
  MaxPerMinute = 4
  Minute = 2
  BackupInterval = 2
SYMMETRY Symmetry
INVARIANT BackupsSpaced
CHECK_DEADLOCK FALSE
