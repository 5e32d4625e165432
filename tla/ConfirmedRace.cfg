SPECIFICATION Spec
CONSTANTS
  k1 = k1
  k2 = k2
  k3 = k3
  Keys = {k1, k3}
  UserOf <- MC_UserOf
  Calls = {c1, c2, c3}
  NoToken = NoToken
  NoRequest = NoRequest
  Servers = {s1}
  Tools = {"server_power", "create_server_backup"}
  Args = {a1}
  InvalidArgs = {}
  Signals = {"kill"}
  Rests = {}
  Ttl = 1
  PowerAutoConfirm = FALSE
  MaxTime = 3
  MaxRestarts = 1
  MaxPerMinute = 2
  Minute = 2
  BackupInterval = 2
SYMMETRY Symmetry
INVARIANTS
  IInv
  NoActionWithoutConfirmation
  ConfirmedOnce
  PowerTokenSpentOnlyToAct
PROPERTIES
  ConfirmedInTime
  ConfirmationKept
  BackupQuietPeriod
  ImplementsOneTime
CHECK_DEADLOCK FALSE
