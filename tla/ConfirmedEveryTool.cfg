SPECIFICATION FairSpec
CONSTANTS
  k1 = k1
  k2 = k2
  k3 = k3
  Keys = {k1}
  UserOf <- MC_UserOf
  Calls = {c1, c2}
  NoToken = NoToken
  NoRequest = NoRequest
  Servers = {s1, s2}
  Tools = {"server_power", "write_server_file", "create_server_backup", "restore_server_backup", "delete_server_backup", "delete_server_files", "delete_server_database", "delete_server_subuser", "delete_server_allocation", "create_server", "delete_server"}
  Args = {a1, bad}
  InvalidArgs = {bad}
  Signals = {"start", "kill"}
  Rests = {}
  Ttl = 1
  PowerAutoConfirm = FALSE
  MaxTime = 2
  MaxRestarts = 0
  MaxPerMinute = 2
  Minute = 2
  BackupInterval = 2
INVARIANTS
  TypeOK
  NoActionWithoutConfirmation
  AuditAgreesWithPanel
PROPERTIES
  CallReturns
CHECK_DEADLOCK FALSE
