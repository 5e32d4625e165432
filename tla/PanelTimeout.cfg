CONSTANTS
  Requests = {r1}
  Timeout = 1
  NoTimer = NoTimer
SPECIFICATION Spec
INVARIANT RequestsInTime
