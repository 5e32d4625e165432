CONSTANTS
  Requests = {r1, r2}
  Timeout = 2
  NoTimer = NoTimer
SPECIFICATION FairSpec
INVARIANTS
  TimerWhileTimed
  WaitsInTime
  Inv
PROPERTIES
  TimeoutsAreTrue
  EveryRequestEnds
