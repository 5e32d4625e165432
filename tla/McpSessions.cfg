SPECIFICATION Spec
CONSTANTS
  Requests = 5
  WithoutId = 2
  MaxRestarts = 1
INVARIANTS
  TypeOK
  MapHoldsOpenSessions
  AnsweredUnlessClosed
PROPERTY
  RequestsEnd
CHECK_DEADLOCK FALSE
