SPECIFICATION Spec
CONSTANTS
  c1 = c1
  c2 = c2
  s1 = s1
  s2 = s2
  Calls = {c1, c2}
  Servers = {s1, s2}
  PolicyServers = {s1, s2}
  NoRequest = NoRequest
  DefaultMode = "strict"
  DefaultPreset = "generic"
  AutoDetectEgg = TRUE
  Overrides <- MCOverrides
  Batches <- MCBatches
  PanelStates <- MCPanelStates
  ReadyState <- MCReady
  EggOf <- MCEggOf
  LogFiles <- MCLogFiles
  ConsoleTransport = "auto"
  BulkMaxServers = 2
  FileMaxReadBytes = 8
  ConsoleMaxLines = 2
  MaxMatches = 1
  MaxChanges = 1
  MaxFaults = 1
  MaxRestarts = 1
INVARIANTS
  IInv
  EveryOutcomeRecorded
  LogKeepsRecords
  CommandsSentWithCause
  BulkAnswersEach
  LinesAreTheLastRead
PROPERTIES
  EveryAnswerBringsTheEnd
  CallReturns
CHECK_DEADLOCK FALSE
