SPECIFICATION Spec
CONSTANTS
  NumMemories = 4
  NumSummaries = 1
  Fact = {f1, f2}
  Runner = {tick, route}
  Scheduler = tick
  BatchSize = 2
  Settings <- MCSettings
  MinCluster = 2
INVARIANTS TypeOK NoFactLost ForgottenStaysForgotten
PROPERTIES QueueDrains
CHECK_DEADLOCK FALSE
