SPECIFICATION Spec
CONSTANTS
  NumMemories = 3
  NumSummaries = 0
  Fact = {f1, f2}
  Runner = {tick}
  Scheduler = tick
  BatchSize = 3
  Settings <- MCChunks
  MinCluster = 2
INVARIANTS TasksAreIndependent
CHECK_DEADLOCK FALSE
