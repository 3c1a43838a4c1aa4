SPECIFICATION FairSpec
CONSTANTS
  h1 = h1
  NumTasks = 2
  Deps <- LateDependency
  NumGen = 2
  Threads = {h1}
  MaxCalls = 2
  MaxAborts = 1
INVARIANTS
  EndedJobHasNoOpenTask
  CompletedByItsRow
PROPERTIES
  CompletedTasksStay
  JobSettles
CHECK_DEADLOCK FALSE
