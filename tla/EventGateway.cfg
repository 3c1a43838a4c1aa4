SPECIFICATION FairSpec
CONSTANTS
  r1 = r1
  d1 = d1
  NoId = NoId
  Rows = {r1}
  Renders = {}
  Runs = {d1}
  Watched = {"storyboard", "proposals", "generations"}
  Kinds = {"shot.updated", "agent.plan.created"}
  QueueMax = 1
  WireMax = 1
  LoopMax = 1
  MaxWorks = 1
  MaxEvents = 1
INVARIANTS
  
  StoresFollow

  
CHECK_DEADLOCK FALSE
