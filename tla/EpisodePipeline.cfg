SPECIFICATION PipelineSpec
CONSTANTS
  o1 = o1
  o2 = o2
  Ops = {o1, o2}
  PlanSizes = {1}
  MaxSource = 2
  MaxSnapshots = 2
  MaxScenes = 2
  MaxShots = 1
  MaxPipelines = 1
  MaxRenders = 2
  MaxOps = 3
  MaxCrashes = 1
INVARIANTS
  SnapshotWrittenOnce
  

  
SYMMETRY OpSymmetry
CHECK_DEADLOCK FALSE
