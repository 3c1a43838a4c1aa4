SPECIFICATION DirectorSpec
CONSTANTS
  s1 = s1
  s2 = s2
  n1 = n1
  t1 = t1
  t2 = t2
  Tasks = {t1, t2}
  FirstShots <- MCFirstShots
  Plans <- MCPlans
  Touched = {s1}
  MaxResumes = 1
  MaxEvents = 2

  
  
PROPERTIES
  
  CancelStopsEffects
  CancellingEnds
CHECK_DEADLOCK FALSE
